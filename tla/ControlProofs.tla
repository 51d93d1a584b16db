---------------------------- MODULE ControlProofs ----------------------------
(***************************************************************************)
(* The control plane around the engines is sound, proved for every number  *)
(* of callers, calls, engines, rows and letters: the admission pool that   *)
(* the runs of a job share, dead letters and their replay, the operations  *)
(* service over the store lease, and the search for the tick a job missed. *)
(***************************************************************************)
EXTENDS JobAdmission, DeadLetters, Daemon, Catchup, FiniteSetTheorems, SequenceTheorems,
        WellFoundedInduction, TLAPS

-----------------------------------------------------------------------------
(* The admission pool.                                                     *)

PoolTypes ==
  /\ rows \in 0..MaxRows /\ open \subseteq 1..rows /\ taken \in Nat
  /\ active \subseteq Engines /\ failed \in BOOLEAN
  /\ owed \in [Engines -> SUBSET (1..rows)] /\ held \in [Engines -> SUBSET (1..rows)]

\* A ledger belongs to an active engine, and a row it has still to replay has no
\* slot in it yet.
Ledgers ==
  /\ \A e \in Engines \ active : owed[e] = {} /\ held[e] = {}
  /\ \A e \in Engines : owed[e] \cap held[e] = {}

\* The pool counts the slots of the ledgers, and those a failed run has lost.
PoolInv ==
  /\ PoolTypes /\ Ledgers
  /\ Cardinality(Slots) <= taken /\ taken <= HighWatermark
  /\ ~ failed => Cardinality(Slots) = taken

LEMMA SlotsFinite ==
  /\ IsFiniteSet(Slots) /\ Cardinality(Slots) \in Nat
  /\ IsFiniteSet(Slots') /\ Cardinality(Slots') \in Nat
<1>1. IsFiniteSet(1..MaxRows)
  BY FS_Interval, PoolAssumption
<1>2. IsFiniteSet(Engines \X (1..MaxRows))
  BY <1>1, FS_Product, PoolAssumption
<1>3. Slots \in SUBSET (Engines \X (1..MaxRows)) /\ Slots' \in SUBSET (Engines \X (1..MaxRows))
  BY DEF Slots
<1>4. IsFiniteSet(Slots) /\ IsFiniteSet(Slots')
  BY <1>2, <1>3, FS_Subset
<1> QED BY <1>4, FS_CardinalityType

\* A row gets a slot.
LEMMA SlotTaken ==
  ASSUME PoolInv, NEW e \in Engines, NEW r \in 1..MaxRows, r \notin held[e],
         held' = [held EXCEPT ![e] = @ \union {r}]
  PROVE  Cardinality(Slots') = Cardinality(Slots) + 1
<1>1. Slots' = Slots \cup {<<e, r>>} /\ <<e, r>> \notin Slots
  BY DEF Slots, PoolInv, PoolTypes
<1>2. Cardinality(Slots \cup {<<e, r>>}) = Cardinality(Slots) + 1
  BY <1>1, SlotsFinite, FS_AddElement
<1> QED BY <1>1, <1>2, Zenon

\* An engine gives up its ledger.
LEMMA SlotsReturned ==
  ASSUME PoolInv, NEW e \in Engines, held' = [held EXCEPT ![e] = {}]
  PROVE  /\ Cardinality(Slots') = Cardinality(Slots) - Cardinality(held[e])
         /\ Cardinality(held[e]) \in Nat
<1>0. held[e] \in SUBSET (1..MaxRows)
  BY PoolAssumption DEF PoolInv, PoolTypes
<1>1. IsFiniteSet(held[e]) /\ Cardinality(held[e]) \in Nat
  <2>1. IsFiniteSet(1..MaxRows)
    BY FS_Interval, PoolAssumption
  <2> QED BY <1>0, <2>1, FS_Subset, FS_CardinalityType
<1>2. IsFiniteSet({e}) /\ Cardinality({e}) = 1
  BY FS_Singleton
<1>3. Cardinality({e} \X held[e]) = Cardinality(held[e])
  <2>1. Cardinality({e} \X held[e]) = Cardinality({e}) * Cardinality(held[e])
    BY <1>1, <1>2, FS_Product
  <2> QED BY <1>1, <1>2, <2>1
<1>4. Slots' = Slots \ ({e} \X held[e])
  BY DEF Slots, PoolInv, PoolTypes
<1>5. Slots \cap ({e} \X held[e]) = {e} \X held[e]
  BY <1>0 DEF Slots
<1>6. Cardinality(Slots \ ({e} \X held[e])) = Cardinality(Slots) - Cardinality(Slots \cap ({e} \X held[e]))
  BY SlotsFinite, FS_Difference
<1>7. Cardinality(Slots \cap ({e} \X held[e])) = Cardinality(held[e])
  BY <1>3, <1>5, Zenon
<1>8. Cardinality(Slots') = Cardinality(Slots \ ({e} \X held[e]))
  BY <1>4, Zenon
<1> QED BY <1>1, <1>6, <1>7, <1>8, Zenon

\* A row gives up its slot.
LEMMA SlotReturned ==
  ASSUME PoolInv, NEW e \in Engines, NEW r \in held[e],
         held' = [held EXCEPT ![e] = @ \ {r}]
  PROVE  /\ Cardinality(Slots') = Cardinality(Slots) - 1
         /\ Released(e, {r}) = taken - 1
<1>1. Slots' = Slots \ {<<e, r>>} /\ <<e, r>> \in Slots
  BY PoolAssumption DEF Slots, PoolInv, PoolTypes
<1>2. Cardinality(Slots \ {<<e, r>>}) = Cardinality(Slots) - 1
  BY <1>1, SlotsFinite, FS_RemoveElement
<1>3. Cardinality(Slots') = Cardinality(Slots) - 1
  BY <1>1, <1>2, Zenon
<1>4. {r} \intersect held[e] = {r}
  OBVIOUS
<1>5. Cardinality({r} \intersect held[e]) = 1
  BY <1>4, FS_Singleton, Zenon
<1> QED BY <1>3, <1>5 DEF Released

LEMMA PoolStart == PoolInit => PoolInv
<1> SUFFICES ASSUME PoolInit PROVE PoolInv
  OBVIOUS
<1>1. Slots = {}
  BY DEF PoolInit, Slots
<1>2. Cardinality(Slots) = 0
  BY <1>1, FS_EmptySet, Zenon
<1>3. PoolTypes
  <2>1. rows \in 0..MaxRows /\ taken \in Nat
    BY PoolAssumption DEF PoolInit
  <2>2. open \subseteq 1..rows /\ active \subseteq Engines /\ failed \in BOOLEAN
    BY DEF PoolInit
  <2>3. owed \in [Engines -> SUBSET (1..rows)] /\ held \in [Engines -> SUBSET (1..rows)]
    BY DEF PoolInit
  <2> QED BY <2>1, <2>2, <2>3 DEF PoolTypes
<1>4. Ledgers
  BY DEF PoolInit, Ledgers
<1>5. Cardinality(Slots) = taken /\ taken <= HighWatermark
  BY <1>2, PoolAssumption DEF PoolInit
<1> QED BY <1>2, <1>3, <1>4, <1>5 DEF PoolInit, PoolInv

LEMMA PoolStep == PoolInv /\ [PoolNext]_poolVars => PoolInv'
<1> SUFFICES ASSUME PoolInv, [PoolNext]_poolVars PROVE PoolInv'
  OBVIOUS
<1>0. /\ rows \in 0..MaxRows /\ MaxRows \in Nat /\ HighWatermark \in Nat \ {0} /\ taken \in Nat
      /\ Cardinality(Slots) \in Nat
  BY PoolAssumption, SlotsFinite DEF PoolInv, PoolTypes
<1>1. ASSUME held' = held PROVE Cardinality(Slots') = Cardinality(Slots)
  <2>1. Slots' = Slots
    BY <1>1 DEF Slots
  <2> QED BY <2>1, Zenon
<1>2. ASSUME NEW e \in Engines, Begin(e) PROVE PoolInv'
  <2>1. Cardinality(Slots') = Cardinality(Slots)
    BY <1>1, <1>2 DEF Begin
  <2>2. PoolTypes' /\ Ledgers'
    BY <1>2 DEF Begin, PoolInv, PoolTypes, Ledgers
  <2> QED BY <1>2, <2>1, <2>2 DEF Begin, PoolInv
<1>3. ASSUME NEW e \in Engines, NEW r \in 1..MaxRows, Replay(e, r) PROVE PoolInv'
  <2>1. Cardinality(Slots') = Cardinality(Slots) + 1
    <3>1. r \notin held[e] /\ held' = [held EXCEPT ![e] = @ \union {r}]
      BY <1>3 DEF Replay, PoolInv, Ledgers
    <3> QED BY <3>1, SlotTaken
  <2>2. PoolTypes' /\ Ledgers'
    BY <1>3 DEF Replay, PoolInv, PoolTypes, Ledgers
  <2>3. taken' = taken + 1 /\ taken < HighWatermark /\ failed' = failed
    BY <1>3 DEF Replay, Gate
  <2> QED BY <1>0, <2>1, <2>2, <2>3 DEF PoolInv
<1>4. ASSUME NEW e \in Engines, Accept(e) PROVE PoolInv'
  <2>0. rows + 1 \in 1..MaxRows /\ rows + 1 \notin held[e] /\ held' = [held EXCEPT ![e] = @ \union {rows + 1}]
    BY <1>0, <1>4 DEF Accept, PoolInv, PoolTypes
  <2>1. Cardinality(Slots') = Cardinality(Slots) + 1
    BY <2>0, SlotTaken
  <2>2. rows' \in 0..MaxRows /\ (1..rows) \subseteq 1..rows' /\ rows + 1 \in 1..rows'
    BY <1>0, <1>4 DEF Accept
  <2>3. PoolTypes'
    BY <1>4, <2>2 DEF Accept, PoolInv, PoolTypes
  <2>4. Ledgers'
    BY <1>4 DEF Accept, PoolInv, PoolTypes, Ledgers
  <2>5. taken' = taken + 1 /\ taken < HighWatermark /\ failed' = failed
    BY <1>4 DEF Accept, Gate
  <2> QED BY <1>0, <2>1, <2>3, <2>4, <2>5 DEF PoolInv
<1>5. ASSUME NEW e \in Engines, NEW r \in 1..MaxRows, Commit(e, r) PROVE PoolInv'
  <2>1. Cardinality(Slots') = Cardinality(Slots) - 1 /\ taken' = taken - 1
    BY <1>5, SlotReturned DEF Commit
  <2>2. taken - 1 \in Nat
    BY <1>0, <2>1, SlotsFinite DEF PoolInv
  <2>3. PoolTypes' /\ Ledgers'
    BY <1>5, <2>1, <2>2 DEF Commit, PoolInv, PoolTypes, Ledgers
  <2>4. failed' = failed
    BY <1>5 DEF Commit
  <2> QED BY <1>0, <2>1, <2>2, <2>3, <2>4 DEF PoolInv
<1>6. ASSUME NEW e \in Engines, Gone(e), PoolTypes' PROVE Ledgers'
  BY <1>6 DEF Gone, PoolInv, PoolTypes, Ledgers
<1>7. ASSUME NEW e \in Engines, Complete(e) PROVE PoolInv'
  <2>1. held' = held /\ UNCHANGED <<taken, failed>>
    BY <1>7 DEF Complete, Gone, PoolInv, PoolTypes
  <2>2. PoolTypes'
    BY <1>7 DEF Complete, Gone, PoolInv, PoolTypes
  <2>3. Ledgers'
    BY <1>6, <1>7, <2>2 DEF Complete
  <2>4. Cardinality(Slots') = Cardinality(Slots)
    BY <1>1, <2>1
  <2> QED BY <2>1, <2>2, <2>3, <2>4 DEF PoolInv
<1>8. ASSUME NEW e \in Engines, Abandon(e) PROVE PoolInv'
  <2>1. Cardinality(Slots') = Cardinality(Slots) - Cardinality(held[e]) /\ Cardinality(held[e]) \in Nat
    BY <1>8, SlotsReturned DEF Abandon, Gone
  <2>2. taken' = taken - Cardinality(held[e]) /\ failed' = failed
    <3>1. held[e] \intersect held[e] = held[e]
      OBVIOUS
    <3> QED BY <1>8, <3>1, Zenon DEF Abandon, Released
  <2>3. taken' \in Nat
    <3>1. Cardinality(Slots') \in Nat
      BY SlotsFinite
    <3> QED BY <1>0, <2>1, <2>2, <3>1 DEF PoolInv
  <2>4. PoolTypes'
    BY <1>8, <2>3 DEF Abandon, Gone, PoolInv, PoolTypes
  <2>5. Ledgers'
    BY <1>6, <1>8, <2>4 DEF Abandon
  <2> QED BY <1>0, <2>1, <2>2, <2>3, <2>4, <2>5 DEF PoolInv
<1>9. ASSUME NEW e \in Engines, Fail(e) PROVE PoolInv'
  <2>1. Cardinality(Slots') = Cardinality(Slots) - Cardinality(held[e]) /\ Cardinality(held[e]) \in Nat
    BY <1>9, SlotsReturned DEF Fail, Gone
  <2>2. held[e] = {} => Cardinality(held[e]) = 0
    BY FS_EmptySet, Zenon
  <2>3. taken' = taken /\ failed' = (failed \/ held[e] # {})
    BY <1>9 DEF Fail
  <2>4. PoolTypes'
    BY <1>9 DEF Fail, Gone, PoolInv, PoolTypes
  <2>5. Ledgers'
    BY <1>6, <1>9, <2>4 DEF Fail
  <2>6. Cardinality(Slots') <= taken' /\ taken' <= HighWatermark
    BY <1>0, <2>1, <2>3 DEF PoolInv
  <2>7. ASSUME ~ failed' PROVE Cardinality(Slots') = taken'
    <3>1. ~ failed /\ Cardinality(held[e]) = 0
      BY <2>2, <2>3, <2>7 DEF PoolInv, PoolTypes
    <3> QED BY <1>0, <2>1, <2>3, <3>1 DEF PoolInv
  <2> QED BY <2>4, <2>5, <2>6, <2>7 DEF PoolInv
<1>10. ASSUME Crash PROVE PoolInv'
  <2>1. Slots' = {}
    BY <1>10 DEF Crash, Slots
  <2>2. Cardinality(Slots') = 0
    BY <2>1, FS_EmptySet, Zenon
  <2>3. PoolTypes' /\ Ledgers'
    BY <1>10 DEF Crash, PoolInv, PoolTypes, Ledgers
  <2> QED BY <1>0, <1>10, <2>2, <2>3 DEF Crash, PoolInv
<1>11. ASSUME UNCHANGED poolVars PROVE PoolInv'
  <2>1. Cardinality(Slots') = Cardinality(Slots)
    BY <1>1, <1>11 DEF poolVars
  <2> QED BY <1>11, <2>1 DEF poolVars, PoolInv, PoolTypes, Ledgers
<1> QED BY <1>2, <1>3, <1>4, <1>5, <1>7, <1>8, <1>9, <1>10, <1>11, Zenon DEF PoolNext, EngineStep

\* The engines of overlapping runs hold no more rows than max_in_flight together, and
\* when none is active the pool is whole again, unless a run has failed: for every
\* order in which runs begin, replay, accept, commit, are abandoned, fail and crash.
THEOREM PoolSound == PoolSpec => []PoolAccounted
<1>1. PoolInv => PoolAccounted
  <2> SUFFICES ASSUME PoolInv PROVE PoolAccounted
    OBVIOUS
  <2>1. QuotaAggregates
    BY DEF PoolInv, QuotaAggregates
  <2>2. ASSUME active = {}, ~ failed PROVE taken = 0
    <3>1. Slots = {}
      BY <2>2 DEF PoolInv, Ledgers, Slots
    <3>2. Cardinality(Slots) = 0
      BY <3>1, FS_EmptySet, Zenon
    <3> QED BY <2>2, <3>2 DEF PoolInv
  <2> QED BY <2>1, <2>2 DEF PoolAccounted, PoolReturned
<1> QED BY <1>1, PoolStart, PoolStep, PTL DEF PoolSpec

-----------------------------------------------------------------------------
(* Dead letters.                                                           *)

LetterTypes ==
  /\ letters \subseteq [id : Nat, b : Branches] /\ lastId \in Nat
  /\ injected \subseteq [seq : Nat, b : Branches] /\ lastSeq \in Nat
  /\ verb \in [pc : {"none", "lease", "inject", "delete", "exit"}, items : SUBSET [id : Nat, b : Branches],
               todo : SUBSET [id : Nat, b : Branches], failed : Nat, delete : BOOLEAN]
  /\ service \subseteq [id : Nat, b : Branches] /\ handled \subseteq Branches

\* Identifiers grow and are not used again, and what the verb has collected names the
\* branches of the letters it was collected from.
Identified ==
  /\ \A l \in letters : 1 <= l.id /\ l.id <= lastId /\ \A k \in letters : k.id = l.id => k.b = l.b
  /\ \A i \in verb.items : i.id <= lastId /\ \A l \in letters : i.id = l.id => i.b = l.b
  /\ verb.todo \subseteq verb.items /\ (verb.pc \in {"delete", "exit"} => verb.todo = {})

\* The traces of a branch that a deletion by the verb leaves alone: rows, letters
\* younger than everything collected, and what has ended.
Traces ==
  {r.b : r \in injected} \cup handled \cup expired
    \cup {k.b : k \in {l \in letters : \A i \in verb.items : l.id > i.id}}

\* A letter that was injected, with all before it, has such a trace.
Reinjected ==
  verb.failed = 0 =>
    \A l \in letters : l.id \in IDs(verb.items) /\ l.id \notin IDs(verb.todo) => l.b \in Traces

LetterInv == LetterTypes /\ Identified /\ Reinjected /\ LetterKept

LEMMA LettersStart == LettersInit => LetterInv
<1> SUFFICES ASSUME LettersInit PROVE LetterInv
  OBVIOUS
<1>1. PICK order \in Injection(Branches, 1..lastId) : letters = {[id |-> order[b], b |-> b] : b \in Branches}
  BY DEF LettersInit
<1>2. /\ \A b \in Branches : order[b] \in 1..lastId
      /\ \A b, d \in Branches : order[b] = order[d] => b = d
  BY <1>1 DEF Injection, IsInjective
<1>3. lastId \in Nat
  BY FS_CardinalityType, LettersAssumption DEF LettersInit
<1>4. /\ letters \subseteq [id : Nat, b : Branches]
      /\ \A l \in letters : 1 <= l.id /\ l.id <= lastId /\ \A k \in letters : k.id = l.id => k.b = l.b
  BY <1>1, <1>2, <1>3
<1>5. verb = NoVerb /\ verb.items = {} /\ verb.todo = {} /\ verb.pc = "none"
  BY DEF LettersInit, NoVerb
<1>6. LetterTypes
  BY <1>3, <1>4 DEF LettersInit, LetterTypes, NoVerb
<1>7. Identified
  BY <1>4, <1>5 DEF Identified
<1>8. Reinjected
  BY <1>5 DEF Reinjected, IDs
<1>9. LetterKept
  <2> SUFFICES ASSUME NEW b \in Branches PROVE b \in Known
    BY DEF LetterKept
  <2>1. PICK l \in letters : l = [id |-> order[b], b |-> b]
    BY <1>1
  <2> QED BY <2>1 DEF Known
<1> QED BY <1>6, <1>7, <1>8, <1>9 DEF LetterInv

\* The verb and the service move on, rows are added and letters stay.
LEMMA LettersInjected ==
  ASSUME LetterInv, LetterTypes', Identified', UNCHANGED <<letters, handled, expired>>,
         injected \subseteq injected', verb'.items = verb.items,
         verb'.failed = 0 => verb.failed = 0,
         verb'.failed = 0 => \A l \in letters :
            l.id \in IDs(verb.todo) /\ l.id \notin IDs(verb'.todo) => \E r \in injected' : r.b = l.b
  PROVE  LetterInv'
<1>1. Traces \subseteq Traces'
  BY DEF Traces
<1>2. Reinjected'
  <2> SUFFICES ASSUME verb'.failed = 0, NEW l \in letters, l.id \in IDs(verb.items), l.id \notin IDs(verb'.todo)
               PROVE  l.b \in Traces'
    BY DEF Reinjected
  <2>1. CASE l.id \in IDs(verb.todo)
    BY <2>1 DEF Traces
  <2>2. CASE l.id \notin IDs(verb.todo)
    BY <1>1, <2>2 DEF LetterInv, Reinjected
  <2> QED BY <2>1, <2>2
<1>3. LetterKept'
  BY DEF LetterInv, LetterKept, Known
<1> QED BY <1>2, <1>3 DEF LetterInv

LEMMA LettersStep == LetterInv /\ [LettersNext]_letterVars => LetterInv'
<1> SUFFICES ASSUME LetterInv, [LettersNext]_letterVars PROVE LetterInv'
  OBVIOUS
<1> USE DEF engineSide
<1>1. ASSUME NEW del \in BOOLEAN, Collect(del) PROVE LetterInv'
  <2>1. PICK items \in {Select(f) : f \in Filters} \cup {{[id |-> 0, b |-> b]} : b \in {r.b : r \in injected} \cup handled} :
          verb' = [pc |-> "lease", items |-> items, todo |-> items, failed |-> 0, delete |-> del]
    BY <1>1 DEF Collect
  <2>2. items \subseteq letters \/ \E b \in Branches : items = {[id |-> 0, b |-> b]}
    <3>1. \A f \in Filters : Select(f) \subseteq letters
      BY DEF Select
    <3>2. \A b \in {r.b : r \in injected} \cup handled : b \in Branches
      BY DEF LetterInv, LetterTypes
    <3> HIDE DEF Select
    <3> QED BY <2>1, <3>1, <3>2
  <2>3. verb'.items = items /\ verb'.todo = items /\ verb'.pc = "lease"
    BY <2>1
  <2>4. UNCHANGED <<letters, lastId, injected, lastSeq, handled, expired, service>>
    BY <1>1 DEF Collect
  <2>5. items \subseteq [id : Nat, b : Branches]
    BY <2>2 DEF LetterInv, LetterTypes
  <2>6. LetterTypes'
    BY <2>1, <2>4, <2>5 DEF LetterInv, LetterTypes
  <2>7. Identified'
    <3>1. \A i \in items : i.id <= lastId /\ \A l \in letters : i.id = l.id => i.b = l.b
      <4>1. CASE items \subseteq letters
        BY <4>1 DEF LetterInv, Identified
      <4>2. ASSUME NEW b \in Branches, items = {[id |-> 0, b |-> b]}
            PROVE  \A i \in items : i.id <= lastId /\ \A l \in letters : i.id = l.id => i.b = l.b
        BY <4>2 DEF LetterInv, Identified, LetterTypes
      <4> QED BY <2>2, <4>1, <4>2
    <3> QED BY <2>3, <2>4, <3>1 DEF LetterInv, Identified
  <2>8. Reinjected'
    BY <2>3 DEF Reinjected
  <2>9. LetterKept'
    BY <2>4 DEF LetterInv, LetterKept, Known
  <2> QED BY <2>6, <2>7, <2>8, <2>9 DEF LetterInv
<1>2. ASSUME VerbAcquires PROVE LetterInv'
  <2>1. /\ UNCHANGED <<letters, lastId, injected, lastSeq, handled, expired, service>>
        /\ verb' = [verb EXCEPT !.pc = "inject"]
    BY <1>2 DEF VerbAcquires
  <2>2. verb'.items = verb.items /\ verb'.todo = verb.todo /\ verb'.failed = verb.failed /\ verb'.pc = "inject"
    BY <2>1 DEF LetterInv, LetterTypes
  <2>3. LetterTypes' /\ Identified'
    BY <2>1, <2>2 DEF LetterInv, LetterTypes, Identified
  <2> QED BY <2>1, <2>2, <2>3, LettersInjected
<1>3. ASSUME Inject PROVE LetterInv'
  <2>1. PICK i \in verb.todo :
          /\ injected' = injected \cup {[seq |-> lastSeq + 1, b |-> i.b]} /\ lastSeq' = lastSeq + 1
          /\ verb' = [verb EXCEPT !.todo = @ \ {i}]
    BY <1>3 DEF Inject
  <2>2. UNCHANGED <<letters, lastId, handled, expired, service>>
    BY <1>3 DEF Inject
  <2>3. /\ verb'.items = verb.items /\ verb'.todo = verb.todo \ {i}
        /\ verb'.failed = verb.failed /\ verb'.pc = verb.pc /\ verb'.delete = verb.delete
    BY <2>1 DEF LetterInv, LetterTypes
  <2>4. LetterTypes'
    <3>1. i \in [id : Nat, b : Branches]
      BY <2>1 DEF LetterInv, LetterTypes
    <3>2. injected' \subseteq [seq : Nat, b : Branches]
      BY <2>1, <3>1 DEF LetterInv, LetterTypes
    <3> QED BY <2>1, <2>2, <3>2 DEF LetterInv, LetterTypes
  <2>5. Identified'
    BY <2>2, <2>3 DEF LetterInv, Identified
  <2>6. ASSUME NEW l \in letters, l.id \in IDs(verb.todo), l.id \notin IDs(verb'.todo)
        PROVE  \E r \in injected' : r.b = l.b
    <3>1. l.id = i.id
      BY <2>3, <2>6 DEF IDs
    <3>2. l.b = i.b
      BY <2>1, <3>1 DEF LetterInv, Identified
    <3>3. [seq |-> lastSeq + 1, b |-> i.b] \in injected'
      BY <2>1
    <3> QED BY <3>2, <3>3
  <2> QED BY <2>1, <2>2, <2>3, <2>4, <2>5, <2>6, LettersInjected
<1>4. ASSUME InjectFails PROVE LetterInv'
  <2>1. PICK i \in verb.todo : verb' = [verb EXCEPT !.todo = @ \ {i}, !.failed = @ + 1]
    BY <1>4 DEF InjectFails
  <2>2. UNCHANGED <<letters, lastId, injected, lastSeq, handled, expired, service>>
    BY <1>4 DEF InjectFails
  <2>3. /\ verb'.items = verb.items /\ verb'.todo = verb.todo \ {i}
        /\ verb'.failed = verb.failed + 1 /\ verb'.pc = verb.pc
    BY <2>1 DEF LetterInv, LetterTypes
  <2>4. LetterTypes'
    <3>1. verb.failed + 1 \in Nat /\ verb.todo \ {i} \in SUBSET [id : Nat, b : Branches]
      BY DEF LetterInv, LetterTypes
    <3> QED BY <2>1, <2>2, <3>1 DEF LetterInv, LetterTypes
  <2>5. Identified'
    BY <2>2, <2>3 DEF LetterInv, Identified
  <2>6. verb'.failed # 0
    BY <2>3 DEF LetterInv, LetterTypes
  <2> QED BY <2>2, <2>3, <2>4, <2>5, <2>6, LettersInjected
<1>5. ASSUME Waited PROVE LetterInv'
  <2>1. /\ UNCHANGED <<letters, lastId, injected, lastSeq, handled, expired, service>>
        /\ verb' = [verb EXCEPT !.pc = "delete"] /\ verb.todo = {}
    BY <1>5 DEF Waited
  <2>2. verb'.items = verb.items /\ verb'.todo = verb.todo /\ verb'.failed = verb.failed /\ verb'.pc = "delete"
    BY <2>1 DEF LetterInv, LetterTypes
  <2>3. LetterTypes' /\ Identified'
    BY <2>1, <2>2 DEF LetterInv, LetterTypes, Identified
  <2> QED BY <2>1, <2>2, <2>3, LettersInjected
<1>6. ASSUME Delete PROVE LetterInv'
  <2>1. /\ UNCHANGED <<lastId, injected, lastSeq, handled, expired, service>>
        /\ verb' = [verb EXCEPT !.pc = "exit"] /\ verb.pc = "delete" /\ verb.failed = 0
        /\ letters' = {l \in letters : l.id \notin IDs(verb.items)}
    BY <1>6 DEF Delete, MayDelete
  <2>2. verb'.items = verb.items /\ verb'.todo = verb.todo /\ verb'.failed = verb.failed /\ verb'.pc = "exit"
    BY <2>1 DEF LetterInv, LetterTypes
  <2>3. LetterTypes'
    BY <2>1 DEF LetterInv, LetterTypes
  <2>4. Identified'
    BY <2>1, <2>2 DEF LetterInv, Identified
  <2>5. Reinjected'
    BY <2>1, <2>2 DEF Reinjected
  <2>6. verb.todo = {}
    BY <2>1 DEF LetterInv, Identified
  <2>7. Traces \subseteq Known' \cup handled \cup expired
    <3> SUFFICES ASSUME NEW k \in letters, \A i \in verb.items : k.id > i.id PROVE k \in letters'
      BY <2>1 DEF Traces, Known
    <3>1. k.id \in Nat /\ \A i \in verb.items : i.id \in Nat
      BY DEF LetterInv, LetterTypes
    <3>2. k.id \notin IDs(verb.items)
      BY <3>1 DEF IDs
    <3> QED BY <2>1, <3>2
  <2>8. \A l \in letters : l \in letters' \/ l.b \in Traces
    BY <2>1, <2>6 DEF LetterInv, Reinjected, IDs
  <2>9. LetterKept'
    <3> SUFFICES ASSUME NEW b \in Branches PROVE b \in Known' \cup handled \cup expired
      BY <2>1 DEF LetterKept
    <3>1. CASE b \in {l.b : l \in letters}
      <4>1. PICK l \in letters : l.b = b
        BY <3>1
      <4>2. CASE l \in letters'
        BY <4>1, <4>2 DEF Known
      <4>3. CASE l.b \in Traces
        BY <2>7, <4>1, <4>3
      <4> QED BY <2>8, <4>2, <4>3
    <3>2. CASE b \notin {l.b : l \in letters}
      BY <2>1, <3>2 DEF LetterInv, LetterKept, Known
    <3> QED BY <3>1, <3>2
  <2> QED BY <2>3, <2>4, <2>5, <2>9 DEF LetterInv
<1>7. ASSUME Exit PROVE LetterInv'
  <2>1. verb' = NoVerb /\ UNCHANGED <<letters, lastId, injected, lastSeq, handled, expired, service>>
    BY <1>7 DEF Exit
  <2>2. verb'.items = {} /\ verb'.todo = {} /\ verb'.pc = "none"
    BY <2>1 DEF NoVerb
  <2>3. LetterTypes'
    BY <2>1 DEF LetterInv, LetterTypes, NoVerb
  <2>4. Identified' /\ Reinjected'
    BY <2>1, <2>2 DEF LetterInv, Identified, Reinjected, IDs
  <2>5. LetterKept'
    BY <2>1 DEF LetterInv, LetterKept, Known
  <2> QED BY <2>3, <2>4, <2>5 DEF LetterInv
<1>8. ASSUME DaemonStarts \/ DaemonEnds \/ ServiceFails PROVE LetterInv'
  <2>1. UNCHANGED <<letters, lastId, injected, lastSeq, handled, expired, verb>> /\ service' \in {service, {}}
    BY <1>8 DEF DaemonStarts, DaemonEnds, ServiceFails
  <2>2. LetterTypes' /\ Identified'
    BY <2>1 DEF LetterInv, LetterTypes, Identified
  <2> QED BY <2>1, <2>2, LettersInjected
<1>9. ASSUME DeadLetterReplay PROVE LetterInv'
  <2>1. UNCHANGED <<letters, lastId, injected, lastSeq, handled, expired, verb>> /\ service' \subseteq letters
    BY <1>9 DEF DeadLetterReplay, Select
  <2>2. LetterTypes' /\ Identified'
    BY <2>1 DEF LetterInv, LetterTypes, Identified
  <2> QED BY <2>1, <2>2, LettersInjected
<1>10. ASSUME ServiceInjects PROVE LetterInv'
  <2>1. PICK i \in service :
          /\ injected' = injected \cup {[seq |-> lastSeq + 1, b |-> i.b]} /\ lastSeq' = lastSeq + 1
          /\ service' = service \ {i}
    BY <1>10 DEF ServiceInjects
  <2>2. UNCHANGED <<letters, lastId, handled, expired, verb>>
    BY <1>10 DEF ServiceInjects
  <2>3. LetterTypes'
    <3>1. i \in [id : Nat, b : Branches]
      BY <2>1 DEF LetterInv, LetterTypes
    <3>2. injected' \subseteq [seq : Nat, b : Branches]
      BY <2>1, <3>1 DEF LetterInv, LetterTypes
    <3> QED BY <2>1, <2>2, <3>2 DEF LetterInv, LetterTypes
  <2>4. Identified'
    BY <2>2 DEF LetterInv, Identified
  <2> QED BY <2>1, <2>2, <2>3, <2>4, LettersInjected
<1>11. ASSUME NEW r \in injected, Handle(r) PROVE LetterInv'
  <2>1. /\ injected' = injected \ {r} /\ handled' = handled \cup {r.b}
        /\ UNCHANGED <<letters, lastId, lastSeq, verb, service, expired>>
    BY <1>11 DEF Handle
  <2>2. LetterTypes'
    <3>1. r \in [seq : Nat, b : Branches]
      BY DEF LetterInv, LetterTypes
    <3> QED BY <2>1, <3>1 DEF LetterInv, LetterTypes
  <2>3. Identified'
    BY <2>1 DEF LetterInv, Identified
  <2>4. {q.b : q \in injected} \subseteq {q.b : q \in injected'} \cup handled'
    BY <2>1
  <2>5. Traces \subseteq Traces'
    BY <2>1, <2>4 DEF Traces
  <2>6. Reinjected'
    BY <2>1, <2>5 DEF LetterInv, Reinjected
  <2>7. LetterKept'
    BY <2>1, <2>4 DEF LetterInv, LetterKept, Known
  <2> QED BY <2>2, <2>3, <2>6, <2>7 DEF LetterInv
<1>12. ASSUME NEW r \in injected, Refail(r) PROVE LetterInv'
  <2> DEFINE new == [id |-> lastId + 1, b |-> r.b]
  <2>1. /\ letters' = letters \cup {new} /\ lastId' = lastId + 1
        /\ injected' = injected \ {r} /\ expired' = expired \ {r.b}
        /\ UNCHANGED <<lastSeq, verb, service, handled>>
    BY <1>12 DEF Refail
  <2>2. r.b \in Branches /\ new \in [id : Nat, b : Branches] /\ new.id = lastId + 1 /\ new.b = r.b
    BY DEF LetterInv, LetterTypes
  <2>3. /\ lastId \in Nat /\ \A l \in letters : l.id \in Nat /\ l.id <= lastId
        /\ \A i \in verb.items : i.id \in Nat /\ i.id <= lastId
    BY DEF LetterInv, LetterTypes, Identified
  <2> HIDE DEF new
  <2>4. LetterTypes'
    BY <2>1, <2>2, <2>3 DEF LetterInv, LetterTypes
  <2>5. \A i \in verb.items : new.id > i.id
    BY <2>2, <2>3
  <2>6. Identified'
    <3>1. \A l \in letters' : 1 <= l.id /\ l.id <= lastId' /\ \A k \in letters' : k.id = l.id => k.b = l.b
      BY <2>1, <2>2, <2>3 DEF LetterInv, Identified
    <3>2. \A i \in verb.items : i.id <= lastId' /\ \A l \in letters' : i.id = l.id => i.b = l.b
      BY <2>1, <2>2, <2>3 DEF LetterInv, Identified
    <3> QED BY <2>1, <3>1, <3>2 DEF LetterInv, Identified
  <2>7. {q.b : q \in injected} \cup expired \subseteq {q.b : q \in injected'} \cup expired' \cup {new.b}
    BY <2>1, <2>2
  <2>8. Traces \subseteq Traces'
    <3>1. new.b \in {k.b : k \in {l \in letters' : \A i \in verb'.items : l.id > i.id}}
      BY <2>1, <2>5
    <3>2. {k.b : k \in {l \in letters : \A i \in verb.items : l.id > i.id}} \subseteq Traces'
      BY <2>1 DEF Traces
    <3> QED BY <2>1, <2>7, <3>1, <3>2 DEF Traces
  <2>9. Reinjected'
    <3>1. new.id \notin IDs(verb.items)
      BY <2>5, <2>2, <2>3 DEF IDs
    <3> QED BY <2>1, <2>8, <3>1 DEF LetterInv, Reinjected
  <2>10. LetterKept'
    BY <2>1, <2>7 DEF LetterInv, LetterKept, Known
  <2> QED BY <2>4, <2>6, <2>9, <2>10 DEF LetterInv
<1>13. ASSUME Expire PROVE LetterInv'
  <2>1. PICK cutoff \in 2..lastId + 1 : letters' = {l \in letters : l.id >= cutoff}
    BY <1>13 DEF Expire
  <2>2. /\ expired' = expired \cup (Known \ ({l.b : l \in letters'} \cup {q.b : q \in injected}))
        /\ UNCHANGED <<lastId, injected, lastSeq, verb, service, handled>>
    BY <1>13 DEF Expire
  <2>3. LetterTypes' /\ Identified'
    BY <2>1, <2>2 DEF LetterInv, LetterTypes, Identified
  <2>4. ASSUME NEW l \in letters', l.id \in IDs(verb.items), l.b \in Traces PROVE l.b \in Traces'
    <3>1. CASE l.b \in {q.b : q \in injected} \cup handled \cup expired
      BY <2>2, <3>1 DEF Traces
    <3>2. CASE l.b \in {k.b : k \in {l2 \in letters : \A i \in verb.items : l2.id > i.id}}
      <4>1. PICK k \in letters : k.b = l.b /\ \A i \in verb.items : k.id > i.id
        BY <3>2
      <4>2. k.id > l.id
        BY <2>4, <4>1 DEF IDs
      <4>3. k.id \in Nat /\ l.id \in Nat /\ l.id >= cutoff /\ cutoff \in Int
        BY <2>1, <2>4 DEF LetterInv, LetterTypes
      <4>4. k \in letters'
        BY <2>1, <4>2, <4>3
      <4> QED BY <2>2, <4>1, <4>4 DEF Traces
    <3> QED BY <2>4, <3>1, <3>2 DEF Traces
  <2>5. Reinjected'
    BY <2>1, <2>2, <2>4 DEF LetterInv, Reinjected
  <2>6. Known \subseteq Known' \cup expired'
    BY <2>2 DEF Known
  <2>7. LetterKept'
    BY <2>2, <2>6 DEF LetterInv, LetterKept
  <2> QED BY <2>3, <2>5, <2>7 DEF LetterInv
<1>14. ASSUME UNCHANGED letterVars PROVE LetterInv'
  BY <1>14 DEF letterVars, LetterInv, LetterTypes, Identified, Reinjected, Traces, LetterKept, Known
<1> QED
  BY <1>1, <1>2, <1>3, <1>4, <1>5, <1>6, <1>7, <1>8, <1>9, <1>10, <1>11, <1>12, <1>13, <1>14, Zenon DEF LettersNext

\* A branch that failed keeps a trace, for every number of branches, letters and
\* replays: --delete removes by id, and what it removes was injected before, by the
\* same verb (cmdReplay, DeadLetterReplay, dispatchInternal, trimDeadLetters).
THEOREM LettersSound == LettersSpec => []LetterKept
<1>1. LetterInv => LetterKept
  BY DEF LetterInv
<1> QED BY <1>1, LettersStart, LettersStep, PTL DEF LettersSpec

-----------------------------------------------------------------------------
(* The operations service.                                                 *)

InstanceType ==
  [v : Versions \cup {None}, job : BOOLEAN, status : {"running", "paused", "drained", "completed", "failed"},
   canceled : BOOLEAN, stage : {"leased", "starting", "up", "ended", "released", "done"},
   answer : {"none", "ok", "error"}]
CallType ==
  [op : {"none", "Deploy", "Drain", "Pause", "Resume", "Stop"},
   at : {"idle", "lock", "shutdown", "wait", "mark", "stopped", "start", "build", "await"},
   v : Versions \cup {None}, m : Nat, old : Nat]

DaemonTypes ==
  /\ inst \in Seq(InstanceType) /\ call \in [Callers -> CallType]
  /\ lock \in Callers \cup {None} /\ entry \in Instances \cup {None} /\ lease \in Instances \cup {None, Other}
  /\ refused \subseteq Instances \cup {Other}

\* The lease is an instance's from Acquire to releaseLease, and what is being built
\* belongs to the call that holds the mutex.
Living(i) == inst[i].stage \in {"leased", "starting", "up", "ended"}
Leased ==
  \A i \in Instances :
    /\ Living(i) <=> lease = i
    /\ inst[i].stage = "leased" => lock \in Callers /\ call[lock].at = "build" /\ call[lock].m = i

\* A status other than running, and an answer to the caller, come with a stage.
Reported ==
  \A i \in Instances :
    /\ inst[i].stage \in {"leased", "starting"} => entry # i /\ inst[i].answer = "none"
    /\ inst[i].status # "running" => inst[i].stage \in {"ended", "released", "done"}
    /\ inst[i].status \in {"paused", "drained"} => Done(i)
    /\ inst[i].answer = "error" => inst[i].status = "failed"

\* What has been started is in the map, or its caller waits for the answer, or its
\* start has failed.
Managed ==
  \A i \in Instances : inst[i].stage \in {"starting", "up", "ended"} =>
    \/ entry = i
    \/ lock \in Callers /\ call[lock].at = "await" /\ call[lock].m = i
    \/ inst[i].answer = "error"

\* Where a call is, and what it knows there.
Critical(c) == call[c].at \in {"mark", "start", "build", "await"} \/ (call[c].at \in {"shutdown", "wait"} /\ call[c].op # "Stop")
Place(c) ==
  /\ Critical(c) => lock = c
  /\ call[c].at \in {"lock", "mark", "start", "build", "await"} => call[c].op # "Stop"
  /\ call[c].at \in {"shutdown", "wait", "mark", "build", "await"} => call[c].m \in Instances
  /\ call[c].at = "mark" => Done(call[c].m)
  /\ call[c].at = "build" => inst[call[c].m].stage = "leased"
  /\ call[c].at = "await" => inst[call[c].m].stage # "leased"
  /\ call[c].at \in {"shutdown", "wait", "mark"} /\ call[c].op # "Stop" => entry = call[c].m
  /\ call[c].at \in {"start", "build", "await"} /\ entry # None => Done(entry)

DaemonInv ==
  /\ DaemonTypes /\ Leased /\ Reported /\ Managed
  /\ \A c \in Callers : Place(c)
  /\ ~ early /\ BusyIsForeign

LEMMA DaemonStart == DaemonInit => DaemonInv
<1> SUFFICES ASSUME DaemonInit PROVE DaemonInv
  OBVIOUS
<1>1. inst = <<>> /\ Instances = {}
  BY DEF DaemonInit, Instances
<1>2. Idle \in CallType
  BY DEF Idle, CallType, None
<1>3. DaemonTypes
  BY <1>1, <1>2 DEF DaemonInit, DaemonTypes
<1>4. \A c \in Callers : Place(c)
  BY DEF DaemonInit, Place, Critical, Idle
<1> QED BY <1>1, <1>3, <1>4 DEF DaemonInit, DaemonInv, Leased, Reported, Managed, BusyIsForeign

\* One instance is changed.
LEMMA InstanceSet ==
  ASSUME DaemonTypes, NEW i \in Instances, NEW r \in InstanceType, inst' = [inst EXCEPT ![i] = r]
  PROVE  /\ inst' \in Seq(InstanceType) /\ Instances' = Instances /\ inst'[i] = r
         /\ \A j \in Instances \ {i} : inst'[j] = inst[j]
<1>1. inst \in Seq(InstanceType) /\ i \in 1..Len(inst)
  BY DEF DaemonTypes, Instances
<1>2. inst' \in Seq(InstanceType) /\ Len(inst') = Len(inst)
  BY <1>1, ExceptSeq
<1>3. inst'[i] = r /\ \A j \in (1..Len(inst)) \ {i} : inst'[j] = inst[j]
  BY <1>1
<1> QED BY <1>2, <1>3 DEF Instances

\* One call is changed.
LEMMA CallSet ==
  ASSUME DaemonTypes, NEW c \in Callers, NEW r \in CallType, Set(c, r)
  PROVE  /\ call' \in [Callers -> CallType] /\ call'[c] = r
         /\ \A d \in Callers \ {c} : call'[d] = call[d]
BY DEF DaemonTypes, Set

LEMMA InstanceNumbers ==
  ASSUME DaemonTypes
  PROVE  /\ \A i \in Instances : i \in Nat /\ i # None /\ i # Other /\ inst[i] \in InstanceType
         /\ None \in Nat /\ None # Other
BY DEF DaemonTypes, Instances, None, Other

\* A call moves, and may take or give back the mutex.  Of the instances at most the
\* cancel flags change.
LEMMA CallMoves ==
  ASSUME DaemonInv, NEW c \in Callers, NEW r \in CallType, Set(c, r),
         inst' \in Seq(InstanceType), Instances' = Instances,
         \A i \in Instances : /\ inst'[i].stage = inst[i].stage /\ inst'[i].status = inst[i].status
                              /\ inst'[i].answer = inst[i].answer,
         UNCHANGED <<entry, lease, refused, early>>,
         call[c].at \notin {"build", "await"},
         lock' = lock \/ (lock = None /\ lock' = c) \/ (lock = c /\ lock' = None),
         Place(c)'
  PROVE  DaemonInv'
<1>1. /\ call' \in [Callers -> CallType] /\ call'[c] = r
      /\ \A d \in Callers \ {c} : call'[d] = call[d]
  BY CallSet DEF DaemonInv
<1>2. None \notin Callers
  BY DaemonAssumption
<1>3. DaemonTypes'
  BY <1>1 DEF DaemonInv, DaemonTypes
<1>4. ASSUME lock \in Callers, call[lock].at \in {"build", "await"}
      PROVE  lock' = lock /\ call'[lock] = call[lock]
  BY <1>1, <1>2, <1>4
<1>5. Leased'
  BY <1>4 DEF DaemonInv, Leased, Living
<1>6. Reported'
  BY DEF DaemonInv, Reported, Done
<1>7. Managed'
  BY <1>4 DEF DaemonInv, Managed
<1>8. ASSUME NEW d \in Callers, d # c PROVE Place(d)'
  <2>1. call'[d] = call[d]
    BY <1>1, <1>8
  <2>2. Place(d)
    BY DEF DaemonInv
  <2>3. Critical(d) => lock' = d
    BY <1>2, <1>8, <2>2 DEF Place
  <2>4. entry \in Instances \cup {None}
    BY DEF DaemonInv, DaemonTypes
  <2> QED BY <2>1, <2>2, <2>3, <2>4 DEF Place, Critical, Done
<1>9. BusyIsForeign'
  BY DEF DaemonInv, BusyIsForeign, DaemonTypes
<1> QED BY <1>3, <1>5, <1>6, <1>7, <1>8, <1>9 DEF DaemonInv

LEMMA DaemonStep == DaemonInv /\ [DaemonNext]_daemonVars => DaemonInv'
<1> SUFFICES ASSUME DaemonInv, [DaemonNext]_daemonVars PROVE DaemonInv'
  OBVIOUS
<1>0. /\ DaemonTypes /\ Leased /\ Reported /\ Managed /\ BusyIsForeign /\ early = FALSE
      /\ \A c \in Callers : Place(c) /\ call[c] \in CallType
  BY DEF DaemonInv, DaemonTypes
<1>1. ASSUME NEW c \in Callers, NEW v \in Versions, Deploy(c, v) \/ (reloadDir(c, v) /\ file # v) PROVE DaemonInv'
  <2> DEFINE r == [Idle EXCEPT !.op = "Deploy", !.at = "lock", !.v = v]
  <2>1. Set(c, r) /\ UNCHANGED <<lock, entry, inst, lease, refused, early>> /\ call[c].at = "idle"
    BY <1>1 DEF Deploy, reloadDir, Called, At
  <2>2. r \in CallType /\ r.at = "lock" /\ r.op = "Deploy"
    BY DEF Idle, CallType, None
  <2> HIDE DEF r
  <2>3. call'[c] = r
    BY <1>0, <2>1, <2>2, CallSet
  <2>4. Place(c)'
    BY <2>2, <2>3 DEF Place, Critical
  <2> QED BY <1>0, <2>1, <2>2, <2>4, CallMoves DEF Instances, DaemonTypes
<1>2. ASSUME NEW c \in Callers, NEW op \in {"Drain", "Pause", "Resume"}, Manage(c, op) PROVE DaemonInv'
  <2> DEFINE r == [Idle EXCEPT !.op = op, !.at = "lock"]
  <2>1. Set(c, r) /\ UNCHANGED <<lock, entry, inst, lease, refused, early>> /\ call[c].at = "idle"
    BY <1>2 DEF Manage, Called, At
  <2>2. r \in CallType /\ r.at = "lock" /\ r.op # "Stop"
    BY DEF Idle, CallType, None
  <2> HIDE DEF r
  <2>3. call'[c] = r
    BY <1>0, <2>1, <2>2, CallSet
  <2>4. Place(c)'
    BY <2>2, <2>3 DEF Place, Critical
  <2> QED BY <1>0, <2>1, <2>2, <2>4, CallMoves DEF Instances, DaemonTypes
<1>3. ASSUME NEW c \in Callers, Stop(c) PROVE DaemonInv'
  <2> DEFINE r == [Idle EXCEPT !.op = "Stop", !.at = IF entry = None THEN "stopped" ELSE "shutdown", !.m = entry]
  <2>1. Set(c, r) /\ UNCHANGED <<lock, entry, inst, lease, refused, early>> /\ call[c].at = "idle"
    BY <1>3 DEF Stop, Called, At
  <2>2. entry \in Instances \cup {None} /\ entry \in Nat
    BY <1>0, InstanceNumbers DEF DaemonTypes
  <2>3. /\ r \in CallType /\ r.op = "Stop" /\ r.m = entry
        /\ r.at = "stopped" \/ (r.at = "shutdown" /\ entry # None)
    BY <2>2 DEF Idle, CallType, None
  <2> HIDE DEF r
  <2>4. call'[c] = r
    BY <1>0, <2>1, <2>3, CallSet
  <2>5. Place(c)'
    BY <2>1, <2>2, <2>3, <2>4 DEF Place, Critical, Instances
  <2> QED BY <1>0, <2>1, <2>3, <2>5, CallMoves DEF Instances, DaemonTypes
<1>4. ASSUME NEW c \in Callers, Enter(c) PROVE DaemonInv'
  <2>1. UNCHANGED <<entry, inst, lease, refused, early>> /\ call[c].at = "lock" /\ lock = None
    BY <1>4 DEF Enter, At
  <2>2. CASE Proceeds(c) = "return"
    <3>1. Set(c, Idle) /\ lock' = None
      BY <1>4, <2>2 DEF Enter, Unlock, Return
    <3>2. Idle \in CallType /\ Idle.at = "idle"
      BY DEF Idle, CallType, None
    <3>3. call'[c] = Idle
      BY <1>0, <3>1, <3>2, CallSet
    <3>4. Place(c)'
      BY <3>2, <3>3 DEF Place, Critical
    <3> QED BY <1>0, <2>1, <3>1, <3>2, <3>4, CallMoves DEF Instances, DaemonTypes
  <2>3. CASE Proceeds(c) # "return"
    <3>1. PICK v : Set(c, [call[c] EXCEPT !.at = Proceeds(c), !.m = entry, !.v = v]) /\ lock' = c
                   /\ v = IF call[c].op = "Deploy" THEN call[c].v ELSE inst[entry].v
      BY <1>4, <2>3 DEF Enter
    <3> DEFINE r == [call[c] EXCEPT !.at = Proceeds(c), !.m = entry, !.v = v]
    <3>2. entry \in Instances \cup {None} /\ entry \in Nat
      BY <1>0, InstanceNumbers DEF DaemonTypes
    <3>3. call[c].op # "Stop"
      BY <1>0, <2>1 DEF Place
    <3>4. \/ Proceeds(c) = "shutdown" /\ entry # None
          \/ Proceeds(c) = "start" /\ (entry # None => call[c].op # "Deploy" /\ Done(entry))
      <4>1. CASE call[c].op = "Deploy"
        BY <4>1 DEF Proceeds
      <4>2. CASE call[c].op # "Deploy" /\ entry # None
        BY <1>0, <2>3, <3>2, <4>2 DEF Proceeds, Reported
      <4>3. CASE call[c].op # "Deploy" /\ entry = None
        BY <2>3, <4>3 DEF Proceeds
      <4> QED BY <4>1, <4>2, <4>3
    <3>5. v \in Versions \cup {None}
      <4>1. CASE call[c].op = "Deploy"
        BY <1>0, <3>1, <4>1 DEF CallType
      <4>2. CASE call[c].op # "Deploy"
        <5>1. entry \in Instances
          BY <2>3, <3>2, <4>2 DEF Proceeds
        <5> QED BY <1>0, <3>1, <4>2, <5>1, InstanceNumbers DEF InstanceType
      <4> QED BY <4>1, <4>2
    <3>6. r \in CallType /\ r.op = call[c].op /\ r.at = Proceeds(c) /\ r.m = entry
      BY <1>0, <3>2, <3>4, <3>5 DEF CallType
    <3>7. Set(c, r)
      BY <3>1
    <3> HIDE DEF r
    <3>8. call'[c] = r
      BY <1>0, <3>6, <3>7, CallSet
    <3>9. Place(c)'
      BY <2>1, <3>1, <3>2, <3>3, <3>4, <3>6, <3>8 DEF Place, Critical, Instances, Done
    <3> QED BY <1>0, <2>1, <3>1, <3>6, <3>7, <3>9, CallMoves DEF Instances, DaemonTypes
  <2> QED BY <2>2, <2>3
<1>5. ASSUME NEW c \in Callers, shutdown(c) PROVE DaemonInv'
  <2> DEFINE m == call[c].m
             q == [inst[m] EXCEPT !.canceled = TRUE]
             r == [call[c] EXCEPT !.at = "wait"]
  <2>1. /\ UNCHANGED <<lock, entry, lease, refused, early>> /\ call[c].at = "shutdown" /\ Set(c, r)
        /\ inst' = [inst EXCEPT ![m] = q]
    BY <1>5 DEF shutdown, At, Move
  <2>2. m \in Instances
    BY <1>0, <2>1 DEF Place
  <2>3. /\ q \in InstanceType /\ q.stage = inst[m].stage
        /\ q.status = inst[m].status /\ q.answer = inst[m].answer
    <3>1. inst[m] \in InstanceType
      BY <1>0, <2>2, InstanceNumbers
    <3> HIDE DEF m
    <3> QED BY <3>1 DEF InstanceType
  <2>4. r \in CallType /\ r.op = call[c].op /\ r.at = "wait" /\ r.m = m
    BY <1>0 DEF CallType
  <2> HIDE DEF m, q, r
  <2>5. /\ inst' \in Seq(InstanceType) /\ Instances' = Instances /\ inst'[m] = q
        /\ \A j \in Instances \ {m} : inst'[j] = inst[j]
    BY <1>0, <2>1, <2>2, <2>3, InstanceSet
  <2>6. \A i \in Instances : /\ inst'[i].stage = inst[i].stage /\ inst'[i].status = inst[i].status
                             /\ inst'[i].answer = inst[i].answer
    BY <2>3, <2>5
  <2>7. call'[c] = r
    BY <1>0, <2>1, <2>4, CallSet
  <2>8. Place(c)'
    BY <1>0, <2>1, <2>2, <2>4, <2>5, <2>7 DEF Place, Critical, m
  <2> QED BY <1>0, <2>1, <2>4, <2>5, <2>6, <2>8, CallMoves
<1>6. ASSUME NEW c \in Callers, Stopped(c) PROVE DaemonInv'
  <2> DEFINE p == CASE call[c].op = "Deploy" -> "start" [] call[c].op = "Stop" -> "stopped" [] OTHER -> "mark"
             r == [call[c] EXCEPT !.at = p]
  <2>1. /\ UNCHANGED <<lock, entry, inst, lease, refused, early>> /\ call[c].at = "wait" /\ Set(c, r)
        /\ Done(call[c].m)
    BY <1>6 DEF Stopped, At, Move
  <2>2. /\ p \in {"start", "stopped", "mark"} /\ (p = "stopped" <=> call[c].op = "Stop")
    OBVIOUS
  <2> HIDE DEF p
  <2>3. r \in CallType /\ r.op = call[c].op /\ r.at = p /\ r.m = call[c].m
    BY <1>0, <2>2 DEF CallType
  <2> HIDE DEF r
  <2>4. call'[c] = r
    BY <1>0, <2>1, <2>3, CallSet
  <2>5. Place(c)'
    BY <1>0, <2>1, <2>2, <2>3, <2>4 DEF Place, Critical, Instances, Done
  <2> QED BY <1>0, <2>1, <2>3, <2>5, CallMoves DEF Instances, DaemonTypes
<1>7. ASSUME NEW c \in Callers, TimeOut(c) \/ StopReturns(c) PROVE DaemonInv'
  <2> DEFINE p == IF call[c].at = "wait" /\ call[c].op = "Stop" THEN [call[c] EXCEPT !.at = "stopped"] ELSE Idle
  <2>1. /\ UNCHANGED <<entry, inst, lease, refused, early>> /\ call[c].at \in {"wait", "stopped"} /\ Set(c, p)
        /\ lock' = lock \/ (lock' = None /\ call[c].at = "wait" /\ call[c].op # "Stop")
    BY <1>7 DEF TimeOut, StopReturns, At, Move, Unlock, Return
  <2>2. p \in CallType /\ p.at \in {"stopped", "idle"}
    BY <1>0 DEF CallType, Idle, None
  <2> HIDE DEF p
  <2>3. call'[c] = p
    BY <1>0, <2>1, <2>2, CallSet
  <2>4. Place(c)'
    BY <2>2, <2>3 DEF Place, Critical
  <2>5. lock' = lock \/ (lock = c /\ lock' = None)
    BY <1>0, <2>1 DEF Place, Critical
  <2> QED BY <1>0, <2>1, <2>2, <2>4, <2>5, CallMoves DEF Instances, DaemonTypes
<1>8. ASSUME NEW c \in Callers, transition(c) PROVE DaemonInv'
  <2> DEFINE m == call[c].m
             to == IF <<inst[m].status, Target(call[c].op)>> \in Table THEN Target(call[c].op) ELSE inst[m].status
             q == [inst[m] EXCEPT !.status = to]
  <2>1. /\ UNCHANGED <<entry, lease, refused, early>> /\ call[c].at = "mark" /\ Set(c, Idle) /\ lock' = None
        /\ inst' = [inst EXCEPT ![m] = q]
    BY <1>8 DEF transition, At, Unlock, Return
  <2>2. m \in Instances /\ Done(m) /\ lock = c
    BY <1>0, <2>1 DEF Place, Critical
  <2>3. inst[m] \in InstanceType /\ inst[m].stage = "done"
    BY <1>0, <2>2, InstanceNumbers DEF Done
  <2>4. inst[m].status = "failed" => to = "failed"
    BY DEF Table
  <2>5. to \in {"running", "paused", "drained", "completed", "failed"}
    BY <2>3 DEF Target, InstanceType
  <2> HIDE DEF m, to
  <2>6. q \in InstanceType /\ q.stage = "done" /\ q.status = to /\ q.answer = inst[m].answer
    BY <2>3, <2>5 DEF InstanceType
  <2> HIDE DEF q
  <2>7. /\ inst' \in Seq(InstanceType) /\ Instances' = Instances /\ inst'[m] = q
        /\ \A j \in Instances \ {m} : inst'[j] = inst[j]
    BY <1>0, <2>1, <2>2, <2>6, InstanceSet
  <2>8. Idle \in CallType /\ Idle.at = "idle"
    BY DEF Idle, CallType, None
  <2>9. /\ call' \in [Callers -> CallType] /\ call'[c] = Idle
        /\ \A d \in Callers \ {c} : call'[d] = call[d]
    BY <1>0, <2>1, <2>8, CallSet
  <2>10. DaemonTypes'
    BY <1>0, <2>1, <2>7, <2>9 DEF DaemonTypes
  <2>11. Leased'
    BY <1>0, <2>1, <2>2, <2>3, <2>6, <2>7, <2>9 DEF Leased, Living
  <2>12. Reported'
    BY <1>0, <2>1, <2>2, <2>3, <2>4, <2>6, <2>7 DEF Reported, Done
  <2>13. Managed'
    BY <1>0, <2>1, <2>2, <2>3, <2>6, <2>7, <2>9 DEF Managed
  <2>14. ASSUME NEW d \in Callers PROVE Place(d)'
    <3>1. CASE d = c
      BY <2>8, <2>9, <3>1 DEF Place, Critical
    <3>2. CASE d # c
      <4>1. call'[d] = call[d] /\ Place(d) /\ ~ Critical(d)
        BY <1>0, <2>2, <2>9, <3>2 DEF Place
      <4> QED BY <2>7, <4>1 DEF Place, Critical
    <3> QED BY <3>1, <3>2
  <2>15. BusyIsForeign'
    BY <1>0, <2>1, <2>4, <2>6, <2>7 DEF BusyIsForeign, DaemonTypes
  <2> QED BY <1>0, <2>1, <2>10, <2>11, <2>12, <2>13, <2>14, <2>15 DEF DaemonInv
<1>9. ASSUME NEW c \in Callers, Acquire(c) PROVE DaemonInv'
  <2> DEFINE n == Len(inst) + 1
             q == Instance(call[c].v)
             r == [call[c] EXCEPT !.at = "build", !.old = call[c].m, !.m = n]
  <2>1. /\ UNCHANGED <<lock, entry, refused, early>> /\ call[c].at = "start" /\ Set(c, r)
        /\ lease = None /\ lease' = n /\ inst' = Append(inst, q)
    BY <1>9 DEF Acquire, At
  <2>2. q \in InstanceType /\ q.stage = "leased" /\ q.status = "running" /\ q.answer = "none"
    BY <1>0 DEF CallType, InstanceType, Instance
  <2>3. n \in Nat /\ n \notin Instances /\ n # None /\ n # Other /\ Instances \cup {n} = 1..n
    BY <1>0 DEF DaemonTypes, Instances, None, Other
  <2>4. r \in CallType /\ r.op = call[c].op /\ r.at = "build" /\ r.m = n
    BY <1>0, <2>3 DEF CallType
  <2> HIDE DEF q, r
  <2>5. /\ inst' \in Seq(InstanceType) /\ Instances' = Instances \cup {n} /\ inst'[n] = q
        /\ \A j \in Instances : inst'[j] = inst[j]
    BY <1>0, <2>1, <2>2, <2>3 DEF DaemonTypes, Instances
  <2> HIDE DEF n
  <2>6. /\ call' \in [Callers -> CallType] /\ call'[c] = r
        /\ \A d \in Callers \ {c} : call'[d] = call[d]
    BY <1>0, <2>1, <2>4, CallSet
  <2>7. lock = c /\ entry # n /\ (entry # None => entry \in Instances /\ Done(entry))
    BY <1>0, <2>1, <2>3 DEF Place, Critical, DaemonTypes
  <2>8. DaemonTypes'
    BY <1>0, <2>1, <2>5, <2>6 DEF DaemonTypes
  <2>9. Leased'
    <3>1. \A i \in Instances : ~ Living(i) /\ i # n
      BY <1>0, <2>1, <2>3, InstanceNumbers DEF Leased
    <3> QED BY <2>1, <2>2, <2>4, <2>5, <2>6, <2>7, <3>1 DEF Leased, Living
  <2>10. Reported'
    BY <1>0, <2>1, <2>2, <2>5, <2>7 DEF Reported, Done
  <2>11. Managed'
    BY <1>0, <2>1, <2>2, <2>5, <2>7 DEF Managed
  <2>12. ASSUME NEW d \in Callers PROVE Place(d)'
    <3>1. CASE d = c
      BY <1>0, <2>1, <2>2, <2>4, <2>5, <2>6, <2>7, <3>1 DEF Place, Critical, Done
    <3>2. CASE d # c
      <4>1. call'[d] = call[d] /\ Place(d) /\ ~ Critical(d)
        BY <1>0, <2>7, <2>6, <3>2 DEF Place
      <4> QED BY <2>5, <4>1 DEF Place, Critical
    <3> QED BY <3>1, <3>2
  <2>13. BusyIsForeign'
    BY <1>0, <2>1, <2>5 DEF BusyIsForeign, DaemonTypes
  <2> QED BY <1>0, <2>1, <2>8, <2>9, <2>10, <2>11, <2>12, <2>13 DEF DaemonInv
<1>10. ASSUME NEW c \in Callers, Busy(c) PROVE DaemonInv'
  <2>1. /\ UNCHANGED <<inst, lease, early>> /\ call[c].at = "start" /\ Set(c, Idle) /\ lock' = None
        /\ lease # None /\ refused' = refused \cup {lease} /\ entry' \in {entry, None}
    BY <1>10 DEF Busy, drop, At, Unlock, Return
  <2>2. lock = c /\ (entry # None => entry \in Instances /\ Done(entry))
    BY <1>0, <2>1 DEF Place, Critical, DaemonTypes
  <2>3. Idle \in CallType /\ Idle.at = "idle"
    BY DEF Idle, CallType, None
  <2>4. /\ call' \in [Callers -> CallType] /\ call'[c] = Idle
        /\ \A d \in Callers \ {c} : call'[d] = call[d]
    BY <1>0, <2>1, <2>3, CallSet
  <2>5. Instances' = Instances
    BY <2>1 DEF Instances
  <2>6. DaemonTypes'
    BY <1>0, <2>1, <2>4, <2>5 DEF DaemonTypes
  <2>7. Leased'
    BY <1>0, <2>1, <2>2, <2>5 DEF Leased, Living
  <2>8. Reported'
    BY <1>0, <2>1, <2>5, InstanceNumbers DEF Reported, Done
  <2>9. Managed'
    BY <1>0, <2>1, <2>2, <2>5 DEF Managed, Done
  <2>10. ASSUME NEW d \in Callers PROVE Place(d)'
    <3>1. CASE d = c
      BY <2>3, <2>4, <3>1 DEF Place, Critical
    <3>2. CASE d # c
      <4>1. call'[d] = call[d] /\ Place(d) /\ ~ Critical(d)
        BY <1>0, <2>2, <2>4, <3>2 DEF Place
      <4> QED BY <2>1, <2>5, <4>1 DEF Place, Critical
    <3> QED BY <3>1, <3>2
  <2>11. BusyIsForeign'
    <3>1. CASE lease = Other
      BY <1>0, <2>1, <3>1 DEF BusyIsForeign
    <3>2. CASE lease \in Instances
      <4>1. inst[lease].stage \in {"starting", "up", "ended"}
        BY <1>0, <2>1, <2>2, <3>2 DEF Leased, Living
      <4>2. inst[lease].answer = "error"
        BY <1>0, <2>1, <2>2, <3>2, <4>1 DEF Managed, Done
      <4>3. inst[lease].status = "failed"
        BY <1>0, <3>2, <4>2 DEF Reported
      <4> QED BY <1>0, <2>1, <4>2, <4>3 DEF BusyIsForeign
    <3> QED BY <1>0, <2>1, <3>1, <3>2 DEF DaemonTypes
  <2> QED BY <1>0, <2>1, <2>6, <2>7, <2>8, <2>9, <2>10, <2>11 DEF DaemonInv
<1>11. ASSUME NEW c \in Callers, BuildFails(c) PROVE DaemonInv'
  <2> DEFINE m == call[c].m
             q == [inst[m] EXCEPT !.stage = "done", !.canceled = TRUE]
  <2>1. /\ UNCHANGED <<refused, early>> /\ call[c].at = "build" /\ Set(c, Idle) /\ lock' = None
        /\ lease' = None /\ inst' = [inst EXCEPT ![m] = q] /\ entry' \in {entry, None}
    <3>1. inst' = [inst EXCEPT ![m].stage = "done", ![m].canceled = TRUE]
      BY <1>11 DEF BuildFails
    <3>2. m \in Instances /\ inst \in Seq(InstanceType)
      BY <1>0, <1>11 DEF BuildFails, At, Place, DaemonTypes
    <3>3. [inst EXCEPT ![m].stage = "done", ![m].canceled = TRUE] = [inst EXCEPT ![m] = q]
      BY <3>2 DEF Instances
    <3> QED BY <1>11, <3>1, <3>3 DEF BuildFails, At, Unlock, Return
  <2>2. m \in Instances /\ inst[m].stage = "leased" /\ lock = c /\ (entry # None => entry \in Instances /\ Done(entry))
    BY <1>0, <2>1 DEF Place, Critical, DaemonTypes
  <2>3. inst[m] \in InstanceType
    BY <1>0, <2>2, InstanceNumbers
  <2> HIDE DEF m
  <2>4. /\ q \in InstanceType /\ q.stage = "done" /\ q.status = inst[m].status /\ q.answer = inst[m].answer
    BY <2>3 DEF InstanceType
  <2> HIDE DEF q
  <2>5. /\ inst' \in Seq(InstanceType) /\ Instances' = Instances /\ inst'[m] = q
        /\ \A j \in Instances \ {m} : inst'[j] = inst[j]
    BY <1>0, <2>1, <2>2, <2>4, InstanceSet
  <2>6. Idle \in CallType /\ Idle.at = "idle"
    BY DEF Idle, CallType, None
  <2>7. /\ call' \in [Callers -> CallType] /\ call'[c] = Idle
        /\ \A d \in Callers \ {c} : call'[d] = call[d]
    BY <1>0, <2>1, <2>6, CallSet
  <2>8. DaemonTypes'
    BY <1>0, <2>1, <2>5, <2>7 DEF DaemonTypes
  <2>9. lease = m
    BY <1>0, <2>2 DEF Leased, Living
  <2>10. Leased'
    BY <1>0, <2>1, <2>2, <2>4, <2>5, <2>9, InstanceNumbers DEF Leased, Living
  <2>11. Reported'
    BY <1>0, <2>1, <2>2, <2>4, <2>5, InstanceNumbers DEF Reported, Done
  <2>12. Managed'
    BY <1>0, <2>1, <2>2, <2>4, <2>5 DEF Managed, Done
  <2>13. ASSUME NEW d \in Callers PROVE Place(d)'
    <3>1. CASE d = c
      BY <2>6, <2>7, <3>1 DEF Place, Critical
    <3>2. CASE d # c
      <4>1. call'[d] = call[d] /\ Place(d) /\ ~ Critical(d)
        BY <1>0, <2>2, <2>7, <3>2 DEF Place
      <4> QED BY <2>1, <2>5, <4>1 DEF Place, Critical
    <3> QED BY <3>1, <3>2
  <2>14. BusyIsForeign'
    BY <1>0, <2>1, <2>4, <2>5 DEF BusyIsForeign, DaemonTypes
  <2> QED BY <1>0, <2>1, <2>8, <2>10, <2>11, <2>12, <2>13, <2>14 DEF DaemonInv
<1>12. ASSUME NEW c \in Callers, Built(c) PROVE DaemonInv'
  <2> DEFINE m == call[c].m
             job == inst[m].job
             q == [inst[m] EXCEPT !.stage = IF job THEN "starting" ELSE "up"]
             r == IF job THEN [call[c] EXCEPT !.at = "await"] ELSE Idle
  <2>1. /\ UNCHANGED <<lease, refused, early>> /\ call[c].at = "build"
        /\ job => inst' = [inst EXCEPT ![m].stage = "starting"] /\ Set(c, [call[c] EXCEPT !.at = "await"])
        /\ ~ job => inst' = [inst EXCEPT ![m].stage = "up"] /\ Set(c, Idle)
    BY <1>12 DEF Built, At, Unlock, Return, Move
  <2>2. /\ inst' = [inst EXCEPT ![m] = q] /\ Set(c, r)
        /\ job => UNCHANGED <<entry, lock>>
        /\ ~ job => entry' = m /\ lock' = None
    <3>1. CASE job
      BY <1>12, <2>1, <3>1 DEF Built
    <3>2. CASE ~ job
      BY <1>12, <2>1, <3>2 DEF Built, Unlock
    <3> QED BY <3>1, <3>2
  <2>3. m \in Instances /\ inst[m].stage = "leased" /\ lock = c /\ (entry # None => entry \in Instances /\ Done(entry))
    BY <1>0, <2>1 DEF Place, Critical, DaemonTypes
  <2>4. inst[m] \in InstanceType /\ inst[m].answer = "none" /\ inst[m].status = "running" /\ m # None
    BY <1>0, <2>3, InstanceNumbers DEF Reported
  <2>5. /\ r \in CallType /\ (job => r.at = "await" /\ r.m = m /\ r.op = call[c].op) /\ (~ job => r.at = "idle")
    BY <1>0 DEF CallType, Idle, None
  <2> HIDE DEF m, job, r
  <2>6. /\ q \in InstanceType /\ q.status = "running" /\ q.answer = "none"
        /\ job => q.stage = "starting"
        /\ ~ job => q.stage = "up"
    BY <2>4 DEF InstanceType
  <2> HIDE DEF q
  <2>7. /\ inst' \in Seq(InstanceType) /\ Instances' = Instances /\ inst'[m] = q
        /\ \A j \in Instances \ {m} : inst'[j] = inst[j]
    BY <1>0, <2>2, <2>3, <2>6, InstanceSet
  <2>8. /\ call' \in [Callers -> CallType] /\ call'[c] = r
        /\ \A d \in Callers \ {c} : call'[d] = call[d]
    BY <1>0, <2>2, <2>5, CallSet
  <2>9. DaemonTypes'
    BY <1>0, <2>1, <2>2, <2>3, <2>7, <2>8 DEF DaemonTypes
  <2>10. Leased'
    <3>1. \A i \in Instances \ {m} : inst[i].stage # "leased"
      BY <1>0, <2>3 DEF Leased, Living
    <3> QED BY <1>0, <2>1, <2>3, <2>6, <2>7, <3>1 DEF Leased, Living
  <2>11. entry # m
    BY <2>3, <2>4 DEF Done
  <2>12. Reported'
    BY <1>0, <2>2, <2>3, <2>6, <2>7, <2>11 DEF Reported, Done
  <2>13. Managed'
    <3> SUFFICES ASSUME NEW i \in Instances, inst'[i].stage \in {"starting", "up", "ended"}
                 PROVE \/ entry' = i
                       \/ lock' \in Callers /\ call'[lock'].at = "await" /\ call'[lock'].m = i
                       \/ inst'[i].answer = "error"
      BY <2>7 DEF Managed
    <3>1. CASE i = m
      BY <2>2, <2>3, <2>5, <2>8, <3>1
    <3>2. CASE i # m
      <4>1. inst'[i] = inst[i] /\ entry # i
        BY <1>0, <2>3, <2>7, <3>2, InstanceNumbers DEF Done
      <4>2. inst[i].answer = "error"
        BY <1>0, <2>1, <2>3, <4>1 DEF Managed
      <4> QED BY <4>1, <4>2
    <3> QED BY <3>1, <3>2
  <2>14. ASSUME NEW d \in Callers PROVE Place(d)'
    <3>1. CASE d = c /\ job
      <4>1. r.op # "Stop"
        BY <1>0, <2>1, <2>5, <3>1 DEF Place
      <4> QED BY <2>2, <2>3, <2>5, <2>6, <2>7, <2>8, <2>11, <3>1, <4>1 DEF Place, Critical, Done
    <3>2. CASE d = c /\ ~ job
      BY <2>5, <2>8, <3>2 DEF Place, Critical
    <3>3. CASE d # c
      <4>1. call'[d] = call[d] /\ Place(d) /\ ~ Critical(d)
        BY <1>0, <2>3, <2>8, <3>3 DEF Place
      <4> QED BY <2>1, <2>7, <4>1 DEF Place, Critical
    <3> QED BY <3>1, <3>2, <3>3
  <2>15. BusyIsForeign'
    BY <1>0, <2>1, <2>4, <2>6, <2>7 DEF BusyIsForeign, DaemonTypes
  <2> QED BY <1>0, <2>1, <2>9, <2>10, <2>12, <2>13, <2>14, <2>15 DEF DaemonInv
<1>13. ASSUME NEW c \in Callers, Started(c) PROVE DaemonInv'
  <2> DEFINE m == call[c].m
  <2>1. /\ UNCHANGED <<inst, lease, refused, early>> /\ call[c].at = "await" /\ Set(c, Idle) /\ lock' = None
        /\ inst[m].answer # "none"
        /\ inst[m].answer = "ok" => entry' = m
        /\ inst[m].answer # "ok" => entry' \in {entry, None}
    BY <1>13 DEF Started, At, Unlock, Return
  <2>2. m \in Instances /\ lock = c /\ (entry # None => entry \in Instances /\ Done(entry))
    BY <1>0, <2>1 DEF Place, Critical, DaemonTypes
  <2>3. inst[m] \in InstanceType
    BY <1>0, <2>2, InstanceNumbers
  <2> HIDE DEF m
  <2>4. inst[m].answer \in {"ok", "error"}
    BY <2>1, <2>3 DEF InstanceType
  <2>5. Idle \in CallType /\ Idle.at = "idle"
    BY DEF Idle, CallType, None
  <2>6. /\ call' \in [Callers -> CallType] /\ call'[c] = Idle
        /\ \A d \in Callers \ {c} : call'[d] = call[d]
    BY <1>0, <2>1, <2>5, CallSet
  <2>7. Instances' = Instances /\ entry' \in {entry, None, m}
    BY <2>1 DEF Instances
  <2>8. DaemonTypes'
    BY <1>0, <2>1, <2>2, <2>6, <2>7 DEF DaemonTypes
  <2>9. Leased'
    BY <1>0, <2>1, <2>2, <2>7 DEF Leased, Living
  <2>10. Reported'
    <3>1. inst[m].stage \notin {"leased", "starting"}
      BY <1>0, <2>1, <2>2 DEF Reported
    <3> QED BY <1>0, <2>1, <2>2, <2>7, <3>1, InstanceNumbers DEF Reported, Done
  <2>11. Managed'
    <3> SUFFICES ASSUME NEW i \in Instances, inst[i].stage \in {"starting", "up", "ended"}
                 PROVE entry' = i \/ inst[i].answer = "error"
      BY <2>1, <2>7 DEF Managed
    <3>1. entry # i
      BY <1>0, <2>2, InstanceNumbers DEF Done
    <3>2. CASE i = m
      BY <2>1, <2>4, <3>2
    <3>3. CASE i # m
      BY <1>0, <2>2, <3>1, <3>3 DEF Managed, m
    <3> QED BY <3>2, <3>3
  <2>12. ASSUME NEW d \in Callers PROVE Place(d)'
    <3>1. CASE d = c
      BY <2>5, <2>6, <3>1 DEF Place, Critical
    <3>2. CASE d # c
      <4>1. call'[d] = call[d] /\ Place(d) /\ ~ Critical(d)
        BY <1>0, <2>2, <2>6, <3>2 DEF Place
      <4> QED BY <2>1, <2>7, <4>1 DEF Place, Critical
    <3> QED BY <3>1, <3>2
  <2>13. BusyIsForeign'
    BY <1>0, <2>1 DEF BusyIsForeign
  <2> QED BY <1>0, <2>1, <2>8, <2>9, <2>10, <2>11, <2>12, <2>13 DEF DaemonInv
<1>14. ASSUME NEW i \in Instances, NEW q \in InstanceType, inst' = [inst EXCEPT ![i] = q],
              UNCHANGED <<lock, entry, call, refused, early>>,
              lease' = IF q.stage \in {"released", "done"} /\ lease = i THEN None ELSE lease,
              inst[i].stage \in {"starting", "up", "ended", "released"},
              \/ inst[i].stage = "released" /\ q.stage = "done"
              \/ inst[i].stage = "ended" /\ q.stage = "released"
              \/ inst[i].stage \in {"starting", "up"} /\ q.stage \in {"up", "ended"},
              q.status # inst[i].status => q.status \in {"failed", "completed"} /\ q.stage = "ended" /\ inst[i].status = "running",
              q.answer # inst[i].answer => inst[i].stage = "starting" /\ (q.answer = "error" => q.status = "failed")
       PROVE  DaemonInv'
  <2>1. /\ inst' \in Seq(InstanceType) /\ Instances' = Instances /\ inst'[i] = q
        /\ \A j \in Instances \ {i} : inst'[j] = inst[j]
    BY <1>0, <1>14, InstanceSet
  <2>2. i # None /\ i # Other /\ inst[i] \in InstanceType
    BY <1>0, InstanceNumbers
  <2>3. lease = i <=> inst[i].stage # "released"
    BY <1>0, <1>14 DEF Leased, Living
  <2>4. DaemonTypes'
    BY <1>0, <1>14, <2>1 DEF DaemonTypes
  <2>5. Leased'
    <3>1. lease' = i <=> q.stage \in {"up", "ended"}
      BY <1>14, <2>2, <2>3
    <3>2. \A j \in Instances \ {i} : lease' = j <=> lease = j
      BY <1>0, <1>14, <2>2, InstanceNumbers
    <3> QED BY <1>0, <1>14, <2>1, <3>1, <3>2 DEF Leased, Living
  <2>6. Reported'
    <3>1. /\ q.status # "running" => q.stage \in {"ended", "released", "done"}
          /\ q.status \in {"paused", "drained"} => q.stage = "done"
          /\ q.answer = "error" => q.status = "failed"
      BY <1>0, <1>14 DEF Reported, Done
    <3> QED BY <1>0, <1>14, <2>1, <3>1 DEF Reported, Done
  <2>7. Managed'
    <3>1. inst[i].answer = "error" => q.answer = "error"
      BY <1>0, <1>14 DEF Reported
    <3> QED BY <1>0, <1>14, <2>1, <3>1 DEF Managed
  <2>8. ASSUME NEW d \in Callers PROVE Place(d)'
    <3>1. Place(d) /\ call'[d] = call[d] /\ entry \in Instances \cup {None}
      BY <1>0, <1>14 DEF DaemonTypes
    <3>2. \A j \in Instances : (Done(j) => Done(j)') /\ (inst'[j].stage = "leased" <=> inst[j].stage = "leased")
      BY <1>14, <2>1 DEF Done
    <3> QED BY <1>14, <2>1, <3>1, <3>2 DEF Place, Critical, Done
  <2>9. BusyIsForeign'
    <3>1. inst[i].status = "failed" /\ inst[i].answer = "error" => q.status = "failed" /\ q.answer = "error"
      BY <1>0, <1>14 DEF Reported
    <3> QED BY <1>0, <1>14, <2>1, <3>1 DEF BusyIsForeign, DaemonTypes
  <2> QED BY <1>0, <1>14, <2>4, <2>5, <2>6, <2>7, <2>8, <2>9 DEF DaemonInv
<1>15. ASSUME NEW i \in Instances, StartFails(i) \/ StartOk(i) PROVE DaemonInv'
  <2>1. inst[i] \in InstanceType /\ inst[i].stage = "starting" /\ inst[i].status = "running"
    BY <1>0, <1>15, InstanceNumbers DEF StartFails, StartOk, InstStep, Reported
  <2>2. CASE StartFails(i)
    <3> DEFINE q == [inst[i] EXCEPT !.stage = "ended", !.status = "failed", !.answer = "error"]
    <3>1. q \in InstanceType /\ q.stage = "ended" /\ q.status = "failed" /\ q.answer = "error"
      BY <2>1 DEF InstanceType
    <3>2. inst' = [inst EXCEPT ![i] = q] /\ UNCHANGED <<lock, entry, call, refused, early, lease>>
      BY <2>2 DEF StartFails, InstStep
    <3> HIDE DEF q
    <3> QED BY <1>14, <2>1, <3>1, <3>2
  <2>3. CASE StartOk(i)
    <3> DEFINE q == [inst[i] EXCEPT !.stage = "up", !.answer = "ok"]
    <3>1. q \in InstanceType /\ q.stage = "up" /\ q.status = inst[i].status /\ q.answer = "ok"
      BY <2>1 DEF InstanceType
    <3>2. inst' = [inst EXCEPT ![i] = q] /\ UNCHANGED <<lock, entry, call, refused, early, lease>>
      BY <2>3 DEF StartOk, InstStep
    <3> HIDE DEF q
    <3> QED BY <1>14, <2>1, <3>1, <3>2
  <2> QED BY <1>15, <2>2, <2>3
<1>16. ASSUME NEW i \in Instances, NEW how \in {"completed", "failed"}, EndsItself(i, how) PROVE DaemonInv'
  <2> DEFINE q == [inst[i] EXCEPT !.stage = "ended", !.status = advance(@, how)]
  <2>1. inst[i] \in InstanceType /\ inst[i].stage = "up" /\ inst[i].status = "running"
    BY <1>0, <1>16, InstanceNumbers DEF EndsItself, InstStep, Reported
  <2>2. q \in InstanceType /\ q.stage = "ended" /\ q.status = how /\ q.answer = inst[i].answer
    BY <2>1 DEF InstanceType, advance
  <2>3. inst' = [inst EXCEPT ![i] = q] /\ UNCHANGED <<lock, entry, call, refused, early, lease>>
    BY <1>16 DEF EndsItself, InstStep
  <2> HIDE DEF q
  <2> QED BY <1>14, <2>1, <2>2, <2>3
<1>17. ASSUME NEW i \in Instances, NEW to, NEW was, inst[i].stage = was,
              inst' = [inst EXCEPT ![i] = [inst[i] EXCEPT !.stage = to]],
              UNCHANGED <<lock, entry, call, refused, early>>,
              lease' = IF to = "released" /\ lease = i THEN None ELSE lease,
              <<was, to>> \in {<<"up", "ended">>, <<"ended", "released">>, <<"released", "done">>}
       PROVE  DaemonInv'
  <2> DEFINE q == [inst[i] EXCEPT !.stage = to]
  <2>1. inst[i] \in InstanceType
    BY <1>0, InstanceNumbers
  <2>2. q \in InstanceType /\ q.stage = to /\ q.status = inst[i].status /\ q.answer = inst[i].answer
    BY <1>17, <2>1 DEF InstanceType
  <2>3. inst' = [inst EXCEPT ![i] = q]
    BY <1>17
  <2> HIDE DEF q
  <2>4. was = "released" => lease # i
    BY <1>0, <1>17 DEF Leased, Living
  <2>5. lease' = IF q.stage \in {"released", "done"} /\ lease = i THEN None ELSE lease
    BY <1>17, <2>2, <2>4
  <2> QED BY <1>14, <1>17, <2>2, <2>3, <2>5
<1>18. ASSUME NEW i \in Instances, EndsCanceled(i) \/ releaseLease(i) \/ CloseDone(i) PROVE DaemonInv'
  <2>1. CASE EndsCanceled(i)
    BY <1>17, <2>1 DEF EndsCanceled, InstStep
  <2>2. CASE releaseLease(i)
    BY <1>17, <2>2 DEF releaseLease, InstStep
  <2>3. CASE CloseDone(i)
    BY <1>17, <2>3 DEF CloseDone, InstStep
  <2> QED BY <1>18, <2>1, <2>2, <2>3
<1>19. ASSUME UNCHANGED <<lock, entry, inst, call, refused>>, early' = FALSE,
              lease' = lease \/ (lease \in {None, Other} /\ lease' \in {None, Other})
       PROVE  DaemonInv'
  <2>1. Instances' = Instances
    BY <1>19 DEF Instances
  <2>2. DaemonTypes'
    BY <1>0, <1>19, <2>1 DEF DaemonTypes
  <2>3. Leased'
    BY <1>0, <1>19, <2>1, InstanceNumbers DEF Leased, Living
  <2>4. Reported' /\ Managed' /\ BusyIsForeign'
    BY <1>0, <1>19, <2>1 DEF Reported, Managed, Done, BusyIsForeign
  <2>5. \A c \in Callers : Place(c)'
    BY <1>0, <1>19, <2>1 DEF Place, Critical, Done
  <2> QED BY <1>19, <2>2, <2>3, <2>4, <2>5 DEF DaemonInv
<1>20. ASSUME Trigger PROVE DaemonInv'
  <2>1. entry \in Instances
    BY <1>0, <1>20 DEF Trigger, DaemonTypes
  <2>2. early' = FALSE
    BY <1>0, <1>20, <2>1 DEF Trigger, Reported
  <2> QED BY <1>19, <1>20, <2>2 DEF Trigger
<1>21. ASSUME OtherProcess PROVE DaemonInv'
  BY <1>0, <1>19, <1>21 DEF OtherProcess
<1>22. ASSUME NEW c \in Callers, NEW v \in Versions, reloadDir(c, v), file = v PROVE DaemonInv'
  BY <1>0, <1>19, <1>22 DEF reloadDir
<1>23. ASSUME UNCHANGED daemonVars PROVE DaemonInv'
  BY <1>0, <1>19, <1>23 DEF daemonVars
<1>24. ASSUME NEW c \in Callers, CallerStep(c) PROVE DaemonInv'
  BY <1>4, <1>5, <1>6, <1>7, <1>8, <1>9, <1>10, <1>11, <1>12, <1>13, <1>24, Zenon DEF CallerStep
<1>25. ASSUME NEW i \in Instances, InstanceStep(i) PROVE DaemonInv'
  BY <1>15, <1>18, <1>25, Zenon DEF InstanceStep
<1> QED
  BY <1>1, <1>2, <1>3, <1>16, <1>20, <1>21, <1>22, <1>23, <1>24, <1>25, Zenon DEF DaemonNext

\* For every number of callers, calls and configurations, and whatever another process
\* does: what executes holds the lease and is managed, a job manager is not triggered
\* before it has recovered, and no start meets the lease of an instance that a caller
\* saw stop (internal/ops, internal/store owner.go).
THEOREM InstancesSound == DaemonSpec => []OneInstance
<1>1. DaemonInv => OneInstance
  <2> SUFFICES ASSUME DaemonInv PROVE OneInstance
    OBVIOUS
  <2>1. SingleWriter
    BY DEF DaemonInv, SingleWriter, Leased, Living, Executing
  <2>2. NoStray
    <3> SUFFICES ASSUME NEW i \in Instances, Executing(i)
                 PROVE  entry = i \/ \E c \in Callers : call[c].m = i /\ At(c, "await")
      BY DEF NoStray
    <3>1. inst[i].answer # "error"
      BY DEF DaemonInv, Reported, Executing
    <3> QED BY <3>1 DEF DaemonInv, Managed, Executing, At
  <2> QED BY <2>1, <2>2 DEF DaemonInv, OneInstance, TriggerAfterRecovery
<1> QED BY <1>1, DaemonStart, DaemonStep, PTL DEF DaemonSpec

\* A pipeline that is reported as paused, drained, completed or failed does not
\* execute: the status changes after the instance has stopped (transition, advance).
THEOREM StatusSound == DaemonSpec => []QuietMeansStopped
<1>1. DaemonInv => QuietMeansStopped
  BY DEF DaemonInv, Reported, QuietMeansStopped, Executing
<1> QED BY <1>1, DaemonStart, DaemonStep, PTL DEF DaemonSpec

-----------------------------------------------------------------------------
(* The search for a missed tick.                                           *)

\* Min of FiniteSetsExt on a nonempty set of naturals.
LEMMA MinExists ==
  ASSUME NEW S \in SUBSET Nat, S # {}
  PROVE  Min(S) \in S /\ \A y \in S : Min(S) <= y
<1>1. PICK m \in S : \A k \in S : ~ (<<k, m>> \in OpToRel(<, Nat))
  BY WFMin, NatLessThanWellFounded
<1>2. \A k \in S : m <= k
  <2>1. \A k \in S : k \in Nat /\ m \in Nat
    OBVIOUS
  <2>2. \A k \in S : ~ (k < m)
    BY <1>1, <2>1 DEF OpToRel
  <2> QED BY <2>1, <2>2
<1>3. \E x \in S : \A y \in S : x <= y
  BY <1>2
<1> QED BY <1>3 DEF Min

\* A finite set of k elements has 2^k subsets, so a power of two doubles.
LEMMA PowerDoubles ==
  ASSUME NEW n \in Nat
  PROVE  2 ^ n \in Nat /\ 2 ^ (n + 1) = 2 * 2 ^ n
<1> DEFINE S == 1..n
<1> DEFINE A == SUBSET S
<1> DEFINE B == {X \cup {n + 1} : X \in A}
<1>1. IsFiniteSet(S) /\ Cardinality(S) = n
  BY FS_Interval
<1>2. n + 1 \in Nat /\ IsFiniteSet(1..(n + 1)) /\ Cardinality(1..(n + 1)) = n + 1
  BY FS_Interval
<1>3. IsFiniteSet(A) /\ Cardinality(A) = 2 ^ n
  BY <1>1, FS_SUBSET
<1>4. Cardinality(SUBSET (1..(n + 1))) = 2 ^ (n + 1)
  BY <1>2, FS_SUBSET
<1>5. n + 1 \notin S /\ 1..(n + 1) = S \cup {n + 1}
  OBVIOUS
<1>6. SUBSET (1..(n + 1)) = A \cup B
  <2>1. ASSUME NEW X \in SUBSET (1..(n + 1)) PROVE X \in A \cup B
    <3>1. CASE n + 1 \in X
      <4>1. X \ {n + 1} \in A /\ X = (X \ {n + 1}) \cup {n + 1}
        BY <1>5, <2>1, <3>1
      <4> QED BY <4>1
    <3>2. CASE n + 1 \notin X
      BY <1>5, <2>1, <3>2
    <3> QED BY <3>1, <3>2
  <2>2. ASSUME NEW X \in A \cup B PROVE X \in SUBSET (1..(n + 1))
    <3>1. CASE X \in A
      BY <1>5, <3>1
    <3>2. CASE X \in B
      <4>1. PICK Y \in A : X = Y \cup {n + 1}
        BY <3>2
      <4> QED BY <1>5, <4>1
    <3> QED BY <2>2, <3>1, <3>2
  <2> QED BY <2>1, <2>2
<1>7. A \cap B = {}
  BY <1>5
<1>8. ExistsBijection(A, B)
  <2> DEFINE f == [X \in A |-> X \cup {n + 1}]
  <2>1. f \in [A -> B]
    OBVIOUS
  <2>2. \A X, Y \in A : f[X] = f[Y] => X = Y
    <3> SUFFICES ASSUME NEW X \in A, NEW Y \in A, X \cup {n + 1} = Y \cup {n + 1} PROVE X = Y
      OBVIOUS
    <3>1. \A k : k \in X <=> k \in Y
      BY <1>5
    <3> QED BY <3>1
  <2>3. \A Z \in B : \E X \in A : f[X] = Z
    OBVIOUS
  <2> HIDE DEF f, A, B
  <2>4. f \in Bijection(A, B)
    BY <2>1, <2>2, <2>3 DEF Bijection, Injection, Surjection, IsInjective
  <2> QED BY <2>4 DEF ExistsBijection
<1> HIDE DEF A, B, S
<1>9. IsFiniteSet(B) /\ Cardinality(B) = Cardinality(A)
  BY <1>3, <1>8, FS_Bijection
<1>10. Cardinality(A) \in Nat /\ Cardinality(B) \in Nat
  BY <1>3, <1>9, FS_CardinalityType
<1>11. Cardinality(A \cup B) = Cardinality(A) + Cardinality(B)
  <2>1. Cardinality(A \cup B) = Cardinality(A) + Cardinality(B) - Cardinality(A \cap B)
    BY <1>3, <1>9, FS_Union
  <2>2. Cardinality({}) = 0
    BY FS_EmptySet
  <2>3. Cardinality(A \cap B) = 0
    BY <1>7, <2>2
  <2> QED BY <1>10, <2>1, <2>3
<1>12. PICK c \in Nat : c = Cardinality(A)
  BY <1>10
<1>13. 2 ^ n = c /\ 2 ^ (n + 1) = c + c
  BY <1>3, <1>4, <1>6, <1>9, <1>11, <1>12
<1>14. c + c = 2 * c
  OBVIOUS
<1> QED BY <1>13, <1>14

\* Two multiples of a second are a second apart.
LEMMA Multiples ==
  ASSUME NEW s \in Nat \ {0}, NEW a \in Nat, NEW b \in Nat, a % s = 0, b % s = 0, a < b
  PROVE  b - a >= s
<1>1. a = s * (a \div s) + (a % s)
  OBVIOUS
<1>2. b = s * (b \div s) + (b % s)
  OBVIOUS
<1>3. a \div s \in Int /\ b \div s \in Int
  OBVIOUS
<1>4. PICK p \in Int, q \in Int : a = s * p /\ b = s * q
  BY <1>1, <1>2, <1>3
<1>5. p < q
  BY <1>4
<1> QED BY <1>4, <1>5

\* The state of the bisection: a bracket of the newest missed tick.
CatchupTypes ==
  /\ ticks \subseteq Seconds
  /\ last \in Nat /\ now \in Nat /\ lo \in Nat /\ hi \in Nat /\ probes \in Nat
  /\ last <= lo /\ lo <= hi /\ hi <= now /\ now <= Horizon

\* Next steps over now inside the bracket.
Bracket ==
  /\ pc = "begin" => lo = last /\ hi = now
  /\ pc = "bisect" => Next_(lo) <= now /\ Next_(hi) > now

CatchupInv == CatchupTypes /\ Bracket /\ FiresNewestMissed /\ Halves

\* What the schedule of a cron expression answers.
LEMMA NextTick ==
  ASSUME Every = 0, CatchupTypes, NEW t \in Nat, t <= Horizon
  PROVE  /\ Next_(t) \in ticks \cup {Horizon + 1} /\ Next_(t) \in Nat /\ Next_(t) > t
         /\ \A k \in ticks : k \in Nat /\ k % Second = 0 /\ k <= Horizon /\ (k > t => Next_(t) <= k)
<1> DEFINE S == {k \in ticks : k > t} \union {Horizon + 1}
<1>1. \A k \in ticks : k \in Nat /\ k % Second = 0 /\ k <= Horizon
  BY CatchupAssumption DEF CatchupTypes, Seconds
<1>2. Horizon + 1 \in Nat /\ Horizon + 1 > t
  BY CatchupAssumption
<1>3. S \in SUBSET Nat /\ S # {}
  BY <1>1, <1>2
<1>4. Next_(t) = Min(S)
  BY DEF Next_
<1>5. Min(S) \in S /\ \A y \in S : Min(S) <= y
  <2> HIDE DEF S
  <2> QED BY <1>3, MinExists
<1> QED BY <1>1, <1>2, <1>4, <1>5

\* The invariant holds initially.
LEMMA CatchupFirst == Every = 0 /\ CatchupInit => CatchupInv
<1> SUFFICES ASSUME Every = 0, CatchupInit PROVE CatchupInv
  OBVIOUS
<1>1. last \in ticks /\ ticks \subseteq Seconds /\ now \in last..Horizon
  BY DEF CatchupInit
<1>2. last \in Nat /\ now \in Nat /\ last <= now /\ now <= Horizon
  BY <1>1, CatchupAssumption DEF Seconds
<1>3. CatchupTypes
  BY <1>1, <1>2 DEF CatchupInit, CatchupTypes
<1>4. Halves
  <2>1. 2 ^ 0 = 1
    OBVIOUS
  <2> QED BY <1>2, <2>1 DEF CatchupInit, Halves
<1> QED BY <1>3, <1>4 DEF CatchupInit, CatchupInv, Bracket, FiresNewestMissed

\* No probe loses the bracket, and each halves it.
LEMMA ProbeStep ==
  ASSUME Every = 0, CatchupInv, Probe
  PROVE  CatchupInv'
<1> USE DEF CatchupInv
<1>1. PICK mid : mid = lo + (hi - lo) \div 2
  OBVIOUS
<1>2. pc = "bisect" /\ hi - lo > Second /\ UNCHANGED <<ticks, last, now, pc>> /\ probes' = probes + 1
  BY DEF Probe, Wide
<1>3. lo \in Nat /\ hi \in Nat /\ lo <= hi /\ now \in Nat /\ last \in Nat /\ hi <= now /\ now <= Horizon /\ last <= lo /\ probes \in Nat
  BY DEF CatchupTypes
<1>4. mid \in Nat /\ lo <= mid /\ mid <= hi /\ 2 * (mid - lo) <= hi - lo /\ 2 * (hi - mid) <= hi - lo + 1
  BY <1>1, <1>3
<1>5. \/ Next_(mid) > now /\ hi' = mid /\ lo' = lo
      \/ ~ (Next_(mid) > now) /\ lo' = mid /\ hi' = hi
  BY <1>1 DEF Probe
<1>6. CatchupTypes'
  BY <1>2, <1>3, <1>4, <1>5 DEF CatchupTypes
<1>7. Bracket'
  <2>1. Next_(mid) \in Nat
    <3>1. mid <= Horizon
      BY <1>3, <1>4, CatchupAssumption
    <3> QED BY <1>4, <3>1, NextTick
  <2>2. Next_(lo) <= now /\ Next_(hi) > now
    BY <1>2 DEF Bracket
  <2>3. \/ Next_(lo') = Next_(lo) /\ Next_(hi') = Next_(mid) /\ Next_(mid) > now
        \/ Next_(lo') = Next_(mid) /\ Next_(hi') = Next_(hi) /\ Next_(mid) <= now
    BY <1>3, <1>5, <2>1
  <2>4. Next_(lo') <= now /\ Next_(hi') > now
    BY <2>2, <2>3
  <2>5. (Next_(lo))' <= now' /\ (Next_(hi))' > now'
    BY <1>2, <2>4 DEF Next_
  <2> QED BY <1>2, <2>5 DEF Bracket
<1>8. Halves'
  <2>1. PICK w \in Nat : w = 2 ^ probes
    BY <1>3, PowerDoubles
  <2>2. 2 ^ probes' = 2 * w
    BY <1>2, <1>3, <2>1, PowerDoubles
  <2>3. (hi - lo - 1) * w <= now - last
    BY <2>1 DEF Halves
  <2>4. PICK x \in Int, y \in Int : x = hi' - lo' - 1 /\ y = hi - lo - 1
    <3>1. hi' \in Nat /\ lo' \in Nat
      BY <1>6 DEF CatchupTypes
    <3>2. hi' - lo' - 1 \in Int /\ hi - lo - 1 \in Int
      BY <1>3, <3>1
    <3> QED BY <3>2
  <2>5. 2 * x <= y
    BY <1>3, <1>4, <1>5, <2>4
  <2>6. x * (2 * w) = (2 * x) * w /\ (2 * x) * w <= y * w
    BY <2>5
  <2>7. y * w <= now - last /\ now - last \in Int
    BY <1>3, <2>3, <2>4
  <2>8. x * (2 * w) <= now - last
    BY <2>6, <2>7
  <2> QED BY <1>2, <2>2, <2>4, <2>8 DEF Halves
<1>9. FiresNewestMissed'
  BY <1>2 DEF FiresNewestMissed
<1> QED BY <1>6, <1>7, <1>8, <1>9

\* Ticks are a second apart, so a narrow bracket holds one.
LEMMA BracketFinds ==
  ASSUME Every = 0, CatchupInv, pc = "bisect", ~ Wide
  PROVE  /\ Latest \in Missed /\ Latest \in Nat /\ last < Latest /\ Latest <= now
         /\ Latest = Max(Missed)
<1> USE DEF CatchupInv
<1>1. lo \in Nat /\ hi \in Nat /\ now \in Nat /\ last \in Nat /\ lo <= Horizon /\ hi <= Horizon /\ hi <= now /\ now <= Horizon /\ last <= lo /\ lo <= hi
  BY CatchupAssumption DEF CatchupTypes
<1>2. Next_(lo) <= now /\ Next_(hi) > now /\ hi - lo <= Second /\ Second \in Nat \ {0} /\ Horizon \in Nat
  BY <1>1, CatchupAssumption DEF Bracket, Wide
<1>3. PICK k \in Nat : k = Next_(lo) /\ k \in ticks /\ k > lo /\ k <= now
  BY <1>1, <1>2, NextTick
<1>4. \A j \in ticks : j \in Nat /\ j % Second = 0 /\ (j > hi => j > now)
  BY <1>1, <1>2, NextTick
<1>5. \A j \in ticks : j <= now => j <= k
  <2> SUFFICES ASSUME NEW j \in ticks, j <= now, j > k PROVE FALSE
    BY <1>3, <1>4
  <2>1. j \in Nat /\ k \in Nat /\ j % Second = 0 /\ k % Second = 0 /\ j <= hi
    BY <1>1, <1>3, <1>4
  <2>2. j - k >= Second
    BY <1>2, <2>1, Multiples
  <2> QED BY <1>1, <1>2, <1>3, <2>1, <2>2
<1>6. Missed = {j \in ticks : last < j /\ j <= now}
  BY DEF Missed
<1>7. k \in Missed /\ \A j \in Missed : j \in Nat /\ j <= k
  BY <1>1, <1>3, <1>4, <1>5, <1>6
<1>8. \E x \in Missed : \A y \in Missed : x >= y
  BY <1>7
<1>9. Max(Missed) \in Missed /\ \A y \in Missed : Max(Missed) >= y
  BY <1>8 DEF Max
<1>10. Max(Missed) = k
  <2>1. PICK m : m = Max(Missed)
    OBVIOUS
  <2>2. m \in Nat /\ m <= k /\ m >= k
    BY <1>7, <1>9, <2>1
  <2> QED BY <2>1, <2>2
<1> QED BY <1>1, <1>3, <1>7, <1>10 DEF Latest

\* Every step preserves the invariant.
LEMMA CatchupStep == Every = 0 /\ CatchupInv /\ [CatchupNext]_catchupVars => CatchupInv'
<1> SUFFICES ASSUME Every = 0, CatchupInv, [CatchupNext]_catchupVars PROVE CatchupInv'
  OBVIOUS
<1> USE DEF CatchupInv
<1>1. CASE maybeCatchup
  <2>1. pc = "begin" /\ UNCHANGED <<ticks, last, now, lo, hi, probes>> /\ lo = last /\ hi = now
        /\ pc' = (IF Next_(last) > now THEN "idle" ELSE "bisect")
    BY <1>1 DEF maybeCatchup, Bracket
  <2>2. now \in Nat /\ now <= Horizon /\ last \in Nat /\ last <= Horizon
    BY CatchupAssumption DEF CatchupTypes
  <2>3. Next_(now) > now /\ Next_(last) \in Nat
    BY <2>2, NextTick
  <2>4. CatchupTypes' /\ Halves'
    BY <2>1 DEF CatchupTypes, Halves
  <2>5. Bracket'
    BY <2>1, <2>2, <2>3 DEF Bracket, Next_
  <2>6. Next_(last) > now => Missed = {}
    <3> SUFFICES ASSUME Next_(last) > now, NEW j \in ticks, last < j, j <= now PROVE FALSE
      BY DEF Missed
    <3>1. j \in Nat /\ Next_(last) <= j
      BY <2>2, NextTick
    <3> QED BY <2>2, <2>3, <3>1
  <2>7. Missed' = Missed
    BY <2>1 DEF Missed
  <2>8. FiresNewestMissed'
    BY <2>1, <2>6, <2>7 DEF FiresNewestMissed
  <2> QED BY <2>4, <2>5, <2>8
<1>2. CASE Probe
  BY <1>2, ProbeStep
<1>3. CASE Decide
  <2>1. pc = "bisect" /\ ~ Wide /\ UNCHANGED <<ticks, last, now, lo, hi, probes>>
        /\ pc' = (IF Latest <= last \/ Latest > now \/ now - Latest > Window THEN "idle" ELSE "fire")
    BY <1>3 DEF Decide
  <2>2. Latest \in Missed /\ Latest \in Nat /\ last < Latest /\ Latest <= now /\ Latest = Max(Missed)
    BY <2>1, BracketFinds
  <2>3. now \in Nat /\ last \in Nat /\ Window \in Nat
    BY CatchupAssumption DEF CatchupTypes
  <2>4. CatchupTypes' /\ Halves' /\ Bracket'
    BY <2>1 DEF CatchupTypes, Halves, Bracket
  <2>5. Missed' = Missed /\ Latest' = Latest /\ now' = now
    BY <2>1 DEF Missed, Latest, Next_
  <2>6. (pc' = "idle" /\ now - Latest > Window) \/ (pc' = "fire" /\ now - Latest <= Window)
    BY <2>1, <2>2, <2>3
  <2>7. FiresNewestMissed'
    BY <2>2, <2>5, <2>6 DEF FiresNewestMissed
  <2> QED BY <2>4, <2>7
<1>4. CASE UNCHANGED catchupVars
  BY <1>4 DEF catchupVars, CatchupTypes, Bracket, FiresNewestMissed, Halves, Missed, Latest, Next_
<1> QED BY <1>1, <1>2, <1>3, <1>4 DEF CatchupNext

\* For every cron expression, every outage and every window: the bisection of a
\* restart ends in the newest missed tick and fires it exactly when it is inside the
\* window, and every probe halves what is left.
THEOREM CatchupFindsTick ==
  ASSUME Every = 0
  PROVE  CatchupSpec => []CatchupSound
<1>1. CatchupInit => CatchupInv
  BY CatchupFirst
<1>2. CatchupInv /\ [CatchupNext]_catchupVars => CatchupInv'
  BY CatchupStep
<1>3. CatchupInv => CatchupSound
  BY DEF CatchupInv, CatchupSound
<1> QED BY <1>1, <1>2, <1>3, PTL DEF CatchupSpec

=============================================================================
