-------------------------- MODULE FileSourceProofs --------------------------
(***************************************************************************)
(* The positions of a file source never pass a line that was not emitted,  *)
(* a batch that is over was read, and a file is forgotten only after it    *)
(* was, proved for every configuration of FileAssumption and every number  *)
(* of files, lines, scans, faults and restarts.                            *)
(***************************************************************************)
EXTENDS FileSource, FiniteSetTheorems, SequenceTheorems, WellFoundedInduction, TLAPS

Phases == {"down", "idle", "discover", "drain", "read", "reap", "polled", "ended", "done"}
LineRecord == [n : Nat, k : {"msg", "cont", "drop"}]
EntryRecord ==
  [path : Paths, open : BOOLEAN, offset : Nat, committed : Nat, partial : {0, 1}, size : Nat,
   stamp : Nat, removed : BOOLEAN, reopen : BOOLEAN, tail : Seq(Nat), group : SUBSET Nat,
   lines : Nat, end : Nat]
DiskRecord ==
  [at : [Paths -> Inodes \cup {None}], data : [Inodes -> Seq(LineRecord)],
   half : [Inodes -> BOOLEAN], stamp : [Inodes -> Nat], old : SUBSET Inodes,
   next : Nat, clock : Nat]
Emission == [seq : Nat, id : Inodes, end : Nat]
SrcRecord ==
  [phase : Phases, first : BOOLEAN, em : BOOLEAN, todo : Seq(Inodes \cup Paths),
   seen : SUBSET Inodes, failed : SUBSET Paths, reads : SUBSET Inodes,
   files : [Inodes -> EntryRecord], tracked : SUBSET Inodes,
   byPath : [Paths -> Inodes \cup {None}], ignored : SUBSET Inodes,
   carry : [Inodes -> Nat], legacy : Nat, pending : SUBSET Emission,
   nextSeq : Nat, last : Nat]
LeftRecord == [writes : Nat, rotations : Nat, truncations : Nat, faults : Nat, restarts : Nat]

\* The types.  A line is a number and what feedLineLocked makes of it.
FileTypes ==
  /\ conf \in FileSetups /\ disk \in DiskRecord /\ src \in SrcRecord
  /\ durable \in [files : [Inodes -> Nat], legacy : Nat]
  /\ doc = <<>> \/ (\E f \in [Inodes -> Nat] : doc = <<f>>)
  /\ emitted \subseteq Nat /\ accepted \in Nat /\ rewritten \subseteq Inodes
  /\ left \in LeftRecord

\* The parts of the invariant that are about the memory s of the source are stated for
\* any s: a step that emits builds s first, and em is then what was emitted with it.
InTodo(s, i) == \E k \in 1..Len(s.todo) : s.todo[k] = i

\* What a scan goes through.
Listed(s) ==
  /\ s.phase = "discover" => s.todo \in Seq(Paths)
  /\ s.phase \in {"drain", "read"} => s.todo \in Seq(s.tracked)
  /\ s.phase = "reap" => s.todo \in Seq(Inodes)
  /\ s.phase = "read" => s.todo # <<>> /\ s.files[Head(s.todo)].open

\* Every line up to v is settled.
Covered(i, v) == v <= Size(i) /\ \A k \in 1..v : Settled(disk.data[i][k])

\* The offsets a file can be resumed from: in the store, on the way to it, and in the
\* memory of the source.
Stored ==
  conf.start = "beginning" =>
    \A i \in Inodes \ rewritten :
      /\ Covered(i, durable.files[i])
      /\ doc # <<>> => Covered(i, doc[1][i])
Resumable(s) ==
  conf.start = "beginning" =>
    \A i \in Inodes \ rewritten : Covered(i, s.carry[i]) /\ Covered(i, s.files[i].committed)
Acknowledged ==
  conf.start = "beginning" =>
    \A q \in src.pending : q.seq <= accepted /\ q.id \notin rewritten => Covered(q.id, q.end)

\* The offset of a version 1 document.
Legacy ==
  /\ src.legacy \in {0, conf.legacy} /\ durable.legacy \in {0, conf.legacy}
  /\ left.rotations <= conf.may.rotations /\ left.truncations <= conf.may.truncations
  /\ conf.may.rotations = 0 =>
       disk.at = [p \in Paths |-> IF p = "log" THEN Min(Inodes) ELSE None]
  /\ Min(Inodes) \notin rewritten => Covered(Min(Inodes), conf.legacy)

\* What a scan has passed is settled or waits in the group of its file.
PassedBy(i, f, em) ==
  /\ f.offset <= Size(i)
  /\ \A k \in 1..f.offset :
       disk.data[i][k].n \in em \/ disk.data[i][k].k = "drop" \/ disk.data[i][k].n \in f.group
Passed(s, em) ==
  conf.start = "beginning" => \A i \in Inodes \ rewritten : PassedBy(i, s.files[i], em)

\* A group ends before the read position, and only an open file has one.
GroupOf(f) ==
  /\ f.end <= f.offset
  /\ ~ f.open \/ ~ conf.multi => f.group = {}
Grouped(s) == \A i \in Inodes : GroupOf(s.files[i])

\* A file that was drained was read to its last line, which may be unterminated.
LookedAt(i, f, drained) ==
  /\ f.size <= Size(i)
  /\ f.partial = 1 => f.offset < Size(i)
  /\ ~ f.open /\ ~ f.reopen => f.size <= f.offset + 1
  /\ f.open /\ drained => f.size <= f.offset + 1
IsDrained(s, i) == s.phase = "reap" \/ (s.phase \in {"drain", "read"} /\ ~ InTodo(s, i))
Looked(s) == \A i \in Inodes \ rewritten : LookedAt(i, s.files[i], IsDrained(s, i))

\* What a file that is not tracked leaves behind, and what the scan in progress has
\* seen: a file that was seen is not one the scan will forget.
Known(s) ==
  /\ s.phase = "down" => s.tracked = {}
  /\ \A i \in Inodes \ s.tracked : s.files[i] = NoEntry
  /\ s.seen \subseteq s.tracked
  /\ \A i \in s.seen :
       \/ s.phase \in {"drain", "read"} /\ InTodo(s, i) /\ (s.phase = "read" => i # Head(s.todo))
       \/ s.phase \notin {"drain", "read", "reap"}
       \/ ~ s.files[i].removed

\* The one file of a batch.
InScan == {"discover", "drain", "read", "reap", "polled"}
Batched(s) ==
  /\ s.phase = "done" => conf.eof = "stop"
  /\ conf.eof = "stop" =>
       /\ s.tracked \subseteq {Min(Inodes)}
       /\ \A i \in s.tracked : s.files[i].size = Size(i)
       /\ s.phase \in InScan /\ "log" \in conf.glob =>
            \/ "log" \in s.failed \/ Min(Inodes) \in s.seen
            \/ s.phase = "discover" /\ InTodo(s, "log")
Flushed(s) ==
  conf.eof = "stop" =>
    \A j \in Inodes : s.files[j].group = {} \/ (s.phase = "read" /\ j = Head(s.todo))

\* The emissions are numbered without a gap; a refusal is the last one.
Numbered ==
  /\ accepted <= src.nextSeq
  /\ src.phase # "ended" => accepted = src.nextSeq
  /\ \A q \in src.pending : q.seq <= src.nextSeq
  /\ \E b \in Nat : \A q \in src.pending : q.end <= b

\* After a refusal Run has returned: what its last scan had passed does not matter, the
\* next run resumes from the store.
FileInv ==
  /\ FileTypes /\ Listed(src) /\ Stored /\ Resumable(src) /\ Acknowledged /\ Legacy
  /\ Grouped(src) /\ Known(src) /\ Batched(src) /\ Numbered
  /\ conf.eof = "stop" => rewritten = {}
  /\ src.phase # "ended" => Passed(src, emitted) /\ Looked(src) /\ Flushed(src)
  /\ ExhaustedMeansRead

\* What a step of a scan has to show of the memory s it leaves behind.
Scanned(s, em) ==
  /\ s \in SrcRecord /\ s.phase \notin {"done", "down"}
  /\ s.legacy \in {0, src.legacy} /\ s.nextSeq = src.nextSeq /\ s.pending = src.pending
  /\ Listed(s) /\ Resumable(s) /\ Grouped(s) /\ Known(s) /\ Batched(s)
  /\ Passed(s, em) /\ Looked(s) /\ Flushed(s)
-----------------------------------------------------------------------------
\* Max of FiniteSetsExt on a nonempty bounded set of naturals.
LEMMA MaxItem ==
  ASSUME NEW S \in SUBSET Nat, S # {}, NEW b \in Nat, \A y \in S : y <= b
  PROVE  Max(S) \in S /\ \A y \in S : y <= Max(S)
<1> DEFINE U == {k \in Nat : \A y \in S : y <= k}
<1>1. U # {} /\ U \subseteq Nat
  OBVIOUS
<1>2. PICK m \in U : \A k \in U : ~ (<<k, m>> \in OpToRel(<, Nat))
  <2> HIDE DEF U
  <2> QED BY <1>1, WFMin, NatLessThanWellFounded
<1>3. \A k \in U : ~ (k < m)
  BY <1>2 DEF OpToRel
<1>4. m \in S
  <2> SUFFICES ASSUME m \notin S PROVE FALSE
    OBVIOUS
  <2>1. PICK x \in S : TRUE
    OBVIOUS
  <2>2. m \in Nat /\ m - 1 \in Nat /\ m - 1 < m
    BY <2>1
  <2>3. \A y \in S : y <= m - 1
    OBVIOUS
  <2> QED BY <1>3, <2>2, <2>3
<1>5. \E x \in S : \A y \in S : x >= y
  BY <1>4
<1> QED BY <1>5 DEF Max

\* The inode the file starts with.
LEMMA FirstInode == Min(Inodes) \in Inodes
<1>1. Inodes \in SUBSET Nat /\ Inodes # {}
  BY FileAssumption
<1>2. PICK m \in Inodes : \A k \in Inodes : ~ (<<k, m>> \in OpToRel(<, Nat))
  BY <1>1, WFMin, NatLessThanWellFounded
<1>3. \A k \in Inodes : m <= k
  <2>1. \A k \in Inodes : k \in Nat /\ m \in Nat
    BY <1>1
  <2>2. \A k \in Inodes : ~ (k < m)
    BY <1>2, <2>1 DEF OpToRel
  <2> QED BY <2>1, <2>2
<1>4. \E x \in Inodes : \A y \in Inodes : x <= y
  BY <1>3
<1> QED BY <1>4 DEF Min

\* The configuration, typed.
LEMMA ConfFields ==
  ASSUME conf \in FileSetups
  PROVE  /\ conf.glob \subseteq Paths /\ conf.legacy \in Nat /\ conf.multi \in BOOLEAN
         /\ conf.content \in Seq(LineRecord) /\ conf.half \in BOOLEAN
         /\ conf.kinds \subseteq {"msg", "cont", "drop"} /\ conf.may \in LeftRecord
         /\ conf.legacy <= Len(conf.content)
         /\ conf.legacy > 0 => conf.may.rotations = 0
         /\ conf.eof = "stop" => /\ conf.start = "beginning" /\ conf.kinds = {}
                                 /\ conf.may.rotations = 0 /\ conf.may.truncations = 0
<1>1. conf \in
       [glob : SUBSET Paths, start : {"beginning", "end"}, eof : {"tail", "stop"},
        close : BOOLEAN, clean : BOOLEAN, ignore : BOOLEAN, multi : BOOLEAN, maxLines : Nat,
        refuse : BOOLEAN, reuse : BOOLEAN, kinds : SUBSET {"msg", "cont", "drop"},
        content : Seq([n : Nat, k : {"msg", "cont", "drop"}]), half : BOOLEAN, legacy : Nat,
        may : [writes : Nat, rotations : Nat, truncations : Nat, faults : Nat, restarts : Nat]]
  BY FileAssumption
<1>2. /\ conf.legacy <= Len(conf.content)
      /\ conf.legacy > 0 => conf.may.rotations = 0
      /\ conf.eof = "stop" => /\ conf.start = "beginning" /\ conf.kinds = {}
                              /\ conf.may.rotations = 0 /\ conf.may.truncations = 0
  BY FileAssumption
<1> QED BY <1>1, <1>2 DEF LineRecord, LeftRecord

\* The memory of the source, typed.
LEMMA SrcFields ==
  ASSUME NEW s \in SrcRecord
  PROVE  /\ s.phase \in Phases /\ s.first \in BOOLEAN /\ s.em \in BOOLEAN
         /\ s.todo \in Seq(Inodes \cup Paths) /\ s.seen \subseteq Inodes
         /\ s.failed \subseteq Paths /\ s.reads \subseteq Inodes
         /\ s.files \in [Inodes -> EntryRecord] /\ s.tracked \subseteq Inodes
         /\ s.byPath \in [Paths -> Inodes \cup {None}] /\ s.ignored \subseteq Inodes
         /\ s.carry \in [Inodes -> Nat] /\ s.legacy \in Nat
         /\ s.pending \subseteq Emission /\ s.nextSeq \in Nat /\ s.last \in Nat
BY DEF SrcRecord

\* The fields of the entry of a file.
LEMMA EntryFields ==
  ASSUME NEW f \in EntryRecord
  PROVE  /\ f.path \in Paths /\ f.open \in BOOLEAN /\ f.offset \in Nat
         /\ f.committed \in Nat /\ f.partial \in {0, 1} /\ f.size \in Nat
         /\ f.stamp \in Nat /\ f.removed \in BOOLEAN /\ f.reopen \in BOOLEAN
         /\ f.tail \in Seq(Nat) /\ f.group \subseteq Nat /\ f.lines \in Nat /\ f.end \in Nat
BY DEF EntryRecord

\* The fields of the file system, and sizes.
LEMMA DiskFields ==
  ASSUME disk \in DiskRecord
  PROVE  /\ disk.at \in [Paths -> Inodes \cup {None}]
         /\ disk.data \in [Inodes -> Seq(LineRecord)]
         /\ disk.half \in [Inodes -> BOOLEAN] /\ disk.stamp \in [Inodes -> Nat]
         /\ disk.old \subseteq Inodes /\ disk.next \in Nat /\ disk.clock \in Nat
         /\ \A i \in Inodes : Size(i) \in Nat
         /\ \A i \in Inodes : \A k \in 1..Size(i) : disk.data[i][k] \in LineRecord
<1>1. disk.data \in [Inodes -> Seq(LineRecord)]
  BY DEF DiskRecord
<1>2. \A i \in Inodes : disk.data[i] \in Seq(LineRecord)
  BY <1>1
<1> QED BY <1>2, LenProperties, ElementOfSeq DEF DiskRecord, Size

\* The head of a list of files, and what is left of the list.
LEMMA HeadOf ==
  ASSUME NEW S, NEW t \in Seq(S), t # <<>>
  PROVE  Head(t) \in S /\ Tail(t) \in Seq(S) /\ t[1] = Head(t) /\ 1 \in 1..Len(t)
BY EmptySeq, HeadTailProperties, LenProperties

\* What is in the tail of a list was in the list, and only its head is missing.
LEMMA TailHas ==
  ASSUME NEW S, NEW t \in Seq(S), NEW k \in 1..Len(t), t[k] # Head(t)
  PROVE  \E m \in 1..Len(Tail(t)) : Tail(t)[m] = t[k]
<1>1. t # <<>> /\ Len(t) \in Nat /\ Head(t) = t[1]
  BY EmptySeq, HeadTailProperties, LenProperties
<1>2. Len(Tail(t)) = Len(t) - 1 /\ \A n \in 1..Len(Tail(t)) : Tail(t)[n] = t[n + 1]
  BY <1>1, HeadTailProperties
<1>3. k - 1 \in 1..Len(Tail(t))
  BY <1>1, <1>2
<1>4. Tail(t)[k - 1] = t[k]
  BY <1>1, <1>2, <1>3
<1> QED BY <1>3, <1>4

\* The bounds are only used up.
Spent ==
  /\ left' \in LeftRecord
  /\ left'.rotations <= left.rotations /\ left'.truncations <= left.truncations

\* A step that leaves the bounds alone.
LEMMA NothingSpent ==
  ASSUME FileTypes, left' = left
  PROVE  Spent
BY DEF FileTypes, LeftRecord, Spent

\* A step that costs a fault.
LEMMA FaultSpent ==
  ASSUME FileTypes, left.faults > 0, Used("faults")
  PROVE  Spent
<1>1. left \in LeftRecord /\ left.faults - 1 \in Nat
  BY DEF FileTypes, LeftRecord
<1>2. /\ left'.faults = left.faults - 1 /\ left'.writes = left.writes
      /\ left'.rotations = left.rotations /\ left'.truncations = left.truncations
      /\ left'.restarts = left.restarts
  BY <1>1 DEF Used, LeftRecord
<1>3. left' \in LeftRecord
  BY <1>1 DEF Used, LeftRecord
<1> QED BY <1>1, <1>2, <1>3 DEF Spent, LeftRecord

\* What stays true of the store, of the documents and of the bounds when a scan takes a
\* step, whether it emits or not.
LEMMA KeptByScan ==
  ASSUME FileInv, Quiet, Spent, src' \in SrcRecord, src'.legacy \in {0, src.legacy},
         emitted \subseteq emitted', emitted' \subseteq Nat, accepted' \in Nat
  PROVE  /\ FileTypes' /\ Stored' /\ Legacy' /\ (conf.eof = "stop" => rewritten = {})'
         /\ \A i, v : Covered(i, v) => Covered(i, v)'
<1>1. UNCHANGED <<conf, disk, durable, doc, rewritten>>
  BY DEF Quiet
<1>2. \A i, v : Covered(i, v) => Covered(i, v)'
  BY <1>1 DEF Covered, Settled, Size
<1>3. FileTypes'
  BY <1>1 DEF FileInv, FileTypes, Spent
<1>4. Stored'
  BY <1>1, <1>2 DEF FileInv, Stored
<1>5. Legacy'
  <2>1. left.rotations \in Nat /\ left.truncations \in Nat /\ conf.may.rotations \in Nat
        /\ conf.may.truncations \in Nat
    BY ConfFields DEF FileInv, FileTypes, LeftRecord
  <2>2. left'.rotations \in Nat /\ left'.truncations \in Nat
    BY DEF Spent, LeftRecord
  <2>3. left'.rotations <= conf.may.rotations /\ left'.truncations <= conf.may.truncations
    BY <2>1, <2>2 DEF FileInv, Legacy, Spent
  <2>4. src'.legacy \in {0, conf.legacy} /\ durable'.legacy \in {0, conf.legacy}
    BY <1>1 DEF FileInv, Legacy
  <2>5. Min(Inodes) \notin rewritten => Covered(Min(Inodes), conf.legacy)'
    BY <1>1, <1>2 DEF FileInv, Legacy
  <2> QED BY <1>1, <2>3, <2>4, <2>5 DEF FileInv, Legacy
<1> QED BY <1>1, <1>2, <1>3, <1>4, <1>5 DEF FileInv

\* A step of a scan that emits nothing.
LEMMA QuietScan ==
  ASSUME FileInv, Quiet, Spent, NEW s, Scanned(s, emitted), src' = s,
         UNCHANGED <<emitted, accepted>>, src.phase # "ended"
  PROVE  FileInv'
<1>1. UNCHANGED <<conf, disk, durable, doc, rewritten, emitted, accepted>>
  BY DEF Quiet
<1>2. src' \in SrcRecord /\ src'.legacy \in {0, src.legacy} /\ src'.nextSeq = src.nextSeq
      /\ src'.pending = src.pending /\ src'.phase \notin {"done", "down"}
  BY DEF Scanned
<1>3. /\ FileTypes' /\ Stored' /\ Legacy' /\ (conf.eof = "stop" => rewritten = {})'
      /\ \A i, v : Covered(i, v) => Covered(i, v)'
  BY <1>1, <1>2, KeptByScan DEF FileInv, FileTypes
<1>4. Listed(src)'
  BY DEF Scanned, Listed
<1>5. Resumable(src)'
  BY <1>1, <1>3 DEF Scanned, Resumable
<1>6. Acknowledged'
  BY <1>1, <1>2, <1>3 DEF FileInv, Acknowledged
<1>7. Grouped(src)'
  BY <1>1 DEF Scanned, Grouped, GroupOf
<1>8. Known(src)'
  BY DEF Scanned, Known, InTodo
<1>9. Batched(src)'
  BY <1>1 DEF Scanned, Batched, InTodo, Size
<1>10. Numbered'
  BY <1>1, <1>2 DEF FileInv, Numbered
<1>11. Passed(src, emitted)' /\ Looked(src)' /\ Flushed(src)'
  BY <1>1 DEF Scanned, Passed, PassedBy, Looked, LookedAt, IsDrained, InTodo, Flushed, Size
<1>12. ExhaustedMeansRead'
  BY <1>2 DEF ExhaustedMeansRead
<1> QED BY <1>3, <1>4, <1>5, <1>6, <1>7, <1>8, <1>9, <1>10, <1>11, <1>12 DEF FileInv

\* An emission, as the source and the engine see it.
LEMMA Emitting ==
  ASSUME NEW s \in SrcRecord, NEW i \in Inodes, NEW lines, NEW end \in Nat,
         Emit(s, i, lines, end)
  PROVE  /\ src' \in SrcRecord
         /\ src'.nextSeq = s.nextSeq + 1 /\ src'.legacy = s.legacy
         /\ src'.pending = s.pending \cup {[seq |-> s.nextSeq + 1, id |-> i, end |-> end]}
         /\ src'.todo = s.todo /\ src'.seen = s.seen /\ src'.failed = s.failed
         /\ src'.files = s.files /\ src'.tracked = s.tracked /\ src'.carry = s.carry
         /\ \/ src'.phase = s.phase /\ emitted' = emitted \cup lines /\ accepted' = accepted + 1
            \/ src'.phase = "ended" /\ emitted' = emitted /\ accepted' = accepted
<1>1. PICK x : x = [seq |-> s.nextSeq + 1, id |-> i, end |-> end]
  OBVIOUS
<1>2. s.nextSeq + 1 \in Nat /\ x \in Emission
  BY <1>1, SrcFields DEF Emission
<1>3. PICK r : r = [s EXCEPT !.nextSeq = s.nextSeq + 1, !.em = TRUE,
                             !.pending = s.pending \cup {x}]
  OBVIOUS
<1>4. PICK r2 : r2 = [r EXCEPT !.phase = "ended"]
  OBVIOUS
<1>5. s.pending \cup {x} \subseteq Emission
  BY <1>2, SrcFields
<1>6. r \in SrcRecord /\ r2 \in SrcRecord
  BY <1>2, <1>3, <1>4, <1>5 DEF SrcRecord, Phases
<1>7. \/ src' = r /\ emitted' = emitted \cup lines /\ accepted' = accepted + 1
      \/ src' = r2 /\ emitted' = emitted /\ accepted' = accepted
  BY <1>1, <1>3, <1>4 DEF Emit
<1>8. /\ r.nextSeq = s.nextSeq + 1 /\ r.legacy = s.legacy /\ r.pending = s.pending \cup {x}
      /\ r.todo = s.todo /\ r.seen = s.seen /\ r.failed = s.failed /\ r.files = s.files
      /\ r.tracked = s.tracked /\ r.carry = s.carry /\ r.phase = s.phase
  BY <1>3 DEF SrcRecord
<1>9. /\ r2.nextSeq = s.nextSeq + 1 /\ r2.legacy = s.legacy /\ r2.pending = s.pending \cup {x}
      /\ r2.todo = s.todo /\ r2.seen = s.seen /\ r2.failed = s.failed /\ r2.files = s.files
      /\ r2.tracked = s.tracked /\ r2.carry = s.carry /\ r2.phase = "ended"
  BY <1>4, <1>6, <1>8 DEF SrcRecord
<1> QED BY <1>1, <1>6, <1>7, <1>8, <1>9

\* A step of a scan that emits lines, the last of which ends at end: accepted, they are
\* settled; refused, Run ends and what it has passed no longer matters.
LEMMA EmitScan ==
  ASSUME FileInv, Quiet, Spent, src.phase # "ended",
         NEW i \in Inodes, NEW lines \in SUBSET Nat, NEW end \in Nat,
         NEW s, Scanned(s, emitted \cup lines), Emit(s, i, lines, end),
         conf.start = "beginning" /\ i \notin rewritten =>
           /\ end <= Size(i)
           /\ \A k \in 1..end : Settled(disk.data[i][k]) \/ disk.data[i][k].n \in lines
  PROVE  FileInv'
<1>1. UNCHANGED <<conf, disk, durable, doc, rewritten>>
  BY DEF Quiet
<1>2. s \in SrcRecord /\ s.legacy \in {0, src.legacy} /\ s.nextSeq = src.nextSeq
      /\ s.pending = src.pending /\ s.phase \notin {"done", "down"}
  BY DEF Scanned
<1>3. PICK x : x = [seq |-> s.nextSeq + 1, id |-> i, end |-> end]
  OBVIOUS
<1>4. /\ src' \in SrcRecord
      /\ src'.nextSeq = s.nextSeq + 1 /\ src'.legacy = s.legacy
      /\ src'.pending = s.pending \cup {x}
      /\ src'.todo = s.todo /\ src'.seen = s.seen /\ src'.failed = s.failed
      /\ src'.files = s.files /\ src'.tracked = s.tracked /\ src'.carry = s.carry
      /\ \/ src'.phase = s.phase /\ emitted' = emitted \cup lines /\ accepted' = accepted + 1
         \/ src'.phase = "ended" /\ emitted' = emitted /\ accepted' = accepted
  BY <1>2, <1>3, Emitting
<1>5. accepted \in Nat /\ emitted \subseteq Nat /\ src.nextSeq \in Nat /\ accepted = src.nextSeq
      /\ x.seq = accepted + 1 /\ x.id = i /\ x.end = end
      /\ \A q \in src.pending : q.seq \in Nat /\ q.end \in Nat /\ q.seq <= accepted
  <2>1. src \in SrcRecord
    BY DEF FileInv, FileTypes
  <2>2. \A q \in src.pending : q \in Emission
    BY <2>1, SrcFields
  <2> QED BY <1>2, <1>3, <2>1, <2>2, SrcFields DEF FileInv, FileTypes, Numbered, Emission
<1>6. /\ FileTypes' /\ Stored' /\ Legacy' /\ (conf.eof = "stop" => rewritten = {})'
      /\ \A j, v : Covered(j, v) => Covered(j, v)'
  <2>1. accepted' \in Nat /\ emitted \subseteq emitted' /\ emitted' \subseteq Nat
    <3>1. emitted \cup lines \subseteq Nat /\ accepted + 1 \in Nat
      BY <1>5
    <3>2. accepted' \in Nat
      BY <1>4, <1>5, <3>1
    <3>3. emitted \subseteq emitted'
      BY <1>4
    <3>4. emitted' \subseteq Nat
      BY <1>4, <1>5, <3>1
    <3> QED BY <3>2, <3>3, <3>4
  <2>2. src' \in SrcRecord /\ src'.legacy \in {0, src.legacy}
    BY <1>2, <1>4
  <2> QED BY <2>1, <2>2, KeptByScan
<1>7. Listed(src)'
  BY <1>4 DEF Scanned, Listed
<1>8. Resumable(src)'
  BY <1>1, <1>4, <1>6 DEF Scanned, Resumable
<1>9. Acknowledged'
  <2> SUFFICES ASSUME conf.start = "beginning", NEW q \in src'.pending, q.seq <= accepted',
                      q.id \notin rewritten
               PROVE  Covered(q.id, q.end)'
    BY <1>1 DEF Acknowledged
  <2>1. CASE q \in src.pending
    <3>1. Covered(q.id, q.end)
      BY <1>5, <2>1 DEF FileInv, Acknowledged
    <3> QED BY <1>6, <3>1
  <2>2. CASE q = x
    <3>1. emitted' = emitted \cup lines
      BY <1>4, <1>5, <2>2
    <3>2. end <= Size(i) /\ \A k \in 1..end : Settled(disk.data[i][k]) \/ disk.data[i][k].n \in lines
      BY <1>5, <2>2
    <3>3. Covered(i, end)'
      BY <1>1, <3>1, <3>2 DEF Covered, Settled, Size
    <3> QED BY <1>5, <2>2, <3>3
  <2> QED BY <1>2, <1>4, <2>1, <2>2
<1>10. Grouped(src)'
  BY <1>1, <1>4 DEF Scanned, Grouped, GroupOf
<1>11. Known(src)'
  BY <1>2, <1>4 DEF Scanned, Known, InTodo
<1>12. Batched(src)'
  BY <1>1, <1>2, <1>4 DEF Scanned, Batched, InTodo, Size, InScan
<1>13. Numbered'
  <2>1. \A q \in src'.pending : q.seq <= src'.nextSeq
    BY <1>2, <1>4, <1>5
  <2>2. \E b \in Nat : \A q \in src'.pending : q.end <= b
    <3>1. PICK b \in Nat : \A q \in src.pending : q.end <= b
      BY DEF FileInv, Numbered
    <3>2. \A q \in src'.pending : q.end <= b + end
      BY <1>2, <1>4, <1>5, <3>1
    <3> QED BY <3>1, <3>2
  <2> QED BY <1>2, <1>4, <1>5, <2>1, <2>2 DEF Numbered
<1>14. ASSUME src'.phase # "ended"
       PROVE  Passed(src, emitted)' /\ Looked(src)' /\ Flushed(src)'
  <2>1. src'.phase = s.phase /\ emitted' = emitted \cup lines
    BY <1>4, <1>14
  <2>2. Passed(src, emitted)'
    BY <1>1, <1>4, <2>1 DEF Scanned, Passed, PassedBy, Size
  <2>3. Looked(src)'
    BY <1>1, <1>4, <2>1 DEF Scanned, Looked, LookedAt, IsDrained, InTodo, Size
  <2>4. Flushed(src)'
    BY <1>1, <1>4, <2>1 DEF Scanned, Flushed
  <2> QED BY <2>2, <2>3, <2>4
<1>15. ExhaustedMeansRead'
  BY <1>2, <1>4 DEF ExhaustedMeansRead
<1> QED
  BY <1>6, <1>7, <1>8, <1>9, <1>10, <1>11, <1>12, <1>13, <1>14, <1>15 DEF FileInv

\* A step of a scan that flushes the group of file i, if it has one.
LEMMA FlushScan ==
  ASSUME FileInv, Quiet, Spent, src.phase # "ended", NEW i \in Inodes,
         NEW s, Scanned(s, emitted \cup src.files[i].group), FlushGroup(s, i)
  PROVE  FileInv'
<1>1. src.files[i] \in EntryRecord
  BY SrcFields DEF FileInv, FileTypes
<1>2. src.files[i].group \in SUBSET Nat /\ src.files[i].end \in Nat /\ src.files[i].offset \in Nat
  BY <1>1, EntryFields
<1>3. CASE src.files[i].group = {}
  <2>1. src' = s /\ UNCHANGED <<emitted, accepted>>
    BY <1>3 DEF FlushGroup
  <2>2. emitted \cup src.files[i].group = emitted
    BY <1>3
  <2>3. Scanned(s, emitted)
    BY <2>2
  <2> QED BY <2>1, <2>3, QuietScan
<1>4. CASE src.files[i].group # {}
  <2>1. Emit(s, i, src.files[i].group, src.files[i].end)
    BY <1>4 DEF FlushGroup
  <2>2. ASSUME conf.start = "beginning", i \notin rewritten
        PROVE  /\ src.files[i].end <= Size(i)
               /\ \A k \in 1..src.files[i].end :
                    Settled(disk.data[i][k]) \/ disk.data[i][k].n \in src.files[i].group
    <3>1. src.files[i].end <= src.files[i].offset
      BY DEF FileInv, Grouped, GroupOf
    <3>2. PassedBy(i, src.files[i], emitted)
      BY <2>2 DEF FileInv, Passed
    <3>3. Size(i) \in Nat
      BY DiskFields DEF FileInv, FileTypes
    <3> QED BY <1>2, <3>1, <3>2, <3>3 DEF PassedBy, Settled
  <2> QED BY <1>2, <2>1, <2>2, EmitScan
<1> QED BY <1>3, <1>4

\* A step of a scan that leaves f as the entry of file i, the head of the list, and
\* perhaps forgets the file.
LEMMA OneFile ==
  ASSUME FileInv, src.phase \in {"drain", "read", "reap"}, src.todo # <<>>,
         NEW i \in Inodes, i = Head(src.todo), NEW f \in EntryRecord, NEW em, emitted \subseteq em,
         NEW s \in SrcRecord,
         s.files = [src.files EXCEPT ![i] = f],
         \/ s.phase \in {"drain", "read"} /\ src.phase # "reap"
         \/ s.phase = "reap" /\ src.phase = "reap",
         s.todo = src.todo \/ s.todo = Tail(src.todo),
         s.phase = "read" => s.todo = src.todo /\ f.open,
         s.tracked = src.tracked \/ (s.tracked = src.tracked \ {i} /\ s.phase = "reap"),
         i \notin s.tracked => f = NoEntry,
         i \in s.seen => i \in s.tracked /\ ~ f.removed,
         s.seen = src.seen, s.failed = src.failed, s.legacy = src.legacy,
         s.nextSeq = src.nextSeq, s.pending = src.pending,
         s.carry = src.carry \/ s.carry = [src.carry EXCEPT ![i] = 0],
         f.committed \in {0, src.files[i].committed},
         GroupOf(f),
         i \notin rewritten =>
           /\ conf.start = "beginning" => PassedBy(i, f, em)
           /\ LookedAt(i, f, s.phase = "reap" \/ s.todo # src.todo),
         conf.eof = "stop" => /\ i \in s.tracked => f.size = Size(i)
                              /\ s.phase = "read" \/ f.group = {}
  PROVE  Scanned(s, em)
<1>1. src \in SrcRecord /\ disk \in DiskRecord
  BY DEF FileInv, FileTypes
<1>2. src.files \in [Inodes -> EntryRecord] /\ src.carry \in [Inodes -> Nat]
      /\ src.todo \in Seq(Inodes) /\ src.tracked \subseteq Inodes /\ src.phase # "ended"
  <2>1. src.files \in [Inodes -> EntryRecord] /\ src.carry \in [Inodes -> Nat]
        /\ src.tracked \subseteq Inodes
    BY <1>1, SrcFields
  <2>2. CASE src.phase = "reap"
    BY <2>1, <2>2 DEF FileInv, Listed
  <2>3. CASE src.phase \in {"drain", "read"}
    <3>1. src.todo \in Seq(src.tracked)
      BY <2>3 DEF FileInv, Listed
    <3> QED BY <2>1, <2>3, <3>1, SeqMonotonic
  <2> QED BY <2>1, <2>2, <2>3
<1>3. s.files[i] = f /\ \A j \in Inodes : j # i => s.files[j] = src.files[j]
  BY <1>2
<1>4. \A j : InTodo(src, j) /\ j # i => InTodo(s, j)
  <2> SUFFICES ASSUME NEW j, j # i, NEW k \in 1..Len(src.todo), src.todo[k] = j
               PROVE  \E m \in 1..Len(s.todo) : s.todo[m] = j
    BY DEF InTodo
  <2>1. \E m \in 1..Len(Tail(src.todo)) : Tail(src.todo)[m] = j
    <3>1. src.todo \in Seq(Inodes) /\ src.todo[k] # Head(src.todo)
      BY <1>2
    <3>2. \E m \in 1..Len(Tail(src.todo)) : Tail(src.todo)[m] = src.todo[k]
      BY <3>1, TailHas
    <3> QED BY <3>2
  <2>2. CASE s.todo = src.todo
    BY <2>2
  <2>3. CASE s.todo = Tail(src.todo)
    BY <2>1, <2>3
  <2> QED BY <2>2, <2>3
<1>5. s.todo = src.todo => InTodo(s, i)
  BY <1>2, HeadOf DEF InTodo
<1>6. \A j \in Inodes : s.carry[j] \in {0, src.carry[j]}
  BY <1>2
<1>7. \A j \in Inodes : Covered(j, 0)
  BY <1>1, DiskFields DEF Covered
<1>8. s.phase \notin {"ended", "done", "down", "discover"}
  OBVIOUS
<1>9. Listed(s)
  <2>1. s.phase = "reap" => s.todo \in Seq(Inodes)
    <3>1. Tail(src.todo) \in Seq(Inodes)
      BY <1>2, HeadOf
    <3> QED BY <1>2, <3>1
  <2>2. ASSUME s.phase \in {"drain", "read"} PROVE s.todo \in Seq(s.tracked)
    <3>1. src.todo \in Seq(src.tracked) /\ s.tracked = src.tracked
      BY <2>2 DEF FileInv, Listed
    <3>2. Tail(src.todo) \in Seq(src.tracked)
      BY <3>1, HeadOf
    <3> QED BY <3>1, <3>2
  <2>3. s.phase = "read" => s.todo # <<>> /\ s.files[Head(s.todo)].open
    BY <1>3
  <2> QED BY <1>8, <2>1, <2>2, <2>3 DEF Listed
<1>10. Resumable(s)
  <2> SUFFICES ASSUME conf.start = "beginning", NEW j \in Inodes \ rewritten
               PROVE  Covered(j, s.carry[j]) /\ Covered(j, s.files[j].committed)
    BY DEF Resumable
  <2>1. Covered(j, src.carry[j]) /\ Covered(j, src.files[j].committed) /\ Covered(j, 0)
    BY <1>7 DEF FileInv, Resumable
  <2>2. s.files[j].committed \in {0, src.files[j].committed}
    BY <1>3
  <2>3. s.carry[j] \in {0, src.carry[j]}
    BY <1>6
  <2> QED BY <2>1, <2>2, <2>3
<1>11. Grouped(s)
  BY <1>3 DEF FileInv, Grouped
<1>12. Known(s)
  <2>1. \A j \in Inodes \ s.tracked : s.files[j] = NoEntry
    BY <1>3 DEF FileInv, Known
  <2>2. s.seen \subseteq s.tracked
    BY DEF FileInv, Known
  <2>3. ASSUME NEW j \in s.seen, s.files[j].removed
        PROVE  /\ s.phase \in {"drain", "read"} /\ InTodo(s, j)
               /\ s.phase = "read" => j # Head(s.todo)
    <3>1. j # i /\ j \in Inodes
      BY <1>2, <1>3, <2>2, <2>3
    <3>2. src.phase \in {"drain", "read"} /\ InTodo(src, j)
      BY <1>3, <2>3, <3>1 DEF FileInv, Known
    <3> QED BY <1>4, <3>1, <3>2
  <2> QED BY <1>8, <2>1, <2>2, <2>3 DEF Known
<1>13. Batched(s)
  <2> SUFFICES ASSUME conf.eof = "stop"
               PROVE  /\ s.tracked \subseteq {Min(Inodes)}
                      /\ \A j \in s.tracked : s.files[j].size = Size(j)
                      /\ "log" \in conf.glob => "log" \in s.failed \/ Min(Inodes) \in s.seen
    BY <1>8 DEF Batched
  <2>1. s.tracked \subseteq src.tracked
    OBVIOUS
  <2>2. "log" \in conf.glob => "log" \in s.failed \/ Min(Inodes) \in s.seen
    BY DEF FileInv, Batched, InScan
  <2>3. \A j \in src.tracked : src.files[j].size = Size(j)
    BY DEF FileInv, Batched
  <2>4. src.tracked \subseteq {Min(Inodes)}
    BY DEF FileInv, Batched
  <2> QED BY <1>2, <1>3, <2>1, <2>2, <2>3, <2>4
<1>14. Passed(s, em)
  <2> SUFFICES ASSUME conf.start = "beginning", NEW j \in Inodes \ rewritten
               PROVE  PassedBy(j, s.files[j], em)
    BY DEF Passed
  <2>1. CASE j = i
    BY <1>3, <2>1
  <2>2. CASE j # i
    <3>1. PassedBy(j, src.files[j], emitted)
      BY <1>2 DEF FileInv, Passed
    <3> QED BY <1>3, <2>2, <3>1 DEF PassedBy
  <2> QED BY <2>1, <2>2
<1>15. Looked(s)
  <2> SUFFICES ASSUME NEW j \in Inodes \ rewritten
               PROVE  LookedAt(j, s.files[j], IsDrained(s, j))
    BY DEF Looked
  <2>1. CASE j = i
    <3>1. LookedAt(i, f, s.phase = "reap" \/ s.todo # src.todo)
      BY <2>1
    <3>2. IsDrained(s, i) => s.phase = "reap" \/ s.todo # src.todo
      BY <1>5 DEF IsDrained
    <3> QED BY <1>3, <2>1, <3>1, <3>2 DEF LookedAt
  <2>2. CASE j # i
    <3>1. LookedAt(j, src.files[j], IsDrained(src, j))
      BY <1>2 DEF FileInv, Looked
    <3>2. IsDrained(s, j) => IsDrained(src, j)
      BY <1>4, <2>2 DEF IsDrained
    <3> QED BY <1>3, <2>2, <3>1, <3>2 DEF LookedAt
  <2> QED BY <2>1, <2>2
<1>16. Flushed(s)
  <2> SUFFICES ASSUME conf.eof = "stop", NEW j \in Inodes
               PROVE  s.files[j].group = {} \/ (s.phase = "read" /\ j = Head(s.todo))
    BY DEF Flushed
  <2>1. CASE j = i
    BY <1>3, <2>1
  <2>2. CASE j # i
    BY <1>2, <1>3, <2>2 DEF FileInv, Flushed
  <2> QED BY <2>1, <2>2
<1> QED BY <1>8, <1>9, <1>10, <1>11, <1>12, <1>13, <1>14, <1>15, <1>16 DEF Scanned

\* The file a scan is at.
LEMMA AtFile ==
  ASSUME FileInv, src.phase \in {"drain", "read", "reap"}, src.todo # <<>>,
         NEW i, i = Head(src.todo)
  PROVE  /\ i \in Inodes /\ src.files[i] \in EntryRecord /\ Size(i) \in Nat
         /\ src \in SrcRecord /\ src.files \in [Inodes -> EntryRecord]
         /\ src.phase # "reap" => i \in src.tracked
         /\ src.phase = "read" => src.files[i].open
         /\ i \in src.seen /\ src.phase # "drain" => i \in src.tracked /\ ~ src.files[i].removed
         /\ GroupOf(src.files[i])
         /\ i \notin rewritten /\ conf.start = "beginning" => PassedBy(i, src.files[i], emitted)
         /\ i \notin rewritten => LookedAt(i, src.files[i], src.phase = "reap")
         /\ i \notin rewritten => LookedAt(i, src.files[i], FALSE)
<1>1. src \in SrcRecord /\ src.phase # "ended" /\ disk \in DiskRecord
  BY DEF FileInv, FileTypes
<1>2. src.tracked \subseteq Inodes /\ src.files \in [Inodes -> EntryRecord]
  BY <1>1, SrcFields
<1>3. i \in Inodes /\ (src.phase # "reap" => i \in src.tracked)
  <2>1. CASE src.phase = "reap"
    <3>1. src.todo \in Seq(Inodes)
      BY <2>1 DEF FileInv, Listed
    <3> QED BY <2>1, <3>1, HeadOf
  <2>2. CASE src.phase # "reap"
    <3>1. src.todo \in Seq(src.tracked)
      BY <2>2 DEF FileInv, Listed
    <3>2. Head(src.todo) \in src.tracked
      BY <3>1, HeadOf
    <3> QED BY <1>2, <3>2
  <2> QED BY <2>1, <2>2
<1>4. src.phase = "read" => src.files[i].open
  BY DEF FileInv, Listed
<1>5. GroupOf(src.files[i])
  BY <1>3 DEF FileInv, Grouped
<1>6. i \notin rewritten /\ conf.start = "beginning" => PassedBy(i, src.files[i], emitted)
  BY <1>1, <1>3 DEF FileInv, Passed
<1>7. i \notin rewritten => LookedAt(i, src.files[i], IsDrained(src, i))
  BY <1>1, <1>3 DEF FileInv, Looked
<1>8. i \notin rewritten => LookedAt(i, src.files[i], src.phase = "reap")
                            /\ LookedAt(i, src.files[i], FALSE)
  BY <1>7 DEF LookedAt, IsDrained
<1>9. i \in src.seen /\ src.phase # "drain" => i \in src.tracked /\ ~ src.files[i].removed
  BY DEF FileInv, Known
<1> QED BY <1>1, <1>2, <1>3, <1>4, <1>5, <1>6, <1>8, <1>9, DiskFields

\* poll marks the next file and drains it, from 0 if it was rewritten.
LEMMA DrainStep ==
  ASSUME FileInv, Drain
  PROVE  FileInv'
<1>1. src.phase = "drain" /\ src.todo # <<>> /\ Quiet /\ left' = left
  BY DEF Drain
<1>2. Spent
  BY <1>1, NothingSpent DEF FileInv
<1>3. PICK i : i = Head(src.todo)
  OBVIOUS
<1>4. /\ i \in Inodes /\ src.files[i] \in EntryRecord /\ Size(i) \in Nat /\ i \in src.tracked
      /\ src \in SrcRecord /\ src.files \in [Inodes -> EntryRecord]
      /\ GroupOf(src.files[i])
      /\ i \notin rewritten /\ conf.start = "beginning" => PassedBy(i, src.files[i], emitted)
      /\ i \notin rewritten => LookedAt(i, src.files[i], FALSE)
  BY <1>1, <1>3, AtFile
<1>5. PICK o : o = src.files[i]
  OBVIOUS
<1>6. PICK e : e = Marked(i)
  OBVIOUS
<1>7. /\ e \in EntryRecord
      /\ e.path = o.path /\ e.open = o.open /\ e.offset = o.offset /\ e.committed = o.committed
      /\ e.partial = o.partial /\ e.size = o.size /\ e.reopen = o.reopen /\ e.tail = o.tail
      /\ e.group = o.group /\ e.lines = o.lines /\ e.end = o.end
      /\ i \in src.seen => ~ e.removed
  <2>1. PICK b : b = IF i \in src.seen THEN FALSE
                     ELSE IF o.path \notin src.failed THEN TRUE ELSE o.removed
    OBVIOUS
  <2>2. b \in BOOLEAN
    BY <1>4, <1>5, <2>1, EntryFields
  <2>3. e = [o EXCEPT !.removed = b]
    BY <1>5, <1>6, <2>1 DEF Marked
  <2> QED BY <1>4, <1>5, <2>1, <2>2, <2>3 DEF EntryRecord
<1>8. PICK seen : seen = [e EXCEPT !.size = Size(i), !.stamp = disk.stamp[i]]
  OBVIOUS
<1>9. /\ seen \in EntryRecord
      /\ seen.open = e.open /\ seen.offset = e.offset /\ seen.committed = e.committed
      /\ seen.partial = e.partial /\ seen.size = Size(i) /\ seen.reopen = e.reopen
      /\ seen.group = e.group /\ seen.end = e.end /\ seen.removed = e.removed
  <2>1. disk.stamp[i] \in Nat
    BY <1>4, DiskFields DEF FileInv, FileTypes
  <2> QED BY <1>4, <1>7, <1>8, <2>1 DEF EntryRecord
<1>10. src.tracked \subseteq Inodes /\ (conf.eof = "stop" => o.size = Size(i) /\ o.group = {})
  BY <1>1, <1>4, <1>5, SrcFields DEF FileInv, Batched, Flushed
<1>11. emitted \subseteq emitted \cup o.group /\ src.seen \subseteq src.tracked
  BY DEF FileInv, Known
<1>12. CASE ~ e.open
  <2>1. PICK f : f = NoGroup(e)
    OBVIOUS
  <2>2. /\ f \in EntryRecord /\ f.open = e.open /\ f.offset = e.offset /\ f.committed = e.committed
        /\ f.partial = e.partial /\ f.size = e.size /\ f.reopen = e.reopen
        /\ f.group = {} /\ f.end = 0 /\ f.removed = e.removed
    BY <1>7, <2>1 DEF NoGroup, EntryRecord
  <2>3. PICK s : s = [src EXCEPT !.files[i] = f, !.todo = Tail(@)]
    OBVIOUS
  <2>4. Tail(src.todo) \in Seq(Inodes \cup Paths)
    BY <1>1, <1>4, SrcFields, HeadOf
  <2>5. s \in SrcRecord /\ s.files = [src.files EXCEPT ![i] = f] /\ s.phase = "drain"
        /\ s.todo = Tail(src.todo) /\ s.tracked = src.tracked /\ s.seen = src.seen
        /\ s.failed = src.failed /\ s.legacy = src.legacy /\ s.nextSeq = src.nextSeq
        /\ s.pending = src.pending /\ s.carry = src.carry
    BY <1>1, <1>4, <2>2, <2>3, <2>4 DEF SrcRecord
  <2>6. GroupOf(f)
    BY <2>2, EntryFields DEF GroupOf
  <2>7. i \notin rewritten /\ conf.start = "beginning" => PassedBy(i, f, emitted \cup o.group)
    BY <1>4, <1>5, <1>7, <2>2 DEF PassedBy
  <2>8. i \notin rewritten => LookedAt(i, f, TRUE)
    BY <1>4, <1>5, <1>7, <1>12, <2>2 DEF LookedAt
  <2>9. i \notin rewritten => LookedAt(i, f, s.phase = "reap" \/ s.todo # src.todo)
    BY <2>8 DEF LookedAt
  <2>12. /\ f.committed \in {0, src.files[i].committed} /\ i \in s.tracked
         /\ i \in s.seen => ~ f.removed
         /\ conf.eof = "stop" => f.size = Size(i) /\ f.group = {}
    BY <1>4, <1>5, <1>7, <1>10, <2>2, <2>5
  <2>10. Scanned(s, emitted \cup o.group)
    <3>1. PICK em : em = emitted \cup o.group
      OBVIOUS
    <3>2. /\ s.phase \in {"drain", "read"} /\ src.phase # "reap" /\ src.todo # <<>>
          /\ s.phase # "read" /\ src.phase \in {"drain", "read", "reap"} /\ i \in Inodes
      BY <1>1, <1>4, <2>5
    <3>3. emitted \subseteq em /\ (i \in s.seen => i \in s.tracked /\ ~ f.removed)
      BY <2>12, <3>1
    <3>4. i \notin rewritten =>
            /\ conf.start = "beginning" => PassedBy(i, f, em)
            /\ LookedAt(i, f, s.phase = "reap" \/ s.todo # src.todo)
      BY <2>7, <2>9, <3>1
    <3>5. Scanned(s, em)
      BY <1>3, <2>2, <2>5, <2>6, <2>12, <3>2, <3>3, <3>4, OneFile
    <3> QED BY <3>1, <3>5
  <2>11. FlushGroup(s, i)
    BY <1>3, <1>6, <1>12, <2>1, <2>3 DEF Drain
  <2> QED BY <1>1, <1>2, <1>4, <1>5, <2>10, <2>11, FlushScan
<1>13. CASE e.open /\ truncated(e, i)
  <2>1. PICK f : f = Restarted(seen)
    OBVIOUS
  <2>2. /\ f \in EntryRecord /\ f.open = e.open /\ f.offset = 0 /\ f.committed = 0
        /\ f.partial = 0 /\ f.size = Size(i) /\ f.reopen = e.reopen
        /\ f.group = {} /\ f.end = 0 /\ f.removed = e.removed
    <3>1. <<>> \in Seq(Nat)
      BY EmptySeq
    <3>2. PICK g : g = NoGroup(seen)
      OBVIOUS
    <3>3. /\ g \in EntryRecord /\ g.open = seen.open /\ g.size = seen.size /\ g.reopen = seen.reopen
          /\ g.group = {} /\ g.end = 0 /\ g.removed = seen.removed
      BY <1>9, <3>2 DEF NoGroup, EntryRecord
    <3>4. f = [g EXCEPT !.offset = 0, !.committed = 0, !.partial = 0, !.tail = <<>>]
      BY <2>1, <3>2 DEF Restarted
    <3> QED BY <1>9, <3>1, <3>3, <3>4 DEF EntryRecord
  <2>3. PICK s : s = [src EXCEPT !.files[i] = f, !.phase = "read"]
    OBVIOUS
  <2>5. s \in SrcRecord /\ s.files = [src.files EXCEPT ![i] = f] /\ s.phase = "read"
        /\ s.todo = src.todo /\ s.tracked = src.tracked /\ s.seen = src.seen
        /\ s.failed = src.failed /\ s.legacy = src.legacy /\ s.nextSeq = src.nextSeq
        /\ s.pending = src.pending /\ s.carry = src.carry
    BY <1>1, <1>4, <2>2, <2>3 DEF SrcRecord, Phases
  <2>6. GroupOf(f)
    BY <2>2 DEF GroupOf
  <2>7. PassedBy(i, f, emitted \cup o.group)
    BY <1>4, <2>2 DEF PassedBy
  <2>8. LookedAt(i, f, FALSE)
    BY <1>4, <1>13, <2>2 DEF LookedAt
  <2>9. i \notin rewritten => LookedAt(i, f, s.phase = "reap" \/ s.todo # src.todo)
    BY <2>5, <2>8 DEF LookedAt
  <2>10. Scanned(s, emitted \cup o.group)
    BY <1>1, <1>3, <1>4, <1>5, <1>7, <1>10, <1>11, <1>13, <2>2, <2>5, <2>6, <2>7, <2>9, OneFile
  <2>11. FlushGroup(s, i)
    BY <1>3, <1>6, <1>8, <1>13, <2>1, <2>3 DEF Drain
  <2> QED BY <1>1, <1>2, <1>4, <1>5, <2>10, <2>11, FlushScan
<1>14. CASE e.open /\ ~ truncated(e, i)
  <2>3. PICK s : s = [src EXCEPT !.files[i] = seen, !.phase = "read"]
    OBVIOUS
  <2>5. s \in SrcRecord /\ s.files = [src.files EXCEPT ![i] = seen] /\ s.phase = "read"
        /\ s.todo = src.todo /\ s.tracked = src.tracked /\ s.seen = src.seen
        /\ s.failed = src.failed /\ s.legacy = src.legacy /\ s.nextSeq = src.nextSeq
        /\ s.pending = src.pending /\ s.carry = src.carry
    BY <1>1, <1>4, <1>9, <2>3 DEF SrcRecord, Phases
  <2>6. GroupOf(seen)
    BY <1>4, <1>5, <1>7, <1>9 DEF GroupOf
  <2>7. i \notin rewritten /\ conf.start = "beginning" => PassedBy(i, seen, emitted)
    BY <1>4, <1>5, <1>7, <1>9 DEF PassedBy
  <2>8. i \notin rewritten => LookedAt(i, seen, FALSE)
    BY <1>4, <1>5, <1>7, <1>9, <1>14 DEF LookedAt
  <2>9. i \notin rewritten => LookedAt(i, seen, s.phase = "reap" \/ s.todo # src.todo)
    BY <2>5, <2>8 DEF LookedAt
  <2>12. /\ seen.committed \in {0, src.files[i].committed} /\ i \in s.tracked /\ seen.open
         /\ i \in s.seen => ~ seen.removed
         /\ seen.size = Size(i)
    BY <1>4, <1>5, <1>7, <1>9, <1>14, <2>5
  <2>10. Scanned(s, emitted)
    BY <1>1, <1>3, <1>4, <1>9, <2>5, <2>6, <2>7, <2>9, <2>12, OneFile
  <2>11. src' = s /\ UNCHANGED <<emitted, accepted>>
    BY <1>3, <1>6, <1>8, <1>14, <2>3 DEF Drain
  <2> QED BY <1>1, <1>2, <2>10, <2>11, QuietScan
<1> QED BY <1>12, <1>13, <1>14

\* A read that leaves f as the entry of the file.
LEMMA ReadOn ==
  ASSUME FileInv, src.phase = "read", NEW i, i = Head(src.todo), NEW f \in EntryRecord,
         f.open, f.committed = src.files[i].committed, f.size = src.files[i].size,
         f.removed = src.files[i].removed,
         GroupOf(f), NEW em, emitted \subseteq em,
         i \notin rewritten => /\ conf.start = "beginning" => PassedBy(i, f, em)
                               /\ f.partial = 1 => f.offset < Size(i),
         NEW s, s = [src EXCEPT !.files[i] = f, !.reads = @ \union {i}]
  PROVE  Scanned(s, em)
<1>1. src.todo # <<>>
  BY DEF FileInv, Listed
<1>2. /\ i \in Inodes /\ Size(i) \in Nat /\ i \in src.tracked
      /\ src \in SrcRecord /\ src.files \in [Inodes -> EntryRecord]
      /\ i \notin rewritten => LookedAt(i, src.files[i], FALSE)
      /\ i \in src.seen => ~ f.removed
  BY <1>1, AtFile
<1>3. s \in SrcRecord /\ s.files = [src.files EXCEPT ![i] = f] /\ s.phase = "read"
      /\ s.todo = src.todo /\ s.tracked = src.tracked /\ s.seen = src.seen
      /\ s.failed = src.failed /\ s.legacy = src.legacy /\ s.nextSeq = src.nextSeq
      /\ s.pending = src.pending /\ s.carry = src.carry
  BY <1>2 DEF SrcRecord
<1>4. i \notin rewritten => LookedAt(i, f, FALSE)
  BY <1>2 DEF LookedAt
<1>5. i \notin rewritten => LookedAt(i, f, s.phase = "reap" \/ s.todo # src.todo)
  BY <1>3, <1>4 DEF LookedAt
<1>6. /\ f.committed \in {0, src.files[i].committed} /\ i \in s.tracked
      /\ conf.eof = "stop" => f.size = Size(i)
  BY <1>2, <1>3 DEF FileInv, Batched
<1> QED BY <1>1, <1>2, <1>3, <1>5, <1>6, OneFile

\* The end of a file, reached with f as its entry.
LEMMA LeaveFile ==
  ASSUME FileInv, src.phase = "read", NEW i, i = Head(src.todo), NEW f \in EntryRecord,
         f.committed = src.files[i].committed, f.size = src.files[i].size,
         GroupOf(f), NEW em, emitted \subseteq em,
         i \notin rewritten => /\ conf.start = "beginning" => PassedBy(i, f, em)
                               /\ LookedAt(i, f, TRUE),
         conf.eof = "stop" => f.group = {}, f.removed = src.files[i].removed,
         NEW s, s = Drained(src, i, f)
  PROVE  Scanned(s, em)
<1>1. src.todo # <<>>
  BY DEF FileInv, Listed
<1>2. /\ i \in Inodes /\ Size(i) \in Nat /\ i \in src.tracked
      /\ src \in SrcRecord /\ src.files \in [Inodes -> EntryRecord]
      /\ i \in src.seen => ~ f.removed
  BY <1>1, AtFile
<1>3. Tail(src.todo) \in Seq(Inodes \cup Paths)
  BY <1>1, <1>2, SrcFields, HeadOf
<1>4. s \in SrcRecord /\ s.files = [src.files EXCEPT ![i] = f] /\ s.phase = "drain"
      /\ s.todo = Tail(src.todo) /\ s.tracked = src.tracked /\ s.seen = src.seen
      /\ s.failed = src.failed /\ s.legacy = src.legacy /\ s.nextSeq = src.nextSeq
      /\ s.pending = src.pending /\ s.carry = src.carry
  BY <1>2, <1>3 DEF SrcRecord, Phases, Drained
<1>5. i \notin rewritten => LookedAt(i, f, s.phase = "reap" \/ s.todo # src.todo)
  BY DEF LookedAt
<1>6. /\ f.committed \in {0, src.files[i].committed} /\ i \in s.tracked
      /\ conf.eof = "stop" => f.size = Size(i)
  BY <1>2, <1>4 DEF FileInv, Batched
<1> QED BY <1>1, <1>2, <1>4, <1>5, <1>6, OneFile

\* The entry e of a file after the line that followed the read position of o.
SteppedOver(e, o) ==
  /\ e.open = o.open /\ e.offset = o.offset + 1 /\ e.partial = 0 /\ e.committed = o.committed
  /\ e.size = o.size /\ e.removed = o.removed /\ e.group = o.group /\ e.lines = o.lines
  /\ e.end = o.end

\* The line c of file i, whose entry is o, is the next one.
Passing(i, o, c) ==
  /\ src.phase = "read" /\ i = Head(src.todo) /\ o = src.files[i]
  /\ o.offset + 1 <= Size(i) /\ c = disk.data[i][o.offset + 1]

\* A line that was passed is dropped, emitted, or joined to a group; a group it does not
\* join is flushed.
LEMMA FeedStep ==
  ASSUME FileInv, Quiet, Spent, NEW i, NEW o, NEW c, Passing(i, o, c),
         NEW e \in EntryRecord, SteppedOver(e, o), feedLine(e, i, c)
  PROVE  FileInv'
<1>1. src.todo # <<>> /\ src.phase # "ended" /\ src.phase = "read" /\ i = Head(src.todo)
      /\ o = src.files[i]
  BY DEF FileInv, Listed, Passing
<1>2. /\ i \in Inodes /\ o \in EntryRecord /\ Size(i) \in Nat /\ o.open /\ GroupOf(o)
      /\ i \notin rewritten /\ conf.start = "beginning" => PassedBy(i, o, emitted)
  BY <1>1, AtFile
<1>3. o.offset \in Nat /\ o.end \in Nat /\ o.lines \in Nat /\ o.group \subseteq Nat
      /\ e.offset = o.offset + 1 /\ e.offset \in Nat /\ o.end <= e.offset
  <2>1. o.offset \in Nat /\ o.end \in Nat /\ o.lines \in Nat /\ o.group \subseteq Nat
    BY <1>2, EntryFields
  <2>2. o.end <= o.offset
    BY <1>2 DEF GroupOf
  <2>3. e.offset = o.offset + 1
    BY DEF SteppedOver
  <2> QED BY <2>1, <2>2, <2>3
<1>4. c.n \in Nat
  <2>3. o.offset + 1 <= Size(i)
    BY DEF Passing
  <2>1. o.offset + 1 \in 1..Size(i)
    BY <1>2, <1>3, <2>3
  <2>2. c \in LineRecord
    BY <1>2, <2>1, DiskFields DEF FileInv, FileTypes, Passing
  <2> QED BY <2>2 DEF LineRecord
<1>5. ASSUME i \notin rewritten, conf.start = "beginning"
      PROVE  /\ e.offset <= Size(i)
             /\ \A k \in 1..e.offset :
                  \/ disk.data[i][k] = c
                  \/ disk.data[i][k].n \in emitted \/ disk.data[i][k].k = "drop"
                  \/ disk.data[i][k].n \in o.group
  <2>1. PassedBy(i, o, emitted)
    BY <1>2, <1>5
  <2>2. ASSUME NEW k \in 1..e.offset PROVE k = o.offset + 1 \/ k \in 1..o.offset
    BY <1>3, <2>2
  <2>3. e.offset <= Size(i) /\ c = disk.data[i][o.offset + 1]
    BY <1>3 DEF Passing
  <2> QED BY <2>1, <2>2, <2>3 DEF PassedBy
<1>6. CASE c.k = "drop"
  <2>1. PICK s : s = [src EXCEPT !.files[i] = e, !.reads = @ \union {i}]
    OBVIOUS
  <2>2. src' = s /\ UNCHANGED <<emitted, accepted>>
    BY <1>6, <2>1 DEF feedLine
  <2>3. GroupOf(e)
    BY <1>2, <1>3 DEF GroupOf, SteppedOver
  <2>4. i \notin rewritten /\ conf.start = "beginning" => PassedBy(i, e, emitted)
    BY <1>5, <1>6 DEF PassedBy, SteppedOver
  <2>5. Scanned(s, emitted)
    <3>7. /\ e.open /\ e.committed = src.files[i].committed
          /\ e.size = src.files[i].size /\ e.removed = src.files[i].removed
      BY <1>1, <1>2 DEF SteppedOver
    <3>8. e.partial = 0
      BY <1>1 DEF SteppedOver
    <3>9. i \notin rewritten => /\ conf.start = "beginning" => PassedBy(i, e, emitted)
                                /\ e.partial = 1 => e.offset < Size(i)
      BY <2>4, <3>8
    <3> QED BY <1>1, <2>1, <2>3, <3>7, <3>9, ReadOn
  <2> QED BY <1>1, <2>2, <2>5, QuietScan
<1>7. CASE c.k # "drop" /\ ~ conf.multi
  <2>1. PICK s : s = [src EXCEPT !.files[i] = e, !.reads = @ \union {i}]
    OBVIOUS
  <2>2. Emit(s, i, {c.n}, e.offset)
    BY <1>7, <2>1 DEF feedLine
  <2>3. GroupOf(e) /\ o.group = {}
    BY <1>2, <1>3, <1>7 DEF GroupOf, SteppedOver
  <2>4. i \notin rewritten /\ conf.start = "beginning" =>
          PassedBy(i, e, emitted \cup {c.n})
    BY <1>5, <2>3 DEF PassedBy
  <2>5. Scanned(s, emitted \cup {c.n})
    <3>1. emitted \subseteq emitted \cup {c.n}
      OBVIOUS
    <3>7. /\ e.open /\ e.committed = src.files[i].committed
          /\ e.size = src.files[i].size /\ e.removed = src.files[i].removed
      BY <1>1, <1>2 DEF SteppedOver
    <3>8. e.partial = 0
      BY <1>1 DEF SteppedOver
    <3>9. i \notin rewritten => /\ conf.start = "beginning" => PassedBy(i, e, emitted \cup {c.n})
                                /\ e.partial = 1 => e.offset < Size(i)
      BY <2>4, <3>8
    <3> QED BY <1>1, <2>1, <2>3, <3>1, <3>7, <3>9, ReadOn
  <2>6. conf.start = "beginning" /\ i \notin rewritten =>
          /\ e.offset <= Size(i)
          /\ \A k \in 1..e.offset : Settled(disk.data[i][k]) \/ disk.data[i][k].n \in {c.n}
    BY <1>5, <2>3 DEF Settled
  <2>7. {c.n} \in SUBSET Nat
    BY <1>4
  <2> QED BY <1>1, <1>2, <1>3, <2>2, <2>5, <2>6, <2>7, EmitScan
<1>8. CASE /\ c.k # "drop" /\ conf.multi
           /\ c.k = "cont" /\ e.group # {} /\ e.lines < conf.maxLines
  <2>1. PICK f : f = [e EXCEPT !.group = @ \union {c.n}, !.lines = @ + 1, !.end = e.offset]
    OBVIOUS
  <2>2. /\ f \in EntryRecord /\ f.open = o.open /\ f.offset = e.offset /\ f.partial = 0
        /\ f.committed = o.committed /\ f.size = o.size /\ f.removed = o.removed
        /\ f.group = o.group \cup {c.n} /\ f.end = e.offset
    <3>1. o.group \cup {c.n} \in SUBSET Nat /\ o.lines + 1 \in Nat
      BY <1>3, <1>4
    <3>2. f = [e EXCEPT !.group = o.group \cup {c.n}, !.lines = o.lines + 1, !.end = e.offset]
      BY <2>1 DEF SteppedOver
    <3> QED BY <1>3, <3>1, <3>2 DEF EntryRecord, SteppedOver
  <2>3. PICK s : s = [src EXCEPT !.files[i] = f, !.reads = @ \union {i}]
    OBVIOUS
  <2>4. src' = s /\ UNCHANGED <<emitted, accepted>>
    BY <1>8, <2>1, <2>3 DEF feedLine
  <2>5. GroupOf(f)
    BY <1>2, <1>3, <1>8, <2>2 DEF GroupOf
  <2>6. i \notin rewritten /\ conf.start = "beginning" => PassedBy(i, f, emitted)
    BY <1>5, <2>2 DEF PassedBy
  <2>7. Scanned(s, emitted)
    <3>7. /\ f.open /\ f.committed = src.files[i].committed
          /\ f.size = src.files[i].size /\ f.removed = src.files[i].removed
      BY <1>1, <1>2, <2>2 DEF SteppedOver
    <3>8. f.partial = 0
      BY <2>2 DEF SteppedOver
    <3>9. i \notin rewritten => /\ conf.start = "beginning" => PassedBy(i, f, emitted)
                                /\ f.partial = 1 => f.offset < Size(i)
      BY <2>6, <3>8
    <3> QED BY <1>1, <2>2, <2>3, <2>5, <3>7, <3>9, ReadOn
  <2> QED BY <1>1, <2>4, <2>7, QuietScan
<1>9. CASE /\ c.k # "drop" /\ conf.multi
           /\ ~ (c.k = "cont" /\ e.group # {} /\ e.lines < conf.maxLines)
  <2>1. PICK f : f = [e EXCEPT !.group = {c.n}, !.lines = 1, !.end = e.offset]
    OBVIOUS
  <2>2. /\ f \in EntryRecord /\ f.open = o.open /\ f.offset = e.offset /\ f.partial = 0
        /\ f.committed = o.committed /\ f.size = o.size /\ f.removed = o.removed
        /\ f.group = {c.n} /\ f.end = e.offset
    <3>1. {c.n} \in SUBSET Nat /\ 1 \in Nat
      BY <1>4
    <3> QED BY <1>3, <2>1, <3>1 DEF EntryRecord, SteppedOver
  <2>3. PICK s : s = [src EXCEPT !.files[i] = f, !.reads = @ \union {i}]
    OBVIOUS
  <2>4. FlushGroup(s, i)
    BY <1>9, <2>1, <2>3 DEF feedLine
  <2>5. GroupOf(f)
    BY <1>2, <1>3, <1>9, <2>2 DEF GroupOf
  <2>6. i \notin rewritten /\ conf.start = "beginning" => PassedBy(i, f, emitted \cup o.group)
    BY <1>5, <2>2 DEF PassedBy
  <2>7. Scanned(s, emitted \cup o.group)
    <3>1. emitted \subseteq emitted \cup o.group
      OBVIOUS
    <3>7. /\ f.open /\ f.committed = src.files[i].committed
          /\ f.size = src.files[i].size /\ f.removed = src.files[i].removed
      BY <1>1, <1>2, <2>2 DEF SteppedOver
    <3>8. f.partial = 0
      BY <2>2 DEF SteppedOver
    <3>9. i \notin rewritten => /\ conf.start = "beginning" => PassedBy(i, f, emitted \cup o.group)
                                /\ f.partial = 1 => f.offset < Size(i)
      BY <2>6, <3>8
    <3> QED BY <1>1, <2>2, <2>3, <2>5, <3>1, <3>7, <3>9, ReadOn
  <2> QED BY <1>1, <1>2, <2>4, <2>7, FlushScan
<1> QED BY <1>6, <1>7, <1>8, <1>9

\* consumeLocked passes a line, or keeps its beginning as the partial.
LEMMA ReadStep ==
  ASSUME FileInv, Read
  PROVE  FileInv'
<1>1. src.phase = "read" /\ Quiet /\ left' = left
  BY DEF Read
<1>2. Spent
  BY <1>1, NothingSpent DEF FileInv
<1>3. PICK i : i = Head(src.todo)
  OBVIOUS
<1>4. PICK o : o = src.files[i]
  OBVIOUS
<1>5. src.todo # <<>> /\ src.phase # "ended"
  BY <1>1 DEF FileInv, Listed
<1>6. /\ i \in Inodes /\ o \in EntryRecord /\ Size(i) \in Nat /\ o.open /\ GroupOf(o)
      /\ i \notin rewritten /\ conf.start = "beginning" => PassedBy(i, o, emitted)
  BY <1>1, <1>3, <1>4, <1>5, AtFile
<1>7. o.offset \in Nat /\ o.offset + 1 <= Size(i) /\ o.offset + 1 \in 1..Size(i)
  <2>1. o.offset \in Nat
    BY <1>6, EntryFields
  <2>2. o.offset + 1 <= Size(i)
    BY <1>3, <1>4 DEF Read, Unread
  <2> QED BY <1>6, <2>1, <2>2
<1>8. PICK c : c = disk.data[i][o.offset + 1]
  OBVIOUS
<1>9. c.n \in Nat
  <2>1. c \in LineRecord
    BY <1>6, <1>7, <1>8, DiskFields DEF FileInv, FileTypes
  <2> QED BY <2>1 DEF LineRecord
<1>10. PICK t : t = Observed(o, c.n)
  OBVIOUS
<1>11. t \in Seq(Nat)
  <2>1. o.tail \in Seq(Nat)
    BY <1>6, EntryFields
  <2>2. Append(o.tail, c.n) \in Seq(Nat) /\ Append(o.tail, c.n) # <<>>
    BY <1>9, <2>1, AppendProperties
  <2>3. \A q \in Seq(Nat) : Len(q) > TailLines => Tail(q) \in Seq(Nat)
    <3>1. TailLines \in Nat
      BY FileAssumption
    <3> TAKE q \in Seq(Nat)
    <3> HAVE Len(q) > TailLines
    <3>2. q # <<>>
      BY <3>1, EmptySeq
    <3> QED BY <3>2, HeadTailProperties
  <2> QED BY <1>10, <2>1, <2>2, <2>3 DEF Observed
<1>12. PICK seen : seen = [o EXCEPT !.tail = t]
  OBVIOUS
<1>13. /\ seen \in EntryRecord /\ seen.open = o.open /\ seen.offset = o.offset
       /\ seen.committed = o.committed /\ seen.size = o.size /\ seen.removed = o.removed
       /\ seen.group = o.group /\ seen.lines = o.lines /\ seen.end = o.end
  BY <1>6, <1>11, <1>12 DEF EntryRecord
<1>14. CASE Whole(i, o.offset + 1)
  <2>1. PICK e : e = [seen EXCEPT !.offset = @ + 1, !.partial = 0]
    OBVIOUS
  <2>2. /\ e \in EntryRecord /\ e.open = o.open /\ e.offset = o.offset + 1 /\ e.partial = 0
        /\ e.committed = o.committed /\ e.size = o.size /\ e.removed = o.removed
        /\ e.group = o.group /\ e.lines = o.lines /\ e.end = o.end
    <3>1. o.offset + 1 \in Nat
      BY <1>7
    <3>2. e = [seen EXCEPT !.offset = o.offset + 1, !.partial = 0]
      BY <1>13, <2>1 DEF EntryRecord
    <3> QED BY <1>13, <3>1, <3>2 DEF EntryRecord
  <2>3. feedLine(e, i, c)
    BY <1>3, <1>4, <1>8, <1>10, <1>12, <1>14, <2>1 DEF Read
  <2> QED BY <1>1, <1>2, <1>3, <1>4, <1>7, <1>8, <2>2, <2>3, FeedStep DEF SteppedOver, Passing
<1>15. CASE ~ Whole(i, o.offset + 1)
  <2>1. PICK f : f = [seen EXCEPT !.partial = 1]
    OBVIOUS
  <2>2. /\ f \in EntryRecord /\ f.open = o.open /\ f.offset = o.offset
        /\ f.committed = o.committed /\ f.size = o.size /\ f.removed = o.removed
        /\ f.group = o.group /\ f.end = o.end
    BY <1>13, <2>1 DEF EntryRecord
  <2>3. PICK s : s = [src EXCEPT !.files[i] = f, !.reads = @ \union {i}]
    OBVIOUS
  <2>4. src' = s /\ UNCHANGED <<emitted, accepted>>
    BY <1>3, <1>4, <1>8, <1>10, <1>12, <1>15, <2>1, <2>3 DEF Read
  <2>5. GroupOf(f) /\ o.offset < Size(i)
    BY <1>6, <1>7, <2>2 DEF GroupOf
  <2>6. i \notin rewritten /\ conf.start = "beginning" => PassedBy(i, f, emitted)
    BY <1>6, <2>2 DEF PassedBy
  <2>7. Scanned(s, emitted)
    BY <1>1, <1>3, <1>4, <1>6, <2>2, <2>3, <2>5, <2>6, ReadOn
  <2> QED BY <1>1, <1>2, <1>5, <2>4, <2>7, QuietScan
<1> QED BY <1>14, <1>15

\* The unterminated last line of a batch file is fed.
LEMMA FinalStep ==
  ASSUME FileInv, FinalLine
  PROVE  FileInv'
<1>1. src.phase = "read" /\ Quiet /\ left' = left /\ conf.eof = "stop" /\ rewritten = {}
  BY DEF FinalLine, FileInv
<1>2. Spent
  BY <1>1, NothingSpent DEF FileInv
<1>3. PICK i : i = Head(src.todo)
  OBVIOUS
<1>4. PICK o : o = src.files[i]
  OBVIOUS
<1>5. src.todo # <<>> /\ src.phase # "ended"
  BY <1>1 DEF FileInv, Listed
<1>6. /\ i \in Inodes /\ o \in EntryRecord /\ Size(i) \in Nat /\ LookedAt(i, o, FALSE)
      /\ o.partial = 1
  <2>1. o.partial = 1
    BY <1>3, <1>4 DEF FinalLine
  <2> QED BY <1>1, <1>3, <1>4, <1>5, <2>1, AtFile
<1>7. o.offset \in Nat /\ o.offset + 1 <= Size(i)
  BY <1>6, EntryFields DEF LookedAt
<1>8. PICK c : c = disk.data[i][o.offset + 1]
  OBVIOUS
<1>9. PICK e : e = [o EXCEPT !.offset = @ + 1, !.partial = 0]
  OBVIOUS
<1>10. /\ e \in EntryRecord /\ e.open = o.open /\ e.offset = o.offset + 1 /\ e.partial = 0
       /\ e.committed = o.committed /\ e.size = o.size /\ e.removed = o.removed
       /\ e.group = o.group /\ e.lines = o.lines /\ e.end = o.end
  <2>1. o.offset + 1 \in Nat
    BY <1>7
  <2> QED BY <1>6, <1>9, <2>1 DEF EntryRecord
<1>11. feedLine(e, i, c)
  BY <1>3, <1>4, <1>8, <1>9 DEF FinalLine
<1> QED BY <1>1, <1>2, <1>3, <1>4, <1>7, <1>8, <1>10, <1>11, FeedStep DEF SteppedOver, Passing

\* The fields of an entry whose group was taken out, and of one that was closed.
LEMMA NoGroupFields ==
  ASSUME NEW e \in EntryRecord, NEW f, f = NoGroup(e)
  PROVE  /\ f \in EntryRecord /\ f.path = e.path /\ f.open = e.open /\ f.offset = e.offset
         /\ f.committed = e.committed /\ f.partial = e.partial /\ f.size = e.size
         /\ f.stamp = e.stamp /\ f.removed = e.removed /\ f.reopen = e.reopen /\ f.tail = e.tail
         /\ f.group = {} /\ f.lines = 0 /\ f.end = 0
BY DEF NoGroup, EntryRecord

\* closeLocked keeps the read position, and leaves no group and no partial.
LEMMA ClosedFields ==
  ASSUME NEW e \in EntryRecord, NEW f, f = Closed(e)
  PROVE  /\ f \in EntryRecord /\ f.path = e.path /\ ~ f.open /\ f.offset = e.offset
         /\ f.committed = e.committed /\ f.partial = 0 /\ f.size = e.size
         /\ f.removed = e.removed /\ f.reopen = e.reopen /\ f.group = {} /\ f.end = 0
<1>1. PICK g : g = NoGroup(e)
  OBVIOUS
<1>2. /\ g \in EntryRecord /\ g.path = e.path /\ g.offset = e.offset
      /\ g.committed = e.committed /\ g.size = e.size /\ g.removed = e.removed
      /\ g.reopen = e.reopen /\ g.tail = e.tail /\ g.group = {} /\ g.end = 0
  BY <1>1, NoGroupFields
<1>3. PICK t : t = IF e.partial = 1 /\ g.tail # <<>> THEN SubSeq(g.tail, 1, Len(g.tail) - 1) ELSE g.tail
  OBVIOUS
<1>4. t \in Seq(Nat)
  <2>1. g.tail \in Seq(Nat) /\ Len(g.tail) \in Nat
    BY <1>2, EntryFields, LenProperties
  <2>2. SubSeq(g.tail, 1, Len(g.tail) - 1) \in Seq(Nat)
    <3>1. 1 \in Int /\ Len(g.tail) - 1 \in Int
      BY <2>1
    <3>2. \A k \in 1..(Len(g.tail) - 1) : g.tail[k] \in Nat
      BY <2>1, ElementOfSeq
    <3> QED BY <3>1, <3>2, SubSeqProperties
  <2> QED BY <1>3, <2>1, <2>2
<1>5. f = [g EXCEPT !.open = FALSE, !.partial = 0, !.tail = t]
  BY <1>1, <1>2, <1>3 DEF Closed, EntryRecord
<1> QED BY <1>2, <1>4, <1>5 DEF EntryRecord

\* A file was read to its end and is left.
LEMMA AtEOFStep ==
  ASSUME FileInv, AtEOF
  PROVE  FileInv'
<1>1. src.phase = "read" /\ Quiet /\ left' = left
  BY DEF AtEOF
<1>2. Spent
  BY <1>1, NothingSpent DEF FileInv
<1>3. PICK i : i = Head(src.todo)
  OBVIOUS
<1>4. PICK o : o = src.files[i]
  OBVIOUS
<1>5. src.todo # <<>> /\ src.phase # "ended"
  BY <1>1 DEF FileInv, Listed
<1>6. /\ i \in Inodes /\ o \in EntryRecord /\ Size(i) \in Nat /\ o.open /\ GroupOf(o)
      /\ i \in src.tracked
      /\ i \notin rewritten /\ conf.start = "beginning" => PassedBy(i, o, emitted)
      /\ i \notin rewritten => LookedAt(i, o, FALSE)
  BY <1>1, <1>3, <1>4, <1>5, AtFile
<1>7. o.offset \in Nat /\ o.size \in Nat /\ o.partial \in {0, 1}
  BY <1>6, EntryFields
<1>8. ~ Unread(i) /\ ~ (conf.eof = "stop" /\ o.partial = 1)
  BY <1>3, <1>4 DEF AtEOF
<1>9. Size(i) <= o.offset + 1 /\ (o.partial = 0 => Size(i) <= o.offset)
  <2>1. ~ (o.offset + 1 <= Size(i)) \/ (o.partial = 1 /\ ~ Whole(i, o.offset + 1))
    BY <1>4, <1>8 DEF Unread
  <2>2. ~ Whole(i, o.offset + 1) => o.offset + 1 = Size(i)
    BY DEF Whole
  <2> QED BY <1>6, <1>7, <2>1, <2>2
<1>10. i \notin rewritten => LookedAt(i, o, TRUE)
  BY <1>6, <1>7, <1>9 DEF LookedAt
<1>11. CASE FlushGroup(Drained(src, i, NoGroup(o)), i)
  <2>1. PICK f : f = NoGroup(o)
    OBVIOUS
  <2>2. /\ f \in EntryRecord /\ f.open = o.open /\ f.offset = o.offset
        /\ f.committed = o.committed /\ f.partial = o.partial /\ f.size = o.size
        /\ f.removed = o.removed /\ f.reopen = o.reopen /\ f.group = {} /\ f.end = 0
    BY <1>6, <2>1, NoGroupFields
  <2>3. PICK s : s = Drained(src, i, f)
    OBVIOUS
  <2>4. GroupOf(f) /\ emitted \subseteq emitted \cup o.group
    BY <1>7, <2>2 DEF GroupOf
  <2>5. i \notin rewritten => /\ conf.start = "beginning" => PassedBy(i, f, emitted \cup o.group)
                              /\ LookedAt(i, f, TRUE)
    BY <1>6, <1>10, <2>2 DEF PassedBy, LookedAt
  <2>6. Scanned(s, emitted \cup o.group)
    BY <1>1, <1>3, <1>4, <2>2, <2>3, <2>4, <2>5, LeaveFile
  <2>7. FlushGroup(s, i)
    BY <1>11, <2>1, <2>3
  <2> QED BY <1>1, <1>2, <1>4, <1>5, <1>6, <2>6, <2>7, FlushScan
<1>12. CASE /\ ~ (o.partial = 0 /\ o.offset >= o.size /\ (conf.eof = "stop" \/ o.removed))
               \/ o.group = {}
            /\ src' = Drained(src, i, o) /\ UNCHANGED <<emitted, accepted>>
  <2>1. PICK s : s = Drained(src, i, o)
    OBVIOUS
  <2>2. ASSUME conf.eof = "stop" PROVE o.group = {}
    <3>1. o.size = Size(i)
      BY <1>4, <1>6, <2>2 DEF FileInv, Batched
    <3>2. o.partial = 0 /\ o.offset >= o.size
      BY <1>6, <1>7, <1>8, <1>9, <2>2, <3>1
    <3> QED BY <1>12, <2>2, <3>2
  <2>3. Scanned(s, emitted)
    BY <1>1, <1>3, <1>4, <1>6, <1>10, <2>1, <2>2, LeaveFile
  <2> QED BY <1>1, <1>2, <1>5, <1>12, <2>1, <2>3, QuietScan
<1> QED BY <1>3, <1>4, <1>11, <1>12 DEF AtEOF

\* A read error flushes and closes the file, and has it opened again.
LEMMA ReadErrorStep ==
  ASSUME FileInv, ReadError
  PROVE  FileInv'
<1>1. src.phase = "read" /\ Quiet /\ left.faults > 0 /\ Used("faults")
  BY DEF ReadError
<1>2. Spent
  BY <1>1, FaultSpent DEF FileInv
<1>3. PICK i : i = Head(src.todo)
  OBVIOUS
<1>4. PICK o : o = src.files[i]
  OBVIOUS
<1>5. src.todo # <<>> /\ src.phase # "ended"
  BY <1>1 DEF FileInv, Listed
<1>6. /\ i \in Inodes /\ o \in EntryRecord /\ Size(i) \in Nat
      /\ i \notin rewritten /\ conf.start = "beginning" => PassedBy(i, o, emitted)
      /\ i \notin rewritten => LookedAt(i, o, FALSE)
  BY <1>1, <1>3, <1>4, <1>5, AtFile
<1>7. PICK g : g = Closed(o)
  OBVIOUS
<1>8. PICK f : f = [g EXCEPT !.reopen = TRUE]
  OBVIOUS
<1>9. /\ f \in EntryRecord /\ ~ f.open /\ f.reopen /\ f.offset = o.offset
      /\ f.committed = o.committed /\ f.partial = 0 /\ f.size = o.size
      /\ f.removed = o.removed /\ f.group = {} /\ f.end = 0
  <2>1. /\ g \in EntryRecord /\ ~ g.open /\ g.offset = o.offset
        /\ g.committed = o.committed /\ g.partial = 0 /\ g.size = o.size
        /\ g.removed = o.removed /\ g.group = {} /\ g.end = 0
    BY <1>6, <1>7, ClosedFields
  <2> QED BY <1>8, <2>1 DEF EntryRecord
<1>10. PICK s : s = Drained(src, i, f)
  OBVIOUS
<1>11. GroupOf(f) /\ emitted \subseteq emitted \cup o.group
  BY <1>6, <1>9, EntryFields DEF GroupOf
<1>12. i \notin rewritten => /\ conf.start = "beginning" => PassedBy(i, f, emitted \cup o.group)
                             /\ LookedAt(i, f, TRUE)
  BY <1>6, <1>9 DEF PassedBy, LookedAt
<1>13. Scanned(s, emitted \cup o.group)
  BY <1>1, <1>3, <1>4, <1>9, <1>10, <1>11, <1>12, LeaveFile
<1>14. FlushGroup(s, i)
  BY <1>3, <1>4, <1>7, <1>8, <1>10 DEF ReadError
<1> QED BY <1>1, <1>2, <1>4, <1>5, <1>6, <1>13, <1>14, FlushScan

\* The fields of the entry of a file that is not tracked.
LEMMA NoEntryFields ==
  /\ NoEntry \in EntryRecord /\ ~ NoEntry.open /\ NoEntry.offset = 0 /\ NoEntry.committed = 0
  /\ NoEntry.partial = 0 /\ NoEntry.size = 0 /\ ~ NoEntry.removed /\ NoEntry.group = {}
  /\ NoEntry.end = 0 /\ NoEntry.path = "log" /\ NoEntry.tail = <<>> /\ ~ NoEntry.reopen
<1>1. <<>> \in Seq(Nat)
  BY EmptySeq
<1> QED BY <1>1 DEF NoEntry, EntryRecord, Paths

\* A file is forgotten.
LEMMA ForgottenFields ==
  ASSUME NEW t \in SrcRecord, NEW i \in Inodes, NEW s, s = Forgotten(t, i)
  PROVE  /\ s \in SrcRecord /\ s.files = [t.files EXCEPT ![i] = NoEntry]
         /\ s.tracked = t.tracked \ {i} /\ s.carry = [t.carry EXCEPT ![i] = 0]
         /\ s.phase = t.phase /\ s.todo = t.todo /\ s.seen = t.seen /\ s.failed = t.failed
         /\ s.legacy = t.legacy /\ s.nextSeq = t.nextSeq /\ s.pending = t.pending
<1>1. PICK b : b = [p \in Paths |-> IF t.byPath[p] = i /\ t.files[i].path = p
                                    THEN None ELSE t.byPath[p]]
  OBVIOUS
<1>2. b \in [Paths -> Inodes \cup {None}] /\ t.carry \in [Inodes -> Nat]
      /\ t.files \in [Inodes -> EntryRecord]
  BY <1>1, SrcFields
<1>3. PICK fs : fs = [t.files EXCEPT ![i] = NoEntry]
  OBVIOUS
<1>4. PICK cr : cr = [t.carry EXCEPT ![i] = 0]
  OBVIOUS
<1>5. PICK tr : tr = t.tracked \ {i}
  OBVIOUS
<1>6. PICK ig : ig = t.ignored \ {i}
  OBVIOUS
<1>7. fs \in [Inodes -> EntryRecord] /\ cr \in [Inodes -> Nat]
      /\ tr \subseteq Inodes /\ ig \subseteq Inodes
  BY <1>2, <1>3, <1>4, <1>5, <1>6, SrcFields, NoEntryFields
<1>8. s = [t EXCEPT !.tracked = tr, !.ignored = ig, !.carry = cr, !.files = fs, !.byPath = b]
  BY <1>1, <1>3, <1>4, <1>5, <1>6 DEF Forgotten, SrcRecord
<1>9. s \in SrcRecord
  BY <1>2, <1>7, <1>8 DEF SrcRecord
<1>10. /\ s.files = fs /\ s.tracked = tr /\ s.carry = cr
       /\ s.phase = t.phase /\ s.todo = t.todo /\ s.seen = t.seen /\ s.failed = t.failed
       /\ s.legacy = t.legacy /\ s.nextSeq = t.nextSeq /\ s.pending = t.pending
  BY <1>8 DEF SrcRecord
<1> QED BY <1>3, <1>4, <1>5, <1>9, <1>10

\* The next file of the list, with f as the entry of i.
Popped(i, f) == [src EXCEPT !.todo = Tail(@), !.files[i] = f]

\* reapLocked has dealt with a file and leaves f as its entry, or has forgotten it.
LEMMA ReapFile ==
  ASSUME FileInv, src.phase = "reap", src.todo # <<>>, NEW i, i = Head(src.todo),
         NEW f \in EntryRecord, f.committed = src.files[i].committed,
         f.size = src.files[i].size, f.removed = src.files[i].removed, GroupOf(f),
         f = src.files[i] \/ i \in src.tracked,
         NEW em, emitted \subseteq em,
         i \notin rewritten => /\ conf.start = "beginning" => PassedBy(i, f, em)
                               /\ LookedAt(i, f, TRUE),
         conf.eof = "stop" => f.group = {},
         NEW s, s = Popped(i, f),
         NEW z, z = s \/ (z = Forgotten(s, i) /\ src.files[i].removed)
  PROVE  Scanned(z, em)
<1>1. /\ i \in Inodes /\ Size(i) \in Nat
      /\ src \in SrcRecord /\ src.files \in [Inodes -> EntryRecord]
      /\ i \in src.seen => i \in src.tracked /\ ~ src.files[i].removed
  BY AtFile
<1>2. Tail(src.todo) \in Seq(Inodes \cup Paths)
  BY <1>1, SrcFields, HeadOf
<1>3. s \in SrcRecord /\ s.files = [src.files EXCEPT ![i] = f] /\ s.phase = "reap"
      /\ s.todo = Tail(src.todo) /\ s.tracked = src.tracked /\ s.seen = src.seen
      /\ s.failed = src.failed /\ s.legacy = src.legacy /\ s.nextSeq = src.nextSeq
      /\ s.pending = src.pending /\ s.carry = src.carry
  BY <1>1, <1>2 DEF SrcRecord, Popped
<1>4. CASE z = s
  <2>1. i \notin rewritten => LookedAt(i, f, s.phase = "reap" \/ s.todo # src.todo)
    BY DEF LookedAt
  <2>2. /\ f.committed \in {0, src.files[i].committed}
        /\ i \notin s.tracked => f = NoEntry
        /\ i \in s.seen => i \in s.tracked /\ ~ f.removed
        /\ conf.eof = "stop" => (i \in s.tracked => f.size = Size(i)) /\ f.group = {}
    BY <1>1, <1>3 DEF FileInv, Batched, Known
  <2>3. Scanned(s, em)
    BY <1>1, <1>3, <2>1, <2>2, OneFile
  <2> QED BY <1>4, <2>3
<1>5. CASE z = Forgotten(s, i) /\ src.files[i].removed
  <2>1. /\ z \in SrcRecord /\ z.files = [s.files EXCEPT ![i] = NoEntry]
        /\ z.tracked = s.tracked \ {i} /\ z.carry = [s.carry EXCEPT ![i] = 0]
        /\ z.phase = s.phase /\ z.todo = s.todo /\ z.seen = s.seen /\ z.failed = s.failed
        /\ z.legacy = s.legacy /\ z.nextSeq = s.nextSeq /\ z.pending = s.pending
    <3>1. s \in SrcRecord /\ i \in Inodes /\ z = Forgotten(s, i)
      BY <1>1, <1>3, <1>5
    <3> QED BY <3>1, ForgottenFields
  <2>2. z.files = [src.files EXCEPT ![i] = NoEntry]
    BY <1>1, <1>3, <2>1
  <2>3. GroupOf(NoEntry)
    BY NoEntryFields DEF GroupOf
  <2>4. PassedBy(i, NoEntry, em)
    BY <1>1, NoEntryFields DEF PassedBy
  <2>5. LookedAt(i, NoEntry, z.phase = "reap" \/ z.todo # src.todo)
    BY <1>1, NoEntryFields DEF LookedAt
  <2>6. /\ z.phase = "reap" /\ z.todo = Tail(src.todo) /\ z.tracked = src.tracked \ {i}
        /\ z.seen = src.seen /\ z.failed = src.failed /\ z.legacy = src.legacy
        /\ z.nextSeq = src.nextSeq /\ z.pending = src.pending
        /\ z.carry = [src.carry EXCEPT ![i] = 0] /\ i \notin z.tracked /\ i \notin z.seen
    BY <1>1, <1>3, <1>5, <2>1
  <2> QED BY <1>1, <2>1, <2>2, <2>3, <2>4, <2>5, <2>6, NoEntryFields, OneFile
<1> QED BY <1>4, <1>5

\* reapLocked keeps, closes or forgets the next file.
LEMMA ReapStep ==
  ASSUME FileInv, Reap
  PROVE  FileInv'
<1>1. src.phase = "reap" /\ src.todo # <<>> /\ src.phase # "ended" /\ Quiet /\ left' = left
  BY DEF Reap
<1>2. Spent
  BY <1>1, NothingSpent DEF FileInv
<1>3. PICK i : i = Head(src.todo)
  OBVIOUS
<1>4. PICK o : o = src.files[i]
  OBVIOUS
<1>5. /\ i \in Inodes /\ o \in EntryRecord /\ Size(i) \in Nat /\ GroupOf(o)
      /\ src \in SrcRecord /\ src.files \in [Inodes -> EntryRecord]
      /\ i \notin rewritten /\ conf.start = "beginning" => PassedBy(i, o, emitted)
      /\ i \notin rewritten => LookedAt(i, o, TRUE)
  <2>1. i \notin rewritten => LookedAt(i, o, src.phase = "reap")
    BY <1>1, <1>3, <1>4, AtFile
  <2>2. i \notin rewritten => LookedAt(i, o, TRUE)
    BY <1>1, <2>1 DEF LookedAt
  <2> QED BY <1>1, <1>3, <1>4, <2>2, AtFile
<1>6. conf.eof = "stop" => o.group = {}
  BY <1>1, <1>4, <1>5 DEF FileInv, Flushed
<1>7. PICK s : s = [src EXCEPT !.todo = Tail(@)]
  OBVIOUS
<1>8. s = Popped(i, o)
  BY <1>4, <1>5, <1>7 DEF SrcRecord, Popped
<1>9. \A z : z = s \/ (z = Forgotten(s, i) /\ o.removed) => Scanned(z, emitted)
  BY <1>1, <1>3, <1>4, <1>5, <1>6, <1>8, ReapFile
<1>10. CASE ~ o.open
  <2>1. PICK z : z = IF o.removed /\ conf.clean THEN Forgotten(s, i) ELSE s
    OBVIOUS
  <2>2. src' = z /\ UNCHANGED <<emitted, accepted>>
    BY <1>3, <1>4, <1>7, <1>10, <2>1 DEF Reap
  <2>3. Scanned(z, emitted)
    BY <1>9, <2>1
  <2> QED BY <1>1, <1>2, <2>2, <2>3, QuietScan
<1>11. CASE o.open /\ src' = s /\ UNCHANGED <<emitted, accepted>>
  <2>1. Scanned(s, emitted)
    BY <1>9
  <2> QED BY <1>1, <1>2, <1>11, <2>1, QuietScan
<1>12. ASSUME NEW f, f = Closed(o), NEW t, t = [s EXCEPT !.files[i] = f], o.open,
              NEW z, z = IF o.removed /\ conf.clean THEN Forgotten(t, i) ELSE t,
              FlushGroup(z, i)
       PROVE  FileInv'
  <2>1. /\ f \in EntryRecord /\ f.path = o.path /\ ~ f.open /\ f.offset = o.offset
        /\ f.committed = o.committed /\ f.partial = 0 /\ f.size = o.size
        /\ f.removed = o.removed /\ f.reopen = o.reopen /\ f.group = {} /\ f.end = 0
    BY <1>5, <1>12, ClosedFields
  <2>2. GroupOf(f) /\ emitted \subseteq emitted \cup o.group
    BY <1>5, <2>1, EntryFields DEF GroupOf
  <2>3. i \notin rewritten => /\ conf.start = "beginning" => PassedBy(i, f, emitted \cup o.group)
                              /\ LookedAt(i, f, TRUE)
    BY <1>5, <1>12, <2>1 DEF PassedBy, LookedAt
  <2>4. t = Popped(i, f)
    BY <1>5, <1>7, <1>12 DEF SrcRecord, Popped
  <2>5. i \in src.tracked
    BY <1>4, <1>5, <1>12, NoEntryFields DEF FileInv, Known
  <2>6. z = t \/ (z = Forgotten(t, i) /\ o.removed)
    BY <1>12
  <2>7. Scanned(z, emitted \cup o.group)
    BY <1>1, <1>3, <1>4, <2>1, <2>2, <2>3, <2>4, <2>5, <2>6, ReapFile
  <2> QED BY <1>1, <1>2, <1>4, <1>5, <1>12, <2>7, FlushScan
<1>13. CASE /\ o.open
            /\ FlushGroup(IF o.removed /\ conf.clean THEN Forgotten([s EXCEPT !.files[i] = Closed(o)], i)
                          ELSE [s EXCEPT !.files[i] = Closed(o)], i)
  BY <1>12, <1>13
<1> QED BY <1>3, <1>4, <1>7, <1>10, <1>11, <1>13 DEF Reap

\* A step of a scan that leaves every entry as it is.
LEMMA SameFiles ==
  ASSUME FileInv, src.phase \notin {"ended", "read"}, NEW s \in SrcRecord,
         s.files = src.files, s.tracked = src.tracked, s.carry = src.carry,
         s.legacy = src.legacy, s.nextSeq = src.nextSeq, s.pending = src.pending,
         s.phase \notin {"done", "down", "read"}, Listed(s),
         \A i \in Inodes : src.files[i].open /\ IsDrained(s, i) => IsDrained(src, i),
         s.seen \subseteq s.tracked,
         \A i \in s.seen : \/ s.phase = "drain" /\ InTodo(s, i)
                           \/ s.phase \notin {"drain", "reap"}
                           \/ ~ s.files[i].removed,
         conf.eof = "stop" /\ s.phase \in InScan /\ "log" \in conf.glob =>
           \/ "log" \in s.failed \/ Min(Inodes) \in s.seen
           \/ s.phase = "discover" /\ InTodo(s, "log")
  PROVE  Scanned(s, emitted)
<1>1. Resumable(s)
  BY DEF FileInv, Resumable
<1>2. Grouped(s)
  BY DEF FileInv, Grouped
<1>3. Known(s)
  BY DEF FileInv, Known
<1>4. Batched(s)
  BY DEF FileInv, Batched
<1>5. Passed(s, emitted)
  BY DEF FileInv, Passed
<1>6. Looked(s)
  <2> SUFFICES ASSUME NEW i \in Inodes \ rewritten
               PROVE  LookedAt(i, s.files[i], IsDrained(s, i))
    BY DEF Looked
  <2>1. LookedAt(i, src.files[i], IsDrained(src, i))
    BY DEF FileInv, Looked
  <2>2. src.files[i].open /\ IsDrained(s, i) => IsDrained(src, i)
    OBVIOUS
  <2> QED BY <2>1, <2>2 DEF LookedAt
<1>7. Flushed(s)
  BY DEF FileInv, Flushed
<1> QED BY <1>1, <1>2, <1>3, <1>4, <1>5, <1>6, <1>7 DEF Scanned

\* A scan begins with the paths that match, or ends Run.
LEMMA PollStep ==
  ASSUME FileInv, Poll
  PROVE  FileInv'
<1>1. /\ src.phase = "idle" /\ Quiet /\ left' = left /\ UNCHANGED <<emitted, accepted>>
      /\ src \in SrcRecord /\ conf \in FileSetups /\ disk \in DiskRecord
  BY DEF Poll, FileInv, FileTypes
<1>2. Spent
  BY <1>1, NothingSpent DEF FileInv
<1>3. PICK m : m = Match("log") \o Match("log.1")
  OBVIOUS
<1>4. m \in Seq(Paths) /\ m \in Seq(Inodes \cup Paths)
      /\ (Match("log") = <<"log">> => \E k \in 1..Len(m) : m[k] = "log")
  <2>1. Match("log") \in Seq(Paths) /\ Match("log.1") \in Seq(Paths)
    <3>1. "log" \in Paths /\ "log.1" \in Paths
      BY DEF Paths
    <3>2. <<"log">> \in Seq(Paths) /\ <<"log.1">> \in Seq(Paths) /\ <<>> \in Seq(Paths)
      BY <3>1
    <3> QED BY <3>2 DEF Match
  <2>2. m \in Seq(Paths) /\ Len(m) = Len(Match("log")) + Len(Match("log.1"))
        /\ \A k \in 1..Len(Match("log")) : m[k] = Match("log")[k]
    BY <1>3, <2>1, ConcatProperties
  <2>3. ASSUME Match("log") = <<"log">> PROVE \E k \in 1..Len(m) : m[k] = "log"
    <3>1. Len(Match("log")) = 1 /\ Match("log")[1] = "log" /\ Len(Match("log.1")) \in Nat
      BY <2>1, <2>3, LenProperties
    <3>2. 1 \in 1..Len(m) /\ m[1] = "log"
      BY <2>2, <3>1
    <3> QED BY <3>2
  <2>4. m \in Seq(Inodes \cup Paths)
    <3>1. \A k \in 1..Len(m) : m[k] \in Inodes \cup Paths
      BY <2>2, ElementOfSeq
    <3> QED BY <2>2, <3>1, SeqMonotonic
  <2> QED BY <2>2, <2>3, <2>4
<1>5. CASE src' = [src EXCEPT !.phase = "ended"]
  <2>1. PICK s : s = [src EXCEPT !.phase = "ended"]
    OBVIOUS
  <2>2. /\ s \in SrcRecord /\ s.files = src.files /\ s.tracked = src.tracked
        /\ s.carry = src.carry /\ s.legacy = src.legacy /\ s.nextSeq = src.nextSeq
        /\ s.pending = src.pending /\ s.phase = "ended" /\ s.seen = src.seen
    BY <1>1, <2>1 DEF SrcRecord, Phases
  <2>3. Listed(s) /\ (\A i \in Inodes : ~ IsDrained(s, i)) /\ s.phase \notin InScan
    BY <2>2 DEF Listed, IsDrained, InScan
  <2>4. s.seen \subseteq s.tracked
    BY <2>2 DEF FileInv, Known
  <2>5. Scanned(s, emitted)
    BY <1>1, <2>2, <2>3, <2>4, SameFiles
  <2> QED BY <1>1, <1>2, <1>5, <2>1, <2>5, QuietScan
<1>6. CASE src' = [src EXCEPT !.phase = "discover", !.todo = m, !.seen = {},
                              !.failed = {}, !.reads = {}, !.em = FALSE]
  <2>1. PICK s : s = [src EXCEPT !.phase = "discover", !.todo = m, !.seen = {},
                              !.failed = {}, !.reads = {}, !.em = FALSE]
    OBVIOUS
  <2>2. s \in SrcRecord
    BY <1>1, <1>4, <2>1 DEF SrcRecord, Phases
  <2>3. /\ s.files = src.files /\ s.tracked = src.tracked
        /\ s.carry = src.carry /\ s.legacy = src.legacy /\ s.nextSeq = src.nextSeq
        /\ s.pending = src.pending /\ s.phase = "discover" /\ s.seen = {} /\ s.todo = m
    BY <1>1, <2>1 DEF SrcRecord
  <2>4. Listed(s) /\ (\A i \in Inodes : ~ IsDrained(s, i))
    BY <1>4, <2>3 DEF Listed, IsDrained
  <2>5. ASSUME conf.eof = "stop", "log" \in conf.glob PROVE InTodo(s, "log")
    <3>1. disk.at["log"] = Min(Inodes)
      BY <1>1, <2>5, ConfFields DEF FileInv, Legacy, Paths
    <3>2. disk.at["log"] # None
      BY <3>1, FirstInode, FileAssumption
    <3>3. Match("log") = <<"log">>
      BY <2>5, <3>2 DEF Match
    <3> QED BY <1>4, <2>3, <3>3 DEF InTodo
  <2>6. Scanned(s, emitted)
    BY <1>1, <2>2, <2>3, <2>4, <2>5, SameFiles
  <2> QED BY <1>1, <1>2, <1>6, <2>1, <2>6, QuietScan
<1> QED BY <1>3, <1>5, <1>6 DEF Poll

\* A sequence of the files of S that leaves none out.
LEMMA OrderOf ==
  ASSUME NEW S \in SUBSET Inodes, NEW ids \in Orders(S)
  PROVE  /\ ids \in Seq(S) /\ ids \in Seq(Inodes) /\ ids \in Seq(Inodes \cup Paths)
         /\ \A i \in S : \E k \in 1..Len(ids) : ids[k] = i
<1>1. Cardinality(S) \in Nat
  BY FileAssumption, FS_Subset, FS_CardinalityType
<1>2. ids \in [1..Cardinality(S) -> S] /\ \A i \in S : \E k \in DOMAIN ids : ids[k] = i
  BY DEF Orders
<1>3. PICK n \in Nat : n = Cardinality(S)
  BY <1>1
<1>4. ids \in [1..n -> S]
  BY <1>2, <1>3
<1>5. ids \in Seq(S) /\ Len(ids) = n /\ DOMAIN ids = 1..n
  BY <1>4
<1>6. ids \in [1..n -> Inodes] /\ ids \in [1..n -> Inodes \cup Paths]
  BY <1>4
<1>7. ids \in Seq(Inodes) /\ ids \in Seq(Inodes \cup Paths)
  BY <1>6
<1> QED BY <1>2, <1>5, <1>7

\* Every path was looked at: the files are to be drained.
LEMMA DiscoveringStep ==
  ASSUME FileInv, Discovering
  PROVE  FileInv'
<1>1. /\ src.phase = "discover" /\ src.todo = <<>> /\ Quiet /\ left' = left
      /\ UNCHANGED <<emitted, accepted>> /\ src \in SrcRecord
  BY DEF Discovering, FileInv, FileTypes
<1>2. Spent
  BY <1>1, NothingSpent DEF FileInv
<1>3. PICK ids \in Orders(src.tracked) : src' = [src EXCEPT !.phase = "drain", !.todo = ids]
  BY DEF Discovering
<1>4. PICK s : s = [src EXCEPT !.phase = "drain", !.todo = ids]
  OBVIOUS
<1>5. src.tracked \in SUBSET Inodes
  BY <1>1, SrcFields
<1>6. /\ ids \in Seq(src.tracked) /\ ids \in Seq(Inodes \cup Paths)
      /\ \A i \in src.tracked : \E k \in 1..Len(ids) : ids[k] = i
  BY <1>5, OrderOf
<1>7. s \in SrcRecord
  BY <1>1, <1>4, <1>6 DEF SrcRecord, Phases
<1>8. /\ s.files = src.files /\ s.tracked = src.tracked /\ s.failed = src.failed
      /\ s.carry = src.carry /\ s.legacy = src.legacy /\ s.nextSeq = src.nextSeq
      /\ s.pending = src.pending /\ s.phase = "drain" /\ s.seen = src.seen /\ s.todo = ids
  BY <1>1, <1>4 DEF SrcRecord
<1>9. Listed(s) /\ \A i \in src.tracked : InTodo(s, i)
  BY <1>6, <1>8 DEF Listed, InTodo
<1>10. \A i \in Inodes : src.files[i].open => ~ IsDrained(s, i)
  <2>1. \A i \in Inodes : src.files[i].open => i \in src.tracked
    BY NoEntryFields DEF FileInv, Known
  <2> QED BY <1>8, <1>9, <2>1 DEF IsDrained
<1>11. s.seen \subseteq s.tracked
  BY <1>8 DEF FileInv, Known
<1>12. conf.eof = "stop" /\ "log" \in conf.glob =>
         "log" \in s.failed \/ Min(Inodes) \in s.seen
  <2>1. ~ InTodo(src, "log")
    BY <1>1, EmptySeq DEF InTodo
  <2> QED BY <1>1, <1>8, <2>1 DEF FileInv, Batched, InScan
<1>13. Scanned(s, emitted)
  BY <1>1, <1>7, <1>8, <1>9, <1>10, <1>11, <1>12, SameFiles
<1> QED BY <1>1, <1>2, <1>3, <1>4, <1>13, QuietScan

\* Every file was drained: the files are to be reaped, or the scan is over.
LEMMA ReapingStep ==
  ASSUME FileInv, Reaping
  PROVE  FileInv'
<1>1. /\ src.phase = "drain" /\ src.todo = <<>> /\ Quiet /\ left' = left
      /\ UNCHANGED <<emitted, accepted>> /\ src \in SrcRecord
  BY DEF Reaping, FileInv, FileTypes
<1>2. Spent
  BY <1>1, NothingSpent DEF FileInv
<1>3. src.tracked \in SUBSET Inodes
  BY <1>1, SrcFields
<1>4. \A i : ~ InTodo(src, i)
  BY <1>1, EmptySeq DEF InTodo
<1>5. \A i \in Inodes : IsDrained(src, i)
  BY <1>1, <1>4 DEF IsDrained
<1>6. src.seen \subseteq src.tracked /\ \A i \in src.seen : ~ src.files[i].removed
  BY <1>1, <1>4 DEF FileInv, Known
<1>7. conf.eof = "stop" /\ "log" \in conf.glob =>
        "log" \in src.failed \/ Min(Inodes) \in src.seen
  BY <1>1 DEF FileInv, Batched, InScan
<1>8. ASSUME NEW ph \in {"reap", "polled"}, NEW td \in Seq(Inodes \cup Paths),
             ph = "reap" => td \in Seq(Inodes),
             NEW s, s = [src EXCEPT !.phase = ph, !.todo = td]
      PROVE  Scanned(s, emitted)
  <2>1. ph \in Phases
    BY DEF Phases
  <2>2. s \in SrcRecord
    BY <1>1, <1>8, <2>1 DEF SrcRecord
  <2>3. /\ s.files = src.files /\ s.tracked = src.tracked /\ s.failed = src.failed
        /\ s.carry = src.carry /\ s.legacy = src.legacy /\ s.nextSeq = src.nextSeq
        /\ s.pending = src.pending /\ s.phase = ph /\ s.seen = src.seen /\ s.todo = td
    BY <1>1, <1>8 DEF SrcRecord
  <2>4. Listed(s)
    BY <1>8, <2>3 DEF Listed
  <2> QED BY <1>1, <1>5, <1>6, <1>7, <2>2, <2>3, <2>4, SameFiles
<1>9. CASE src' = [src EXCEPT !.phase = "polled"]
  <2>1. PICK s : s = [src EXCEPT !.phase = "polled", !.todo = src.todo]
    OBVIOUS
  <2>2. src' = s
    BY <1>1, <1>9, <2>1 DEF SrcRecord
  <2>3. Scanned(s, emitted)
    BY <1>1, <1>8, <2>1, SrcFields
  <2> QED BY <1>1, <1>2, <2>2, <2>3, QuietScan
<1>10. CASE \E any \in Orders(src.tracked) : src' = [src EXCEPT !.phase = "reap", !.todo = any]
  <2>1. PICK any \in Orders(src.tracked) : src' = [src EXCEPT !.phase = "reap", !.todo = any]
    BY <1>10
  <2>2. any \in Seq(Inodes) /\ any \in Seq(Inodes \cup Paths)
    BY <1>3, OrderOf
  <2>3. Scanned(src', emitted)
    BY <1>8, <2>1, <2>2
  <2>4. PICK s : s = src'
    OBVIOUS
  <2> QED BY <1>1, <1>2, <2>3, <2>4, QuietScan
<1> QED BY <1>9, <1>10 DEF Reaping

\* Every file was reaped.
LEMMA ReapedStep ==
  ASSUME FileInv, Reaped
  PROVE  FileInv'
<1>1. /\ src.phase = "reap" /\ src.todo = <<>> /\ Quiet /\ left' = left
      /\ UNCHANGED <<emitted, accepted>> /\ src \in SrcRecord
      /\ src' = [src EXCEPT !.phase = "polled"]
  BY DEF Reaped, FileInv, FileTypes
<1>2. Spent
  BY <1>1, NothingSpent DEF FileInv
<1>3. PICK s : s = [src EXCEPT !.phase = "polled"]
  OBVIOUS
<1>4. s \in SrcRecord
  BY <1>1, <1>3 DEF SrcRecord, Phases
<1>5. /\ s.files = src.files /\ s.tracked = src.tracked /\ s.failed = src.failed
      /\ s.carry = src.carry /\ s.legacy = src.legacy /\ s.nextSeq = src.nextSeq
      /\ s.pending = src.pending /\ s.phase = "polled" /\ s.seen = src.seen
  BY <1>1, <1>3 DEF SrcRecord
<1>6. Listed(s) /\ \A i \in Inodes : ~ IsDrained(s, i)
  BY <1>5 DEF Listed, IsDrained
<1>7. s.seen \subseteq s.tracked
  BY <1>5 DEF FileInv, Known
<1>8. conf.eof = "stop" /\ "log" \in conf.glob =>
        "log" \in s.failed \/ Min(Inodes) \in s.seen
  BY <1>1, <1>5 DEF FileInv, Batched, InScan
<1>9. Scanned(s, emitted)
  BY <1>1, <1>4, <1>5, <1>6, <1>7, <1>8, SameFiles
<1> QED BY <1>1, <1>2, <1>3, <1>9, QuietScan

\* The scan is over; a source that reports itself exhausted has read everything.
LEMMA PolledStep ==
  ASSUME FileInv, Polled
  PROVE  FileInv'
<1>1. /\ src.phase = "polled" /\ Quiet /\ left' = left
      /\ UNCHANGED <<emitted, accepted>> /\ src \in SrcRecord
  BY DEF Polled, FileInv, FileTypes
<1>2. Spent
  BY <1>1, NothingSpent DEF FileInv
<1>3. <<>> \in Seq(Inodes \cup Paths)
  BY EmptySeq
<1>4. PICK ph : ph = IF conf.eof = "stop" /\ ~ src.first /\ ~ src.em /\ allAtEOF
                     THEN "done" ELSE "idle"
  OBVIOUS
<1>5. PICK s : s = [src EXCEPT !.first = FALSE, !.todo = <<>>, !.phase = ph]
  OBVIOUS
<1>6. src' = s
  BY <1>4, <1>5 DEF Polled
<1>7. ph \in {"idle", "done"} /\ ph \in Phases
  BY <1>4 DEF Phases
<1>8. s \in SrcRecord
  BY <1>1, <1>3, <1>5, <1>7 DEF SrcRecord
<1>9. /\ s.files = src.files /\ s.tracked = src.tracked /\ s.failed = src.failed
      /\ s.carry = src.carry /\ s.legacy = src.legacy /\ s.nextSeq = src.nextSeq
      /\ s.pending = src.pending /\ s.phase = ph /\ s.seen = src.seen
  BY <1>1, <1>5 DEF SrcRecord
<1>10. Listed(s) /\ (\A i \in Inodes : ~ IsDrained(s, i)) /\ s.phase \notin InScan
  BY <1>7, <1>9 DEF Listed, IsDrained, InScan
<1>11. s.seen \subseteq s.tracked
  BY <1>9 DEF FileInv, Known
<1>12. CASE ph = "idle"
  <2>1. Scanned(s, emitted)
    BY <1>1, <1>8, <1>9, <1>10, <1>11, <1>12, SameFiles
  <2> QED BY <1>1, <1>2, <1>6, <2>1, QuietScan
<1>13. CASE ph = "done"
  <2>1. UNCHANGED <<conf, disk, durable, doc, rewritten>>
    BY <1>1 DEF Quiet
  <2>2. conf.eof = "stop" /\ allAtEOF
    BY <1>4, <1>13
  <2>3. /\ FileTypes' /\ Stored' /\ Legacy' /\ (conf.eof = "stop" => rewritten = {})'
        /\ \A i, v : Covered(i, v) => Covered(i, v)'
    <3>1. src' \in SrcRecord /\ src'.legacy \in {0, src.legacy} /\ emitted \subseteq emitted'
          /\ emitted' \subseteq Nat /\ accepted' \in Nat
      BY <1>1, <1>6, <1>8, <1>9 DEF FileInv, FileTypes
    <3> QED BY <1>1, <1>2, <3>1, KeptByScan
  <2>4. Listed(src)' /\ Known(src)' /\ Batched(src)' /\ Resumable(src)' /\ Grouped(src)'
    <3>1. Listed(src)'
      BY <1>6, <1>9, <1>10, <1>13 DEF Listed
    <3>2. Known(src)'
      BY <1>6, <1>9, <1>11, <1>13 DEF FileInv, Known
    <3>3. Batched(src)'
      BY <1>6, <1>9, <1>10, <2>1, <2>2 DEF FileInv, Batched, Size
    <3>4. Resumable(src)'
      BY <1>6, <1>9, <2>1, <2>3 DEF FileInv, Resumable
    <3>5. Grouped(src)'
      BY <1>6, <1>9, <2>1 DEF FileInv, Grouped, GroupOf
    <3> QED BY <3>1, <3>2, <3>3, <3>4, <3>5
  <2>5. Acknowledged' /\ Numbered'
    BY <1>1, <1>6, <1>9, <2>1, <2>3 DEF FileInv, Acknowledged, Numbered
  <2>6. Passed(src, emitted)'
    BY <1>1, <1>6, <1>9, <2>1 DEF FileInv, Passed, PassedBy, Size
  <2>7. Looked(src)'
    <3> SUFFICES ASSUME NEW i \in Inodes \ rewritten
                 PROVE  LookedAt(i, src.files[i], IsDrained(src, i))'
      BY <2>1 DEF Looked
    <3>1. LookedAt(i, src.files[i], IsDrained(src, i))
      BY <1>1 DEF FileInv, Looked
    <3>2. ~ IsDrained(src, i)'
      BY <1>6, <1>9, <1>13 DEF IsDrained
    <3> QED BY <1>6, <1>9, <2>1, <3>1, <3>2 DEF LookedAt, Size
  <2>8. Flushed(src)'
    BY <1>1, <1>6, <1>9, <2>1 DEF FileInv, Flushed
  <2>9. ExhaustedMeansRead'
    <3> SUFFICES ASSUME src.failed = {}, NEW p \in conf.glob, disk.at[p] # None,
                        NEW k \in 1..Size(disk.at[p])
                 PROVE  Settled(disk.data[disk.at[p]][k])
      BY <1>1, <1>6, <1>9, <2>1 DEF ExhaustedMeansRead, Size, Settled
    <3>1. conf \in FileSetups /\ disk \in DiskRecord
      BY DEF FileInv, FileTypes
    <3>2. p \in Paths /\ conf.start = "beginning" /\ rewritten = {}
      BY <2>2, <3>1, ConfFields DEF FileInv
    <3>3. disk.at[p] = Min(Inodes) /\ p = "log"
      BY <2>2, <3>1, <3>2, ConfFields DEF FileInv, Legacy
    <3>4. PICK i : i = Min(Inodes)
      OBVIOUS
    <3>5. i \in src.tracked /\ i \in Inodes
      BY <1>1, <2>2, <3>3, <3>4, FirstInode DEF FileInv, Batched, InScan, Known
    <3>6. src.files[i] \in EntryRecord /\ Size(i) \in Nat
      BY <1>1, <3>1, <3>5, SrcFields, DiskFields
    <3>7. src.files[i].size = Size(i) /\ src.files[i].group = {}
      BY <1>1, <2>2, <3>5 DEF FileInv, Batched, Flushed
    <3>8. src.files[i].offset \in Nat /\ Size(i) <= src.files[i].offset
      BY <2>2, <3>5, <3>6, <3>7, EntryFields DEF allAtEOF
    <3>9. PassedBy(i, src.files[i], emitted)
      BY <1>1, <3>2, <3>5 DEF FileInv, Passed
    <3>10. k \in 1..src.files[i].offset
      BY <3>3, <3>4, <3>6, <3>8
    <3> QED BY <3>3, <3>4, <3>7, <3>9, <3>10 DEF PassedBy, Settled
  <2> QED BY <2>3, <2>4, <2>5, <2>6, <2>7, <2>8, <2>9 DEF FileInv
<1> QED BY <1>7, <1>12, <1>13

\* The entry of the file i that path p names, before the scan has looked at it: the
\* offset it is read from is one that the store has, or that of a version 1 document,
\* whose file was not rotated away.
LEMMA EntryToDiscover ==
  ASSUME FileInv, src.phase = "discover", NEW p \in Paths, NEW i, i = disk.at[p], i # None,
         NEW e, e = IF i \in src.tracked THEN src.files[i] ELSE newTracked(i, Size(i))
  PROVE  /\ i \in Inodes /\ e \in EntryRecord /\ GroupOf(e)
         /\ conf.eof = "stop" => i = Min(Inodes) /\ e.group = {}
         /\ i \notin rewritten => (e.partial = 1 => e.offset < Size(i))
         /\ i \notin rewritten /\ conf.start = "beginning" =>
              PassedBy(i, e, emitted) /\ Covered(i, e.committed)
<1>1. src \in SrcRecord /\ disk \in DiskRecord /\ conf \in FileSetups /\ src.phase # "ended"
  BY DEF FileInv, FileTypes
<1>2. i \in Inodes /\ Size(i) \in Nat
  BY <1>1, DiskFields
<1>3. conf.may.rotations = 0 => i = Min(Inodes)
  BY <1>1 DEF FileInv, Legacy
<1>4. conf.eof = "stop" => i = Min(Inodes)
  BY <1>1, <1>3, ConfFields
<1>5. CASE i \in src.tracked
  <2>1. e = src.files[i] /\ e \in EntryRecord
    BY <1>1, <1>2, <1>5, SrcFields
  <2>2. GroupOf(e)
    BY <1>2, <2>1 DEF FileInv, Grouped
  <2>3. conf.eof = "stop" => e.group = {}
    BY <1>1, <1>2, <2>1 DEF FileInv, Flushed
  <2>4. i \notin rewritten => (e.partial = 1 => e.offset < Size(i))
    BY <1>1, <1>2, <2>1 DEF FileInv, Looked, LookedAt
  <2>5. i \notin rewritten /\ conf.start = "beginning" =>
          PassedBy(i, e, emitted) /\ Covered(i, e.committed)
    BY <1>1, <1>2, <2>1 DEF FileInv, Passed, Resumable
  <2> QED BY <1>2, <1>4, <2>1, <2>2, <2>3, <2>4, <2>5
<1>6. CASE i \notin src.tracked
  <2>1. PICK known : known = IF src.carry[i] > 0 THEN src.carry[i] ELSE src.legacy
    OBVIOUS
  <2>2. PICK start : start = IF known = 0 /\ conf.start = "end" THEN Size(i) ELSE known
    OBVIOUS
  <2>3. PICK o : o = IF start > Size(i) THEN 0 ELSE start
    OBVIOUS
  <2>4. PICK cm : cm = IF start > Size(i) THEN 0 ELSE known
    OBVIOUS
  <2>5. known \in Nat /\ start \in Nat /\ o \in Nat /\ cm \in Nat /\ o <= Size(i)
    <3>1. src.carry[i] \in Nat /\ src.legacy \in Nat
      BY <1>1, <1>2, SrcFields
    <3>2. known \in Nat
      BY <2>1, <3>1
    <3>3. start \in Nat
      BY <1>2, <2>2, <3>2
    <3> QED BY <1>2, <2>3, <2>4, <3>2, <3>3
  <2>6. e = [NoEntry EXCEPT !.offset = o, !.committed = cm, !.size = Size(i)]
    BY <1>6, <2>1, <2>2, <2>3, <2>4 DEF newTracked
  <2>7. /\ e \in EntryRecord /\ e.offset = o /\ e.committed = cm /\ e.partial = 0
        /\ e.group = {} /\ e.end = 0
    BY <1>2, <2>5, <2>6, NoEntryFields DEF EntryRecord
  <2>8. GroupOf(e)
    BY <2>5, <2>7 DEF GroupOf
  <2>9. ASSUME i \notin rewritten, conf.start = "beginning"
        PROVE  PassedBy(i, e, emitted) /\ Covered(i, e.committed)
    <3>1. Covered(i, known)
      <4>1. Covered(i, src.carry[i]) /\ Covered(i, 0)
        BY <1>2, <2>9 DEF FileInv, Resumable, Covered
      <4>2. ASSUME src.legacy # 0 PROVE Covered(i, src.legacy)
        <5>1. src.legacy = conf.legacy /\ conf.legacy > 0
          BY <1>1, <4>2, ConfFields DEF FileInv, Legacy
        <5>2. i = Min(Inodes)
          BY <1>1, <1>3, <5>1, ConfFields
        <5>3. Min(Inodes) \notin rewritten
          BY <2>9, <5>2
        <5>4. Covered(Min(Inodes), conf.legacy)
          BY <5>3 DEF FileInv, Legacy
        <5> QED BY <5>1, <5>2, <5>4
      <4> QED BY <2>1, <4>1, <4>2
    <3>2. start = known /\ Covered(i, o) /\ Covered(i, cm)
      <4>1. start = known
        BY <2>2, <2>9
      <4>2. Covered(i, 0)
        BY <1>2 DEF Covered
      <4> QED BY <2>3, <2>4, <3>1, <4>1, <4>2
    <3> QED BY <2>5, <2>7, <3>2 DEF PassedBy, Covered, Settled
  <2> QED BY <1>2, <1>4, <2>7, <2>8, <2>9
<1> QED BY <1>5, <1>6

\* The entry of a file that was discovered: open, from where it was, or from 0 when its
\* content was replaced while it was closed.
LEMMA DiscoveredFields ==
  ASSUME FileInv, src.phase = "discover", NEW p \in Paths, NEW i, i = disk.at[p], i # None,
         NEW f, f = Discovered(i, p)
  PROVE  /\ i \in Inodes /\ f \in EntryRecord /\ GroupOf(f) /\ f.open /\ f.size = Size(i)
         /\ conf.eof = "stop" => i = Min(Inodes) /\ f.group = {}
         /\ i \notin rewritten => (f.partial = 1 => f.offset < Size(i))
         /\ i \notin rewritten /\ conf.start = "beginning" =>
              PassedBy(i, f, emitted) /\ Covered(i, f.committed)
<1>1. PICK e : e = IF i \in src.tracked THEN src.files[i] ELSE newTracked(i, Size(i))
  OBVIOUS
<1>2. /\ i \in Inodes /\ e \in EntryRecord /\ GroupOf(e)
      /\ conf.eof = "stop" => i = Min(Inodes) /\ e.group = {}
      /\ i \notin rewritten => (e.partial = 1 => e.offset < Size(i))
      /\ i \notin rewritten /\ conf.start = "beginning" =>
           PassedBy(i, e, emitted) /\ Covered(i, e.committed)
  BY <1>1, EntryToDiscover
<1>3. disk.stamp[i] \in Nat /\ Size(i) \in Nat /\ e.offset \in Nat
  BY <1>2, DiskFields, EntryFields DEF FileInv, FileTypes
<1>4. PICK shut : shut = [e EXCEPT !.open = TRUE, !.partial = 0]
  OBVIOUS
<1>5. /\ shut \in EntryRecord /\ shut.open /\ shut.partial = 0 /\ shut.offset = e.offset
      /\ shut.committed = e.committed /\ shut.group = e.group /\ shut.end = e.end
  BY <1>2, <1>4 DEF EntryRecord
<1>6. PICK ready : ready = IF e.open THEN e
                           ELSE IF truncated(shut, i) THEN Restarted(shut) ELSE shut
  OBVIOUS
<1>7. f = [ready EXCEPT !.path = p, !.size = Size(i), !.stamp = disk.stamp[i], !.reopen = FALSE]
  BY <1>1, <1>4, <1>6 DEF Discovered
<1>8. CASE e.open \/ ~ truncated(shut, i)
  <2>1. /\ ready \in EntryRecord /\ ready.open /\ ready.offset = e.offset
        /\ ready.committed = e.committed /\ ready.end = e.end /\ ready.group = e.group
        /\ ready.partial = e.partial \/ ready.partial = 0
    BY <1>2, <1>5, <1>6, <1>8
  <2>2. /\ f \in EntryRecord /\ f.open /\ f.offset = e.offset /\ f.size = Size(i)
        /\ f.committed = e.committed /\ f.end = e.end /\ f.group = e.group
        /\ f.partial = e.partial \/ f.partial = 0
    BY <1>3, <1>7, <2>1 DEF EntryRecord
  <2>3. GroupOf(f)
    <3>1. e.end <= e.offset /\ (~ e.open \/ ~ conf.multi => e.group = {})
      BY <1>2 DEF GroupOf
    <3> QED BY <2>2, <3>1 DEF GroupOf
  <2>4. i \notin rewritten /\ conf.start = "beginning" => PassedBy(i, f, emitted)
    BY <1>2, <2>2 DEF PassedBy
  <2> QED BY <1>2, <2>2, <2>3, <2>4
<1>9. CASE ~ e.open /\ truncated(shut, i)
  <2>1. PICK g : g = NoGroup(shut)
    OBVIOUS
  <2>2. g \in EntryRecord /\ g.open = shut.open /\ g.group = {} /\ g.end = 0
    BY <1>5, <2>1, NoGroupFields
  <2>3. ready = [g EXCEPT !.offset = 0, !.committed = 0, !.partial = 0, !.tail = <<>>]
    BY <1>6, <1>9, <2>1 DEF Restarted
  <2>4. <<>> \in Seq(Nat)
    BY EmptySeq
  <2>5. /\ ready \in EntryRecord /\ ready.open /\ ready.offset = 0 /\ ready.committed = 0
        /\ ready.partial = 0 /\ ready.group = {} /\ ready.end = 0
    BY <1>5, <2>2, <2>3, <2>4 DEF EntryRecord
  <2>6. /\ f \in EntryRecord /\ f.open /\ f.offset = 0 /\ f.committed = 0 /\ f.size = Size(i)
        /\ f.partial = 0 /\ f.group = {} /\ f.end = 0
    BY <1>3, <1>7, <2>5 DEF EntryRecord
  <2>7. GroupOf(f) /\ PassedBy(i, f, emitted) /\ Covered(i, f.committed)
    BY <1>3, <2>6 DEF GroupOf, PassedBy, Covered
  <2> QED BY <1>2, <2>6, <2>7
<1> QED BY <1>8, <1>9

\* The path a scan is at.
LEMMA AtPath ==
  ASSUME FileInv, src.phase = "discover", src.todo # <<>>, NEW p, p = Head(src.todo)
  PROVE  /\ p \in Paths /\ Tail(src.todo) \in Seq(Paths)
         /\ Tail(src.todo) \in Seq(Inodes \cup Paths)
         /\ \A q : InTodo(src, q) /\ q # p =>
              \E m \in 1..Len(Tail(src.todo)) : Tail(src.todo)[m] = q
<1>1. src.todo \in Seq(Paths) /\ src \in SrcRecord
  BY DEF FileInv, FileTypes, Listed
<1>2. src.todo \in Seq(Inodes \cup Paths)
  BY <1>1, SrcFields
<1>3. p \in Paths /\ Tail(src.todo) \in Seq(Paths) /\ Tail(src.todo) \in Seq(Inodes \cup Paths)
  BY <1>1, <1>2, HeadOf
<1>4. ASSUME NEW q, InTodo(src, q), q # p
      PROVE  \E m \in 1..Len(Tail(src.todo)) : Tail(src.todo)[m] = q
  <2>1. PICK k \in 1..Len(src.todo) : src.todo[k] = q
    BY <1>4 DEF InTodo
  <2>2. src.todo[k] # Head(src.todo)
    BY <1>4, <2>1
  <2>3. \E m \in 1..Len(Tail(src.todo)) : Tail(src.todo)[m] = src.todo[k]
    BY <1>1, <2>2, TailHas
  <2> QED BY <2>1, <2>3
<1> QED BY <1>3, <1>4

\* A path was looked at and no entry changed.
LEMMA LookAtPath ==
  ASSUME FileInv, Quiet, Spent, src.phase = "discover", src.todo # <<>>,
         NEW p, p = Head(src.todo), NEW s \in SrcRecord, src' = s, UNCHANGED <<emitted, accepted>>,
         s.files = src.files, s.tracked = src.tracked, s.carry = src.carry,
         s.legacy = src.legacy, s.nextSeq = src.nextSeq, s.pending = src.pending,
         s.phase = "discover", s.todo = Tail(src.todo),
         src.failed \subseteq s.failed, src.seen \subseteq s.seen, s.seen \subseteq src.tracked,
         conf.eof = "stop" /\ p = "log" => "log" \in s.failed \/ Min(Inodes) \in s.seen
  PROVE  FileInv'
<1>1. /\ p \in Paths /\ Tail(src.todo) \in Seq(Paths)
      /\ \A q : InTodo(src, q) /\ q # p =>
           \E m \in 1..Len(Tail(src.todo)) : Tail(src.todo)[m] = q
  BY AtPath
<1>2. Listed(s) /\ \A i \in Inodes : ~ IsDrained(s, i)
  BY <1>1 DEF Listed, IsDrained
<1>3. conf.eof = "stop" /\ "log" \in conf.glob =>
        "log" \in s.failed \/ Min(Inodes) \in s.seen \/ InTodo(s, "log")
  <2>1. InTodo(src, "log") /\ "log" # p => InTodo(s, "log")
    BY <1>1 DEF InTodo
  <2> QED BY <2>1 DEF FileInv, Batched, InScan
<1>4. Scanned(s, emitted)
  BY <1>2, <1>3, SameFiles
<1> QED BY <1>4, QuietScan

\* discoverLocked for the next path.
LEMMA DiscoverStep ==
  ASSUME FileInv, discover
  PROVE  FileInv'
<1>1. /\ src.phase = "discover" /\ src.todo # <<>> /\ src.phase # "ended" /\ Quiet
      /\ UNCHANGED <<emitted, accepted>>
      /\ src \in SrcRecord /\ disk \in DiskRecord /\ conf \in FileSetups
  BY DEF discover, FileInv, FileTypes
<1>2. PICK p : p = Head(src.todo)
  OBVIOUS
<1>3. PICK i : i = disk.at[p]
  OBVIOUS
<1>4. PICK was : was = src.byPath[p]
  OBVIOUS
<1>5. /\ p \in Paths /\ Tail(src.todo) \in Seq(Paths)
      /\ Tail(src.todo) \in Seq(Inodes \cup Paths)
      /\ \A q : InTodo(src, q) /\ q # p =>
           \E m \in 1..Len(Tail(src.todo)) : Tail(src.todo)[m] = q
  BY <1>1, <1>2, AtPath
<1>6. PICK rest : rest = [src EXCEPT !.todo = Tail(src.todo)]
  OBVIOUS
<1>7. /\ rest \in SrcRecord /\ rest.files = src.files /\ rest.tracked = src.tracked
      /\ rest.carry = src.carry /\ rest.legacy = src.legacy /\ rest.nextSeq = src.nextSeq
      /\ rest.pending = src.pending /\ rest.phase = "discover"
      /\ rest.todo = Tail(src.todo) /\ rest.failed = src.failed /\ rest.seen = src.seen
      /\ rest.byPath = src.byPath /\ rest.ignored = src.ignored
  BY <1>1, <1>5, <1>6 DEF SrcRecord
<1>8. PICK missed : missed = [rest EXCEPT !.failed = @ \union {p}]
  OBVIOUS
<1>9. /\ missed \in SrcRecord /\ missed.files = src.files /\ missed.tracked = src.tracked
      /\ missed.carry = src.carry /\ missed.legacy = src.legacy
      /\ missed.nextSeq = src.nextSeq /\ missed.pending = src.pending
      /\ missed.phase = "discover" /\ missed.todo = Tail(src.todo)
      /\ missed.failed = src.failed \cup {p} /\ missed.seen = src.seen
      /\ missed.ignored = src.ignored
  BY <1>5, <1>7, <1>8 DEF SrcRecord
<1>10. src.seen \subseteq src.tracked /\ src.tracked \subseteq Inodes
  BY <1>1, SrcFields DEF FileInv, Known
<1>11. CASE Unchanged(p) /\ src' = [rest EXCEPT !.seen = @ \union {was}] /\ left' = left
  <2>1. was \in src.tracked /\ was \in Inodes
    BY <1>4, <1>10, <1>11 DEF Unchanged
  <2>2. PICK s : s = [rest EXCEPT !.seen = @ \union {was}]
    OBVIOUS
  <2>3. /\ s \in SrcRecord /\ s.files = src.files /\ s.tracked = src.tracked
        /\ s.carry = src.carry /\ s.legacy = src.legacy /\ s.nextSeq = src.nextSeq
        /\ s.pending = src.pending /\ s.phase = "discover"
        /\ s.todo = Tail(src.todo) /\ s.failed = src.failed /\ s.seen = src.seen \cup {was}
    BY <1>7, <2>1, <2>2 DEF SrcRecord
  <2>4. conf.eof = "stop" => was = Min(Inodes)
    BY <2>1 DEF FileInv, Batched
  <2>5. Spent
    BY <1>11, NothingSpent DEF FileInv
  <2>6. src' = s
    BY <1>11, <2>2
  <2>7. src.seen \cup {was} \subseteq src.tracked /\ src.seen \subseteq src.seen \cup {was}
        /\ (conf.eof = "stop" => Min(Inodes) \in src.seen \cup {was})
    BY <1>10, <2>1, <2>4
  <2> QED BY <1>1, <1>2, <2>3, <2>5, <2>6, <2>7, LookAtPath
<1>12. CASE src' = missed /\ (left' = left \/ (left.faults > 0 /\ Used("faults")))
  <2>1. Spent
    BY <1>12, NothingSpent, FaultSpent DEF FileInv
  <2>2. p \in missed.failed /\ src.failed \subseteq missed.failed
    BY <1>9
  <2>3. src' = missed
    BY <1>12
  <2> QED BY <1>1, <1>2, <1>9, <1>10, <2>1, <2>2, <2>3, LookAtPath
<1>13. CASE i # None /\ src' = [missed EXCEPT !.ignored = @ \union {i}] /\ left' = left
  <2>1. PICK s : s = [missed EXCEPT !.ignored = @ \union {i}]
    OBVIOUS
  <2>2. i \in Inodes
    BY <1>1, <1>3, <1>5, <1>13, DiskFields
  <2>3. /\ s \in SrcRecord /\ s.files = src.files /\ s.tracked = src.tracked
        /\ s.carry = src.carry /\ s.legacy = src.legacy /\ s.nextSeq = src.nextSeq
        /\ s.pending = src.pending /\ s.phase = "discover"
        /\ s.todo = Tail(src.todo) /\ s.failed = src.failed \cup {p} /\ s.seen = src.seen
    BY <1>9, <2>1, <2>2 DEF SrcRecord
  <2>4. Spent
    BY <1>13, NothingSpent DEF FileInv
  <2>5. p \in s.failed /\ src.failed \subseteq s.failed
    BY <2>3
  <2>6. src' = s
    BY <1>13, <2>1
  <2> QED BY <1>1, <1>2, <1>10, <2>3, <2>4, <2>5, <2>6, LookAtPath
<1>14. ASSUME i # None, left' = left,
              NEW fs, fs = [j \in Inodes |->
                              IF j = i THEN Discovered(i, p)
                              ELSE IF j = was /\ j \in src.tracked
                                   THEN [src.files[j] EXCEPT !.removed = TRUE]
                                   ELSE src.files[j]],
              NEW s, s = [rest EXCEPT
                !.files = fs, !.tracked = @ \union {i}, !.byPath[p] = i, !.ignored = @ \ {i},
                !.carry[i] = IF i \in src.tracked THEN @ ELSE 0,
                !.legacy = IF i \in src.tracked \/ src.carry[i] > 0 THEN @ ELSE 0,
                !.seen = @ \union {i}],
              src' = s
       PROVE  FileInv'
  <2>1. PICK f : f = Discovered(i, p)
    OBVIOUS
  <2>2. /\ i \in Inodes /\ f \in EntryRecord /\ GroupOf(f) /\ f.open /\ f.size = Size(i)
        /\ conf.eof = "stop" => i = Min(Inodes) /\ f.group = {}
        /\ i \notin rewritten => (f.partial = 1 => f.offset < Size(i))
        /\ i \notin rewritten /\ conf.start = "beginning" =>
             PassedBy(i, f, emitted) /\ Covered(i, f.committed)
    BY <1>1, <1>3, <1>5, <1>14, <2>1, DiscoveredFields
  <2>3. src.files \in [Inodes -> EntryRecord] /\ src.carry \in [Inodes -> Nat]
        /\ src.legacy \in Nat /\ src.byPath \in [Paths -> Inodes \cup {None}]
        /\ src.ignored \subseteq Inodes /\ src.seen \subseteq Inodes
    BY <1>1, SrcFields
  <2>4. \A j \in Inodes \ {i} :
          /\ fs[j] \in EntryRecord
          /\ fs[j].open = src.files[j].open /\ fs[j].offset = src.files[j].offset
          /\ fs[j].committed = src.files[j].committed /\ fs[j].partial = src.files[j].partial
          /\ fs[j].size = src.files[j].size /\ fs[j].reopen = src.files[j].reopen
          /\ fs[j].group = src.files[j].group /\ fs[j].end = src.files[j].end
          /\ j \notin src.tracked => fs[j] = src.files[j]
    <3> TAKE j \in Inodes \ {i}
    <3>1. src.files[j] \in EntryRecord
      BY <2>3
    <3>2. fs[j] = IF j = was /\ j \in src.tracked
                  THEN [src.files[j] EXCEPT !.removed = TRUE] ELSE src.files[j]
      BY <1>14
    <3> QED BY <3>1, <3>2 DEF EntryRecord
  <2>5. fs[i] = f /\ fs \in [Inodes -> EntryRecord]
    <3>1. fs[i] = f
      BY <1>14, <2>1, <2>2
    <3>2. DOMAIN fs = Inodes
      BY <1>14
    <3>3. \A j \in Inodes : fs[j] \in EntryRecord
      BY <2>2, <2>4, <3>1
    <3>4. fs = [j \in Inodes |-> fs[j]]
      BY <1>14, <3>2
    <3> QED BY <3>1, <3>3, <3>4
  <2>6. PICK cr : cr = [src.carry EXCEPT ![i] = IF i \in src.tracked THEN @ ELSE 0]
    OBVIOUS
  <2>7. PICK lg : lg = IF i \in src.tracked \/ src.carry[i] > 0 THEN src.legacy ELSE 0
    OBVIOUS
  <2>8. PICK bp : bp = [src.byPath EXCEPT ![p] = i]
    OBVIOUS
  <2>9. /\ cr \in [Inodes -> Nat] /\ (\A j \in Inodes : cr[j] \in {0, src.carry[j]})
        /\ lg \in Nat /\ lg \in {0, src.legacy} /\ bp \in [Paths -> Inodes \cup {None}]
    <3>1. cr \in [Inodes -> Nat] /\ \A j \in Inodes : cr[j] \in {0, src.carry[j]}
      BY <2>2, <2>3, <2>6
    <3>2. lg \in Nat /\ lg \in {0, src.legacy}
      BY <2>3, <2>7
    <3>3. bp \in [Paths -> Inodes \cup {None}]
      BY <1>5, <2>2, <2>3, <2>8
    <3> QED BY <3>1, <3>2, <3>3
  <2>10. PICK tr : tr = src.tracked \cup {i}
    OBVIOUS
  <2>11. PICK ig : ig = src.ignored \ {i}
    OBVIOUS
  <2>12. PICK sn : sn = src.seen \cup {i}
    OBVIOUS
  <2>13. tr \subseteq Inodes /\ ig \subseteq Inodes /\ sn \subseteq Inodes
    BY <1>10, <2>2, <2>3, <2>10, <2>11, <2>12
  <2>14. s = [rest EXCEPT !.files = fs, !.tracked = tr, !.byPath = bp, !.ignored = ig,
                          !.carry = cr, !.legacy = lg, !.seen = sn]
    BY <1>7, <1>14, <2>6, <2>7, <2>8, <2>10, <2>11, <2>12 DEF SrcRecord
  <2>15. s \in SrcRecord
    BY <1>7, <2>5, <2>9, <2>13, <2>14 DEF SrcRecord
  <2>16. /\ s.files = fs /\ s.tracked = tr /\ s.carry = cr /\ s.legacy = lg /\ s.seen = sn
         /\ s.nextSeq = src.nextSeq /\ s.pending = src.pending /\ s.phase = "discover"
         /\ s.todo = Tail(src.todo) /\ s.failed = src.failed
    BY <1>7, <2>14 DEF SrcRecord
  <2>17. Listed(s) /\ \A j \in Inodes : ~ IsDrained(s, j)
    BY <1>5, <2>16 DEF Listed, IsDrained
  <2>18. Resumable(s)
    <3> SUFFICES ASSUME conf.start = "beginning", NEW j \in Inodes \ rewritten
                 PROVE  Covered(j, s.carry[j]) /\ Covered(j, s.files[j].committed)
      BY DEF Resumable
    <3>1. Covered(j, src.carry[j]) /\ Covered(j, src.files[j].committed)
      BY DEF FileInv, Resumable
    <3>2. Covered(j, 0)
      BY <1>1, DiskFields DEF Covered
    <3>3. Covered(j, s.carry[j])
      BY <2>9, <2>16, <3>1, <3>2
    <3>4. CASE j = i
      BY <2>2, <2>5, <2>16, <3>3, <3>4
    <3>5. CASE j # i
      BY <2>4, <2>16, <3>1, <3>3, <3>5
    <3> QED BY <3>4, <3>5
  <2>19. Grouped(s)
    <3> SUFFICES ASSUME NEW j \in Inodes PROVE GroupOf(s.files[j])
      BY DEF Grouped
    <3>1. CASE j = i
      BY <2>2, <2>5, <2>16, <3>1
    <3>2. CASE j # i
      <4>1. GroupOf(src.files[j])
        BY DEF FileInv, Grouped
      <4> QED BY <2>4, <2>16, <3>2, <4>1 DEF GroupOf
    <3> QED BY <3>1, <3>2
  <2>20. Known(s)
    <3>1. \A j \in Inodes \ tr : fs[j] = NoEntry
      BY <2>4, <2>10 DEF FileInv, Known
    <3>2. sn \subseteq tr
      BY <1>10, <2>10, <2>12
    <3> QED BY <2>16, <3>1, <3>2 DEF Known
  <2>21. Batched(s)
    <3> SUFFICES ASSUME conf.eof = "stop"
                 PROVE  /\ tr \subseteq {Min(Inodes)}
                        /\ \A j \in tr : fs[j].size = Size(j)
                        /\ "log" \in conf.glob =>
                             "log" \in src.failed \/ Min(Inodes) \in sn \/ InTodo(s, "log")
      BY <2>16 DEF Batched
    <3>1. i = Min(Inodes) /\ src.tracked \subseteq {Min(Inodes)}
      BY <2>2 DEF FileInv, Batched
    <3> QED BY <2>2, <2>5, <2>10, <2>12, <3>1
  <2>22. Passed(s, emitted)
    <3> SUFFICES ASSUME conf.start = "beginning", NEW j \in Inodes \ rewritten
                 PROVE  PassedBy(j, s.files[j], emitted)
      BY DEF Passed
    <3>1. CASE j = i
      BY <2>2, <2>5, <2>16, <3>1
    <3>2. CASE j # i
      <4>1. PassedBy(j, src.files[j], emitted)
        BY <1>1 DEF FileInv, Passed
      <4> QED BY <2>4, <2>16, <3>2, <4>1 DEF PassedBy
    <3> QED BY <3>1, <3>2
  <2>23. Looked(s)
    <3> SUFFICES ASSUME NEW j \in Inodes \ rewritten
                 PROVE  LookedAt(j, s.files[j], IsDrained(s, j))
      BY DEF Looked
    <3>1. ~ IsDrained(s, j) /\ Size(j) \in Nat
      BY <1>1, <2>17, DiskFields
    <3>2. CASE j = i
      BY <2>2, <2>5, <2>16, <3>1, <3>2 DEF LookedAt
    <3>3. CASE j # i
      <4>1. LookedAt(j, src.files[j], IsDrained(src, j))
        BY <1>1 DEF FileInv, Looked
      <4> QED BY <2>4, <2>16, <3>1, <3>3, <4>1 DEF LookedAt
    <3> QED BY <3>2, <3>3
  <2>24. Flushed(s)
    <3> SUFFICES ASSUME conf.eof = "stop", NEW j \in Inodes PROVE s.files[j].group = {}
      BY DEF Flushed
    <3>1. src.files[j].group = {}
      BY <1>1 DEF FileInv, Flushed
    <3> QED BY <2>2, <2>4, <2>5, <2>16, <3>1
  <2>25. Scanned(s, emitted)
    BY <2>9, <2>15, <2>16, <2>17, <2>18, <2>19, <2>20, <2>21, <2>22, <2>23, <2>24 DEF Scanned
  <2>26. Spent
    BY <1>14, NothingSpent DEF FileInv
  <2>27. src' = s
    BY <1>14
  <2> QED BY <1>1, <2>25, <2>26, <2>27, QuietScan
<1>15. i # None /\ left' = left /\
       src' = [rest EXCEPT
                !.files = [j \in Inodes |->
                              IF j = i THEN Discovered(i, p)
                              ELSE IF j = was /\ j \in src.tracked
                                   THEN [src.files[j] EXCEPT !.removed = TRUE]
                                   ELSE src.files[j]],
                !.tracked = @ \union {i}, !.byPath[p] = i, !.ignored = @ \ {i},
                !.carry[i] = IF i \in src.tracked THEN @ ELSE 0,
                !.legacy = IF i \in src.tracked \/ src.carry[i] > 0 THEN @ ELSE 0,
                !.seen = @ \union {i}]
       => FileInv'
  BY <1>14
<1> QED BY <1>2, <1>3, <1>4, <1>6, <1>8, <1>11, <1>12, <1>13, <1>15 DEF discover

\* What Commit folds: the greatest offset among those of the emissions up to the
\* frontier, or the one it had.
LEMMA FoldedFields ==
  ASSUME FileInv, NEW through \in Nat, through <= accepted, NEW s, s = Folded(through)
  PROVE  /\ s \in SrcRecord /\ s.phase = src.phase /\ s.todo = src.todo /\ s.seen = src.seen
         /\ s.failed = src.failed /\ s.tracked = src.tracked /\ s.carry = src.carry
         /\ s.legacy = src.legacy /\ s.nextSeq = src.nextSeq /\ s.pending \subseteq src.pending
         /\ \A i \in Inodes :
              /\ s.files[i].open = src.files[i].open /\ s.files[i].offset = src.files[i].offset
              /\ s.files[i].partial = src.files[i].partial /\ s.files[i].size = src.files[i].size
              /\ s.files[i].removed = src.files[i].removed
              /\ s.files[i].reopen = src.files[i].reopen
              /\ s.files[i].group = src.files[i].group /\ s.files[i].end = src.files[i].end
              /\ i \notin src.tracked => s.files[i] = src.files[i]
              /\ conf.start = "beginning" /\ i \notin rewritten => Covered(i, s.files[i].committed)
<1>1. src \in SrcRecord /\ accepted \in Nat
  BY DEF FileInv, FileTypes
<1>2. src.files \in [Inodes -> EntryRecord] /\ src.pending \subseteq Emission
  BY <1>1, SrcFields
<1> DEFINE Ends(i) == {q.end : q \in {x \in src.pending : x.id = i /\ x.seq <= through
                                                              /\ i \in src.tracked}}
<1> DEFINE New(i) == Max({src.files[i].committed} \cup Ends(i))
<1>3. ASSUME NEW i \in Inodes
      PROVE  /\ New(i) \in Nat
             /\ i \notin src.tracked => New(i) = src.files[i].committed
             /\ conf.start = "beginning" /\ i \notin rewritten => Covered(i, New(i))
  <2>1. src.files[i].committed \in Nat
    BY <1>2, EntryFields
  <2>2. PICK b \in Nat : \A q \in src.pending : q.end <= b
    BY DEF FileInv, Numbered
  <2>3. PICK S : S = {src.files[i].committed} \cup Ends(i)
    OBVIOUS
  <2>4. S \in SUBSET Nat /\ S # {} /\ \A y \in S : y <= b + src.files[i].committed
    <3>1. \A q \in src.pending : q.end \in Nat
      BY <1>2 DEF Emission
    <3>2. \A y \in Ends(i) : y \in Nat /\ y <= b
      BY <2>2, <3>1
    <3> HIDE DEF Ends
    <3>3. \A y \in S : y = src.files[i].committed \/ y \in Ends(i)
      BY <2>3
    <3>4. src.files[i].committed \in S
      BY <2>3
    <3> QED BY <2>1, <2>2, <3>2, <3>3, <3>4
  <2>5. Max(S) \in S
    <3>1. b + src.files[i].committed \in Nat
      BY <2>1, <2>2
    <3> QED BY <2>4, <3>1, MaxItem
  <2>6. New(i) = Max(S)
    BY <2>3
  <2>7. i \notin src.tracked => S = {src.files[i].committed}
    BY <2>3
  <2>8. ASSUME conf.start = "beginning", i \notin rewritten PROVE Covered(i, Max(S))
    <3>1. Covered(i, src.files[i].committed)
      BY <2>8 DEF FileInv, Resumable
    <3>2. ASSUME NEW q \in src.pending, q.id = i, q.seq <= through PROVE Covered(i, q.end)
      <4>1. q.seq \in Nat
        BY <1>2 DEF Emission
      <4>2. q.seq <= accepted
        BY <1>1, <3>2, <4>1
      <4> QED BY <2>8, <3>2, <4>2 DEF FileInv, Acknowledged
    <3>3. \A y \in Ends(i) : Covered(i, y)
      BY <3>2
    <3>4. Max(S) = src.files[i].committed \/ Max(S) \in Ends(i)
      BY <2>3, <2>5
    <3> HIDE DEF Ends
    <3> QED BY <3>1, <3>3, <3>4
  <2>9. i \notin src.tracked => Max(S) = src.files[i].committed
    BY <2>5, <2>7
  <2> HIDE DEF New
  <2> QED BY <2>4, <2>5, <2>6, <2>8, <2>9
<1>4. PICK fs : fs = [i \in Inodes |-> [src.files[i] EXCEPT !.committed = New(i)]]
  OBVIOUS
<1>5. PICK pe : pe = {q \in src.pending : q.seq > through}
  OBVIOUS
<1>6. s = [src EXCEPT !.pending = pe, !.last = through, !.files = fs]
  BY <1>4, <1>5 DEF Folded
<1> HIDE DEF New, Ends
<1>7. \A i \in Inodes :
        /\ fs[i] \in EntryRecord
        /\ fs[i].open = src.files[i].open /\ fs[i].offset = src.files[i].offset
        /\ fs[i].partial = src.files[i].partial /\ fs[i].size = src.files[i].size
        /\ fs[i].removed = src.files[i].removed /\ fs[i].reopen = src.files[i].reopen
        /\ fs[i].group = src.files[i].group /\ fs[i].end = src.files[i].end
        /\ fs[i].committed = New(i)
        /\ i \notin src.tracked => fs[i] = src.files[i]
  <2> TAKE i \in Inodes
  <2>1. src.files[i] \in EntryRecord /\ New(i) \in Nat
    BY <1>2, <1>3
  <2>2. fs[i] = [src.files[i] EXCEPT !.committed = New(i)]
    BY <1>4
  <2>3. i \notin src.tracked => New(i) = src.files[i].committed
    BY <1>3
  <2> QED BY <2>1, <2>2, <2>3 DEF EntryRecord
<1>8. fs \in [Inodes -> EntryRecord] /\ pe \subseteq Emission /\ pe \subseteq src.pending
  BY <1>2, <1>4, <1>5, <1>7
<1>9. s \in SrcRecord
  BY <1>1, <1>6, <1>8 DEF SrcRecord
<1>10. /\ s.phase = src.phase /\ s.todo = src.todo /\ s.seen = src.seen
       /\ s.failed = src.failed /\ s.tracked = src.tracked /\ s.carry = src.carry
       /\ s.legacy = src.legacy /\ s.nextSeq = src.nextSeq /\ s.pending = pe /\ s.files = fs
  BY <1>1, <1>6 DEF SrcRecord
<1> QED BY <1>3, <1>7, <1>8, <1>9, <1>10

\* Commit folds the emissions up to the frontier, all of them accepted.
LEMMA CommitStep ==
  ASSUME FileInv, NEW through \in 1..accepted, Commit(through)
  PROVE  FileInv'
<1>1. /\ src.phase \in {"idle", "ended", "done"}
      /\ UNCHANGED <<conf, disk, durable, emitted, accepted, rewritten, left>>
      /\ accepted \in Nat /\ src \in SrcRecord
  BY DEF Commit, FileInv, FileTypes
<1>2. through \in Nat /\ through <= accepted
  BY <1>1
<1>3. PICK s : s = Folded(through)
  OBVIOUS
<1>4. src' = s /\ doc' = <<marshalState(s)>>
  BY <1>3 DEF Commit
<1>5. /\ s \in SrcRecord /\ s.phase = src.phase /\ s.todo = src.todo /\ s.seen = src.seen
      /\ s.failed = src.failed /\ s.tracked = src.tracked /\ s.carry = src.carry
      /\ s.legacy = src.legacy /\ s.nextSeq = src.nextSeq /\ s.pending \subseteq src.pending
  BY <1>2, <1>3, FoldedFields
<1>6. \A i \in Inodes :
        /\ s.files[i].open = src.files[i].open /\ s.files[i].offset = src.files[i].offset
        /\ s.files[i].partial = src.files[i].partial /\ s.files[i].size = src.files[i].size
        /\ s.files[i].removed = src.files[i].removed
        /\ s.files[i].reopen = src.files[i].reopen
        /\ s.files[i].group = src.files[i].group /\ s.files[i].end = src.files[i].end
        /\ i \notin src.tracked => s.files[i] = src.files[i]
        /\ conf.start = "beginning" /\ i \notin rewritten => Covered(i, s.files[i].committed)
  BY <1>2, <1>3, FoldedFields
<1>7. PICK m : m = marshalState(s)
  OBVIOUS
<1>8. m \in [Inodes -> Nat] /\ \A i \in Inodes : m[i] \in {s.files[i].committed, s.carry[i]}
  <2>1. \A i \in Inodes : s.files[i].committed \in Nat /\ s.carry[i] \in Nat
    BY <1>5, SrcFields, EntryFields
  <2> QED BY <1>7, <2>1 DEF marshalState
<1>9. \A i, v : Covered(i, v)' <=> Covered(i, v)
  BY <1>1 DEF Covered, Settled, Size
<1>10. FileTypes'
  <2>1. doc' = <<>> \/ (\E f \in [Inodes -> Nat] : doc' = <<f>>)
    BY <1>4, <1>7, <1>8
  <2> QED BY <1>1, <1>4, <1>5, <2>1 DEF FileInv, FileTypes
<1>11. Resumable(src)'
  BY <1>1, <1>4, <1>5, <1>6, <1>9 DEF FileInv, Resumable
<1>12. Stored'
  <2> SUFFICES ASSUME conf.start = "beginning", NEW i \in Inodes \ rewritten
               PROVE  Covered(i, durable.files[i]) /\ Covered(i, m[i])
    BY <1>1, <1>4, <1>7, <1>9 DEF Stored
  <2>1. Covered(i, s.files[i].committed) /\ Covered(i, s.carry[i])
    BY <1>5, <1>6 DEF FileInv, Resumable
  <2> QED BY <1>8, <2>1 DEF FileInv, Stored
<1>13. Acknowledged'
  BY <1>1, <1>4, <1>5, <1>9 DEF FileInv, Acknowledged
<1>14. Legacy'
  BY <1>1, <1>4, <1>5, <1>9 DEF FileInv, Legacy
<1>15. Listed(src)' /\ Grouped(src)'
  BY <1>1, <1>4, <1>5, <1>6 DEF FileInv, Listed, Grouped, GroupOf
<1>16. Known(src)'
  BY <1>1, <1>4, <1>5, <1>6 DEF FileInv, Known
<1>17. Batched(src)'
  <2>1. \A i \in src.tracked : s.files[i].size = src.files[i].size
    BY <1>1, <1>6, SrcFields
  <2> QED BY <1>1, <1>4, <1>5, <2>1 DEF FileInv, Batched, InScan, Size
<1>18. Numbered'
  BY <1>1, <1>4, <1>5 DEF FileInv, Numbered
<1>19. ASSUME src'.phase # "ended"
       PROVE  Passed(src, emitted)' /\ Looked(src)' /\ Flushed(src)'
  <2>1. src.phase # "ended" /\ src.phase \in {"idle", "done"}
    BY <1>1, <1>4, <1>5, <1>19
  <2>2. Passed(src, emitted)'
    BY <1>1, <1>4, <1>6, <2>1 DEF FileInv, Passed, PassedBy, Size
  <2>3. Looked(src)'
    <3> SUFFICES ASSUME NEW i \in Inodes \ rewritten
                 PROVE  LookedAt(i, src.files[i], IsDrained(src, i))'
      BY <1>1 DEF Looked
    <3>1. LookedAt(i, src.files[i], IsDrained(src, i))
      BY <2>1 DEF FileInv, Looked
    <3>2. ~ IsDrained(src, i)'
      BY <1>4, <1>5, <2>1 DEF IsDrained
    <3> QED BY <1>1, <1>4, <1>6, <3>1, <3>2 DEF LookedAt, Size
  <2>4. Flushed(src)'
    BY <1>1, <1>4, <1>5, <1>6, <2>1 DEF FileInv, Flushed
  <2> QED BY <2>2, <2>3, <2>4
<1>20. ExhaustedMeansRead'
  BY <1>1, <1>4, <1>5 DEF FileInv, ExhaustedMeansRead, Size, Settled
<1>21. (conf.eof = "stop" => rewritten = {})'
  BY <1>1 DEF FileInv
<1> QED BY <1>10, <1>11, <1>12, <1>13, <1>14, <1>15, <1>16, <1>17, <1>18, <1>19, <1>20, <1>21
        DEF FileInv

\* The committer writes the document.
LEMMA PersistStep ==
  ASSUME FileInv, Persist
  PROVE  FileInv'
<1>1. /\ UNCHANGED <<conf, disk, src, emitted, accepted, rewritten, left>> /\ doc # <<>>
      /\ durable' = [files |-> doc[1], legacy |-> 0] /\ doc' = <<>>
  BY DEF Persist
<1>2. PICK f \in [Inodes -> Nat] : doc = <<f>>
  BY <1>1 DEF FileInv, FileTypes
<1>3. durable'.files = f /\ durable'.legacy = 0 /\ doc[1] = f
      /\ durable' \in [files : [Inodes -> Nat], legacy : Nat]
  BY <1>1, <1>2
<1>4. \A i, v : Covered(i, v)' <=> Covered(i, v)
  BY <1>1 DEF Covered, Settled, Size
<1>5. FileTypes'
  BY <1>1, <1>3 DEF FileInv, FileTypes
<1>6. Stored'
  BY <1>1, <1>3, <1>4 DEF FileInv, Stored
<1>7. Resumable(src)' /\ Acknowledged' /\ Legacy'
  BY <1>1, <1>3, <1>4 DEF FileInv, Resumable, Acknowledged, Legacy
<1>8. Listed(src)' /\ Grouped(src)' /\ Known(src)' /\ Batched(src)' /\ Numbered'
  BY <1>1 DEF FileInv, Listed, Grouped, GroupOf, Known, InTodo, Batched, Size, Numbered
<1>9. src'.phase # "ended" => Passed(src, emitted)' /\ Looked(src)' /\ Flushed(src)'
  BY <1>1 DEF FileInv, Passed, PassedBy, Looked, LookedAt, IsDrained, InTodo, Flushed, Size
<1>10. ExhaustedMeansRead' /\ (conf.eof = "stop" => rewritten = {})'
  BY <1>1 DEF FileInv, ExhaustedMeansRead, Size, Settled
<1> QED BY <1>5, <1>6, <1>7, <1>8, <1>9, <1>10 DEF FileInv

\* A source that was just constructed has read nothing.
LEMMA FreshSound ==
  ASSUME disk \in DiskRecord, NEW st \in [files : [Inodes -> Nat], legacy : Nat],
         NEW ph \in {"idle", "down"}, NEW em, NEW s, s = Fresh(st, ph),
         conf.start = "beginning" => \A i \in Inodes \ rewritten : Covered(i, st.files[i])
  PROVE  /\ s \in SrcRecord /\ s.phase = ph /\ s.legacy \in {0, st.legacy} /\ s.nextSeq = 0
         /\ s.pending = {} /\ s.tracked = {}
         /\ Listed(s) /\ Resumable(s) /\ Grouped(s) /\ Known(s) /\ Batched(s)
         /\ Passed(s, em) /\ Looked(s) /\ Flushed(s)
<1>1. PICK fs : fs = [i \in Inodes |-> NoEntry]
  OBVIOUS
<1>2. PICK bp : bp = [q \in Paths |-> None]
  OBVIOUS
<1>3. PICK lg : lg = IF "log.1" \notin conf.glob THEN st.legacy ELSE 0
  OBVIOUS
<1>4. st.files \in [Inodes -> Nat] /\ lg \in Nat /\ lg \in {0, st.legacy} /\ ph \in Phases
      /\ fs \in [Inodes -> EntryRecord] /\ bp \in [Paths -> Inodes \cup {None}]
      /\ <<>> \in Seq(Inodes \cup Paths)
  BY <1>1, <1>2, <1>3, NoEntryFields, EmptySeq DEF Phases
<1>5. s = [phase |-> ph, first |-> TRUE, em |-> FALSE, todo |-> <<>>, seen |-> {},
           failed |-> {}, reads |-> {}, files |-> fs, tracked |-> {}, byPath |-> bp,
           ignored |-> {}, carry |-> st.files, legacy |-> lg, pending |-> {},
           nextSeq |-> 0, last |-> 0]
  BY <1>1, <1>2, <1>3 DEF Fresh
<1>6. s \in SrcRecord
  BY <1>4, <1>5 DEF SrcRecord
<1>7. /\ s.phase = ph /\ s.legacy = lg /\ s.nextSeq = 0 /\ s.pending = {} /\ s.tracked = {}
      /\ s.seen = {} /\ s.files = fs /\ s.carry = st.files
  BY <1>5
<1>8. (\A i \in Inodes : s.files[i] = NoEntry /\ ~ IsDrained(s, i) /\ Size(i) \in Nat)
      /\ s.phase \notin InScan
  BY <1>1, <1>7, DiskFields DEF IsDrained, InScan
<1>9. Listed(s) /\ Known(s) /\ Batched(s)
  BY <1>7, <1>8 DEF Listed, Known, Batched, InScan
<1>10. Resumable(s)
  BY <1>7, <1>8, NoEntryFields DEF Resumable, Covered
<1>11. Grouped(s) /\ Flushed(s)
  BY <1>8, NoEntryFields DEF Grouped, GroupOf, Flushed
<1>12. Passed(s, em)
  BY <1>8, NoEntryFields DEF Passed, PassedBy
<1>13. Looked(s)
  BY <1>8, NoEntryFields DEF Looked, LookedAt
<1> QED BY <1>4, <1>6, <1>7, <1>9, <1>10, <1>11, <1>12, <1>13

\* A run begins or ends: only the store and the files remain.
LEMMA FreshStep ==
  ASSUME FileInv, NEW st \in [files : [Inodes -> Nat], legacy : Nat], NEW ph \in {"idle", "down"},
         st.legacy \in {0, conf.legacy},
         conf.start = "beginning" => \A i \in Inodes \ rewritten : Covered(i, st.files[i]),
         src' = Fresh(st, ph), accepted' = 0, doc' \in {doc, <<>>}, Spent,
         UNCHANGED <<conf, disk, durable, emitted, rewritten>>
  PROVE  FileInv'
<1>1. PICK s : s = Fresh(st, ph)
  OBVIOUS
<1>2. disk \in DiskRecord /\ conf \in FileSetups /\ src' = s
  BY <1>1 DEF FileInv, FileTypes
<1>3. /\ s \in SrcRecord /\ s.phase = ph /\ s.legacy \in {0, st.legacy} /\ s.nextSeq = 0
      /\ s.pending = {} /\ s.tracked = {}
      /\ Listed(s) /\ Resumable(s) /\ Grouped(s) /\ Known(s) /\ Batched(s)
      /\ Passed(s, emitted) /\ Looked(s) /\ Flushed(s)
  BY <1>1, <1>2, FreshSound
<1>4. \A i, v : Covered(i, v)' <=> Covered(i, v)
  BY DEF Covered, Settled, Size
<1>5. FileTypes'
  BY <1>2, <1>3 DEF FileInv, FileTypes, Spent
<1>6. Stored'
  BY <1>4 DEF FileInv, Stored
<1>7. Resumable(src)'
  BY <1>2, <1>3, <1>4 DEF Resumable
<1>8. Acknowledged' /\ Numbered'
  <2>1. src'.pending = {} /\ src'.nextSeq = 0
    BY <1>2, <1>3
  <2> QED BY <2>1 DEF Acknowledged, Numbered
<1>9. Legacy'
  <2>1. left.rotations \in Nat /\ left.truncations \in Nat /\ conf.may.rotations \in Nat
        /\ conf.may.truncations \in Nat
    BY <1>2, ConfFields DEF FileInv, FileTypes, LeftRecord
  <2>2. left'.rotations \in Nat /\ left'.truncations \in Nat
    BY DEF Spent, LeftRecord
  <2>3. left'.rotations <= conf.may.rotations /\ left'.truncations <= conf.may.truncations
    BY <2>1, <2>2 DEF FileInv, Legacy, Spent
  <2>4. src'.legacy \in {0, conf.legacy} /\ durable'.legacy \in {0, conf.legacy}
    BY <1>2, <1>3 DEF FileInv, Legacy
  <2> QED BY <1>4, <2>3, <2>4 DEF FileInv, Legacy
<1>10. Listed(src)' /\ Grouped(src)' /\ Known(src)'
  BY <1>2, <1>3 DEF Listed, Grouped, GroupOf, Known, InTodo
<1>11. Batched(src)'
  BY <1>2, <1>3 DEF Batched, InTodo, Size
<1>12. Passed(src, emitted)' /\ Looked(src)' /\ Flushed(src)'
  BY <1>2, <1>3 DEF Passed, PassedBy, Looked, LookedAt, IsDrained, InTodo, Flushed, Size
<1>13. ExhaustedMeansRead' /\ (conf.eof = "stop" => rewritten = {})'
  BY <1>2, <1>3 DEF FileInv, ExhaustedMeansRead
<1> QED BY <1>5, <1>6, <1>7, <1>8, <1>9, <1>10, <1>11, <1>12, <1>13 DEF FileInv

\* The next run begins from the stored offsets.
LEMMA StartStep ==
  ASSUME FileInv, Start
  PROVE  FileInv'
<1>1. /\ src' = Fresh(durable, "idle") /\ accepted' = 0 /\ left' = left /\ doc' \in {doc, <<>>}
      /\ UNCHANGED <<conf, disk, durable, emitted, rewritten>>
  BY DEF Start
<1>2. Spent
  BY <1>1, NothingSpent DEF FileInv
<1>3. durable \in [files : [Inodes -> Nat], legacy : Nat] /\ durable.legacy \in {0, conf.legacy}
  BY DEF FileInv, FileTypes, Legacy
<1>4. conf.start = "beginning" => \A i \in Inodes \ rewritten : Covered(i, durable.files[i])
  BY DEF FileInv, Stored
<1> QED BY <1>1, <1>2, <1>3, <1>4, FreshStep

\* The memory of the source is lost.
LEMMA DownStep ==
  ASSUME FileInv, Down
  PROVE  FileInv'
<1>1. /\ src' = Fresh(NoState, "down") /\ accepted' = 0 /\ doc' \in {doc, <<>>}
      /\ UNCHANGED <<conf, disk, durable, emitted, rewritten>>
      /\ left.restarts > 0 /\ Used("restarts") /\ disk \in DiskRecord
  BY DEF Down, FileInv, FileTypes
<1>2. Spent
  <2>1. left \in LeftRecord /\ left.restarts - 1 \in Nat
    BY <1>1 DEF FileInv, FileTypes, LeftRecord
  <2>2. left' \in LeftRecord
    BY <1>1, <2>1 DEF Used, LeftRecord
  <2>3. left'.rotations = left.rotations /\ left'.truncations = left.truncations
    BY <1>1, <2>1 DEF Used, LeftRecord
  <2> QED BY <2>1, <2>2, <2>3 DEF Spent, LeftRecord
<1>3. NoState \in [files : [Inodes -> Nat], legacy : Nat] /\ NoState.legacy = 0
      /\ \A i \in Inodes : NoState.files[i] = 0
  BY DEF NoState
<1>4. \A i \in Inodes \ rewritten : Covered(i, NoState.files[i])
  BY <1>1, <1>3, DiskFields DEF Covered
<1> QED BY <1>1, <1>2, <1>3, <1>4, FreshStep

\* The invariant holds initially.
LEMMA FileFirst == FileInit => FileInv
<1> SUFFICES ASSUME FileInit PROVE FileInv
  OBVIOUS
<1>1. conf \in FileSetups /\ Min(Inodes) \in Inodes
  BY FirstInode DEF FileInit
<1>2. /\ conf.legacy \in Nat /\ conf.content \in Seq(LineRecord) /\ conf.half \in BOOLEAN
      /\ conf.may \in LeftRecord /\ conf.legacy <= Len(conf.content)
      /\ Len(conf.content) \in Nat
  BY <1>1, ConfFields, LenProperties
<1>3. /\ disk.at = [p \in Paths |-> IF p = "log" THEN Min(Inodes) ELSE None]
      /\ disk.data = [i \in Inodes |-> IF i = Min(Inodes) THEN conf.content ELSE <<>>]
      /\ disk.data[Min(Inodes)] = conf.content
  BY <1>1 DEF FileInit
<1>4. disk \in DiskRecord
  <2>1. [p \in Paths |-> IF p = "log" THEN Min(Inodes) ELSE None] \in [Paths -> Inodes \cup {None}]
    BY <1>1
  <2>2. <<>> \in Seq(LineRecord)
    BY EmptySeq
  <2>3. [i \in Inodes |-> IF i = Min(Inodes) THEN conf.content ELSE <<>>]
          \in [Inodes -> Seq(LineRecord)]
    BY <1>2, <2>2
  <2>4. [i \in Inodes |-> i = Min(Inodes) /\ conf.half] \in [Inodes -> BOOLEAN]
    BY <1>2
  <2>5. [i \in Inodes |-> IF i = Min(Inodes) THEN 1 ELSE 0] \in [Inodes -> Nat]
    OBVIOUS
  <2>6. Len(conf.content) + 1 \in Nat
    BY <1>2
  <2> QED BY <2>1, <2>3, <2>4, <2>5, <2>6 DEF FileInit, DiskRecord
<1>5. /\ durable \in [files : [Inodes -> Nat], legacy : Nat] /\ durable.legacy = conf.legacy
      /\ \A i \in Inodes : durable.files[i] = 0
  BY <1>2 DEF FileInit, NoState
<1>6. \A i \in Inodes : Covered(i, durable.files[i])
  BY <1>4, <1>5, DiskFields DEF Covered
<1>7. src = Fresh(durable, "down")
  BY DEF FileInit
<1>8. /\ src \in SrcRecord /\ src.phase = "down" /\ src.legacy \in {0, durable.legacy}
      /\ src.nextSeq = 0 /\ src.pending = {} /\ src.tracked = {}
      /\ Listed(src) /\ Resumable(src) /\ Grouped(src) /\ Known(src) /\ Batched(src)
      /\ Passed(src, emitted) /\ Looked(src) /\ Flushed(src)
  <2>1. PICK s : s = src
    OBVIOUS
  <2>2. /\ s \in SrcRecord /\ s.phase = "down" /\ s.legacy \in {0, durable.legacy}
        /\ s.nextSeq = 0 /\ s.pending = {} /\ s.tracked = {}
        /\ Listed(s) /\ Resumable(s) /\ Grouped(s) /\ Known(s) /\ Batched(s)
        /\ Passed(s, emitted) /\ Looked(s) /\ Flushed(s)
    BY <1>4, <1>5, <1>6, <1>7, <2>1, FreshSound
  <2> QED BY <2>1, <2>2
<1>9. doc = <<>> /\ accepted = 0 /\ rewritten = {} /\ left = conf.may
      /\ emitted = {conf.content[k].n : k \in 1..conf.legacy}
  BY DEF FileInit
<1>10. emitted \subseteq Nat
  <2>1. \A k \in 1..conf.legacy : conf.content[k] \in LineRecord
    BY <1>2, ElementOfSeq
  <2> QED BY <1>9, <2>1 DEF LineRecord
<1>11. Covered(Min(Inodes), conf.legacy)
  BY <1>2, <1>3, <1>9 DEF Covered, Settled, Size
<1>12. FileTypes
  BY <1>1, <1>2, <1>4, <1>5, <1>8, <1>9, <1>10 DEF FileTypes
<1>13. Legacy
  BY <1>2, <1>3, <1>5, <1>8, <1>9, <1>11 DEF Legacy, LeftRecord
<1>14. Stored /\ Acknowledged /\ Numbered
  BY <1>6, <1>8, <1>9 DEF Stored, Acknowledged, Numbered
<1>15. ExhaustedMeansRead
  BY <1>8 DEF ExhaustedMeansRead
<1> QED BY <1>8, <1>9, <1>12, <1>13, <1>14, <1>15 DEF FileInv

\* A writer adds to a file, or replaces its content and is remembered for it.
LEMMA DiskStep ==
  ASSUME FileInv, UNCHANGED <<conf, src, durable, doc, emitted, accepted>>, Spent,
         disk' \in DiskRecord, rewritten \subseteq rewritten', rewritten' \subseteq Inodes,
         \A j \in Inodes \ rewritten' :
           /\ Len(disk.data[j]) <= Len(disk'.data[j])
           /\ \A k \in 1..Len(disk.data[j]) : disk'.data[j][k] = disk.data[j][k],
         conf.may.rotations = 0 => disk'.at = disk.at,
         conf.eof = "stop" => disk'.data = disk.data /\ rewritten' = rewritten
  PROVE  FileInv'
<1>1. disk \in DiskRecord /\ conf \in FileSetups /\ src \in SrcRecord
  BY DEF FileInv, FileTypes
<1>2. \A i \in Inodes : Size(i) \in Nat
  BY <1>1, DiskFields
<1>3. \A i \in Inodes : Size(i)' \in Nat
  <2>1. disk'.data \in [Inodes -> Seq(LineRecord)]
    BY DEF DiskRecord
  <2> QED BY <2>1, LenProperties DEF Size
<1>4. \A i \in Inodes \ rewritten' :
        Size(i) <= Size(i)' /\ \A k \in 1..Size(i) : disk'.data[i][k] = disk.data[i][k]
  BY DEF Size
<1>5. ASSUME NEW i \in Inodes \ rewritten', NEW v \in Nat, Covered(i, v) PROVE Covered(i, v)'
  <2>1. v <= Size(i) /\ \A k \in 1..v : Settled(disk.data[i][k])
    BY <1>5 DEF Covered
  <2>2. v <= Size(i)'
    BY <1>2, <1>3, <1>4, <2>1
  <2>3. \A k \in 1..v : disk'.data[i][k] = disk.data[i][k]
    BY <1>2, <1>4, <2>1
  <2>4. \A k \in 1..v : Settled(disk.data[i][k])'
    BY <2>1, <2>3 DEF Settled
  <2> QED BY <2>2, <2>4 DEF Covered
<1>6. FileTypes'
  BY DEF FileInv, FileTypes, Spent
<1>7. Stored'
  <2> SUFFICES ASSUME conf.start = "beginning", NEW i \in Inodes \ rewritten'
               PROVE  Covered(i, durable.files[i])' /\ (doc # <<>> => Covered(i, doc[1][i])')
    BY DEF Stored
  <2>1. durable.files[i] \in Nat /\ (doc # <<>> => doc[1][i] \in Nat)
    BY DEF FileInv, FileTypes
  <2>2. Covered(i, durable.files[i]) /\ (doc # <<>> => Covered(i, doc[1][i]))
    BY DEF FileInv, Stored
  <2>3. PICK v : v = durable.files[i]
    OBVIOUS
  <2>4. durable'.files[i] = v
    BY <2>3
  <2>5. Covered(i, v)'
    BY <1>5, <2>1, <2>2, <2>3
  <2>6. ASSUME doc # <<>> PROVE Covered(i, doc[1][i])'
    <3>1. PICK w : w = doc[1][i]
      OBVIOUS
    <3>2. Covered(i, w)'
      BY <1>5, <2>1, <2>2, <2>6, <3>1
    <3>3. doc'[1][i] = w
      BY <3>1
    <3> QED BY <3>2, <3>3 DEF Covered
  <2> QED BY <2>4, <2>5, <2>6 DEF Covered
<1>8. Resumable(src)'
  <2> SUFFICES ASSUME conf.start = "beginning", NEW i \in Inodes \ rewritten',
                      NEW v \in {src.carry[i], src.files[i].committed}
               PROVE  Covered(i, v)'
    BY DEF Resumable, Covered
  <2>1. v \in Nat
    BY <1>1, SrcFields, EntryFields
  <2>2. Covered(i, v)
    BY DEF FileInv, Resumable
  <2> QED BY <1>5, <2>1, <2>2
<1>9. Acknowledged'
  <2> SUFFICES ASSUME conf.start = "beginning", NEW q \in src.pending, q.seq <= accepted,
                      q.id \notin rewritten'
               PROVE  Covered(q.id, q.end)'
    BY DEF Acknowledged
  <2>1. q.id \in Inodes \ rewritten' /\ q.end \in Nat
    BY <1>1, SrcFields DEF Emission
  <2>2. Covered(q.id, q.end)
    BY DEF FileInv, Acknowledged
  <2> QED BY <1>5, <2>1, <2>2
<1>10. Legacy'
  <2>1. left.rotations \in Nat /\ left.truncations \in Nat /\ conf.may.rotations \in Nat
        /\ conf.may.truncations \in Nat /\ conf.legacy \in Nat
    BY <1>1, ConfFields DEF FileInv, FileTypes, LeftRecord
  <2>2. left'.rotations \in Nat /\ left'.truncations \in Nat
    BY DEF Spent, LeftRecord
  <2>3. left'.rotations <= conf.may.rotations /\ left'.truncations <= conf.may.truncations
    BY <2>1, <2>2 DEF FileInv, Legacy, Spent
  <2>4. ASSUME Min(Inodes) \notin rewritten' PROVE Covered(Min(Inodes), conf.legacy)'
    <3>1. Covered(Min(Inodes), conf.legacy) /\ Min(Inodes) \in Inodes \ rewritten'
      BY <2>4, FirstInode DEF FileInv, Legacy
    <3>2. PICK v : v = conf.legacy
      OBVIOUS
    <3>3. Covered(Min(Inodes), v)'
      BY <1>5, <2>1, <3>1, <3>2
    <3> QED BY <3>2, <3>3 DEF Covered
  <2>5. conf.may.rotations = 0 =>
          disk'.at = [p \in Paths |-> IF p = "log" THEN Min(Inodes) ELSE None]
    BY DEF FileInv, Legacy
  <2>6. src'.legacy \in {0, conf'.legacy} /\ durable'.legacy \in {0, conf'.legacy}
    BY DEF FileInv, Legacy
  <2> QED BY <2>3, <2>4, <2>5, <2>6 DEF Legacy
<1>11. Listed(src)' /\ Grouped(src)' /\ Known(src)' /\ Numbered'
  BY DEF FileInv, Listed, Grouped, GroupOf, Known, InTodo, Numbered
<1>12. Batched(src)'
  BY DEF FileInv, Batched, InTodo, Size
<1>13. (conf.eof = "stop" => rewritten = {})'
  BY DEF FileInv
<1>14. ASSUME src.phase # "ended"
       PROVE  Passed(src, emitted)' /\ Looked(src)' /\ Flushed(src)'
  <2>1. Passed(src, emitted)'
    <3> SUFFICES ASSUME conf.start = "beginning", NEW i \in Inodes \ rewritten'
                 PROVE  PassedBy(i, src.files[i], emitted)'
      BY DEF Passed
    <3>1. PassedBy(i, src.files[i], emitted) /\ src.files[i].offset \in Nat
      BY <1>1, <1>14, SrcFields, EntryFields DEF FileInv, Passed
    <3>2. src.files[i].offset <= Size(i)'
      BY <1>2, <1>3, <1>4, <3>1 DEF PassedBy
    <3>3. \A k \in 1..src.files[i].offset : disk'.data[i][k] = disk.data[i][k]
      BY <1>2, <1>4, <3>1 DEF PassedBy
    <3> QED BY <3>1, <3>2, <3>3 DEF PassedBy
  <2>2. Looked(src)'
    <3> SUFFICES ASSUME NEW i \in Inodes \ rewritten'
                 PROVE  LookedAt(i, src.files[i], IsDrained(src, i))'
      BY DEF Looked
    <3>1. LookedAt(i, src.files[i], IsDrained(src, i))
      BY <1>14 DEF FileInv, Looked
    <3>2. src.files[i].size \in Nat /\ src.files[i].offset \in Nat
      BY <1>1, SrcFields, EntryFields
    <3>3. src.files[i].size <= Size(i)'
          /\ (src.files[i].partial = 1 => src.files[i].offset < Size(i)')
      BY <1>2, <1>3, <1>4, <3>1, <3>2 DEF LookedAt
    <3>4. IsDrained(src, i)' <=> IsDrained(src, i)
      BY DEF IsDrained, InTodo
    <3> QED BY <3>1, <3>3, <3>4 DEF LookedAt
  <2>3. Flushed(src)'
    BY <1>14 DEF FileInv, Flushed
  <2> QED BY <2>1, <2>2, <2>3
<1>15. ExhaustedMeansRead'
  <2> SUFFICES ASSUME src.phase = "done", src.failed = {}
               PROVE  ExhaustedMeansRead'
    BY DEF ExhaustedMeansRead
  <2>1. conf.eof = "stop"
    BY DEF FileInv, Batched
  <2>2. disk'.data = disk.data /\ disk'.at = disk.at
    BY <1>1, <2>1, ConfFields
  <2> QED BY <2>2 DEF FileInv, ExhaustedMeansRead, Size, Settled
<1> QED BY <1>6, <1>7, <1>8, <1>9, <1>10, <1>11, <1>12, <1>13, <1>14, <1>15 DEF FileInv

\* A write moves the time stamp and nothing else.
LEMMA TouchedFields ==
  ASSUME disk \in DiskRecord, NEW i \in Inodes, NEW d, d = Touched(disk, i)
  PROVE  d \in DiskRecord /\ d.at = disk.at /\ d.data = disk.data /\ d.half = disk.half
         /\ d.next = disk.next
<1>1. disk.clock + 1 \in Nat /\ disk.old \ {i} \subseteq Inodes
  BY DiskFields
<1>2. PICK st : st = [disk.stamp EXCEPT ![i] = disk.clock + 1]
  OBVIOUS
<1>3. st \in [Inodes -> Nat]
  BY <1>1, <1>2, DiskFields
<1>4. d = [disk EXCEPT !.stamp = st, !.clock = disk.clock + 1, !.old = disk.old \ {i}]
  BY <1>2 DEF Touched, DiskRecord
<1> QED BY <1>1, <1>3, <1>4 DEF DiskRecord

\* A file a path leads to is one of the inodes.
LEMMA LinkedFile ==
  ASSUME disk \in DiskRecord, NEW i \in Linked
  PROVE  i \in Inodes
BY DiskFields DEF Linked

\* A bound is used.
LEMMA BoundSpent ==
  ASSUME FileTypes, NEW w \in {"writes", "rotations", "truncations"}, left[w] > 0, Used(w)
  PROVE  Spent
<1>1. left \in LeftRecord
  BY DEF FileTypes
<1>2. CASE w = "writes"
  <2>1. left.writes - 1 \in Nat
    BY <1>1, <1>2 DEF LeftRecord
  <2>2. left' = [left EXCEPT !.writes = left.writes - 1]
    BY <1>2 DEF Used
  <2>3. left' \in LeftRecord
    BY <1>1, <2>1, <2>2 DEF LeftRecord
  <2>4. left'.rotations = left.rotations /\ left'.truncations = left.truncations
    BY <1>1, <2>2 DEF LeftRecord
  <2> QED BY <1>1, <2>3, <2>4 DEF Spent, LeftRecord
<1>3. CASE w = "rotations"
  <2>1. left.rotations - 1 \in Nat
    BY <1>1, <1>3 DEF LeftRecord
  <2>2. left' = [left EXCEPT !.rotations = left.rotations - 1]
    BY <1>3 DEF Used
  <2>3. left' \in LeftRecord
    BY <1>1, <2>1, <2>2 DEF LeftRecord
  <2>4. left'.rotations = left.rotations - 1 /\ left'.truncations = left.truncations
    BY <1>1, <2>2 DEF LeftRecord
  <2> QED BY <1>1, <2>3, <2>4 DEF Spent, LeftRecord
<1>4. CASE w = "truncations"
  <2>1. left.truncations - 1 \in Nat
    BY <1>1, <1>4 DEF LeftRecord
  <2>2. left' = [left EXCEPT !.truncations = left.truncations - 1]
    BY <1>4 DEF Used
  <2>3. left' \in LeftRecord
    BY <1>1, <2>1, <2>2 DEF LeftRecord
  <2>4. left'.rotations = left.rotations /\ left'.truncations = left.truncations - 1
    BY <1>1, <2>2 DEF LeftRecord
  <2> QED BY <1>1, <2>3, <2>4 DEF Spent, LeftRecord
<1> QED BY <1>2, <1>3, <1>4

\* A line is appended.
LEMMA AppendStep ==
  ASSUME FileInv, NEW i \in Inodes, NEW k \in conf.kinds, NEW h \in BOOLEAN, Append_(i, k, h)
  PROVE  FileInv'
<1>1. /\ FileTypes /\ disk \in DiskRecord /\ conf \in FileSetups
      /\ UNCHANGED <<conf, src, durable, doc, emitted, accepted, rewritten>>
  BY DEF Append_, FileInv, FileTypes
<1>2. Spent
  BY <1>1, BoundSpent DEF Append_
<1>3. conf.eof # "stop" /\ k \in {"msg", "cont", "drop"}
  BY <1>1, ConfFields
<1>4. PICK d : d = Touched(disk, i)
  OBVIOUS
<1>5. d \in DiskRecord /\ d.at = disk.at /\ d.data = disk.data /\ d.half = disk.half
      /\ d.next = disk.next /\ disk.next \in Nat
  BY <1>1, <1>4, TouchedFields, DiskFields
<1>6. PICK l : l = [n |-> disk.next, k |-> k]
  OBVIOUS
<1>7. l \in LineRecord
  BY <1>3, <1>5, <1>6 DEF LineRecord
<1>8. disk.data \in [Inodes -> Seq(LineRecord)] /\ disk.data[i] \in Seq(LineRecord)
  BY <1>1, DiskFields
<1>9. PICK t : t = Append(disk.data[i], l)
  OBVIOUS
<1>10. t \in Seq(LineRecord) /\ Len(t) = Len(disk.data[i]) + 1 /\ Len(disk.data[i]) \in Nat
       /\ \A m \in 1..Len(disk.data[i]) : t[m] = disk.data[i][m]
  BY <1>7, <1>8, <1>9, AppendProperties, LenProperties
<1>11. PICK dt : dt = [disk.data EXCEPT ![i] = t]
  OBVIOUS
<1>12. PICK hf : hf = [disk.half EXCEPT ![i] = h]
  OBVIOUS
<1>13. dt \in [Inodes -> Seq(LineRecord)] /\ hf \in [Inodes -> BOOLEAN] /\ disk.next + 1 \in Nat
  BY <1>1, <1>5, <1>8, <1>10, <1>11, <1>12, DiskFields
<1>14. disk' = [d EXCEPT !.data = dt, !.half = hf, !.next = disk.next + 1]
  BY <1>4, <1>5, <1>6, <1>9, <1>11, <1>12 DEF Append_, DiskRecord
<1>15. disk' \in DiskRecord /\ disk'.at = disk.at /\ disk'.data = dt
  BY <1>5, <1>13, <1>14 DEF DiskRecord
<1>16. \A j \in Inodes :
         /\ Len(disk.data[j]) <= Len(disk'.data[j])
         /\ \A m \in 1..Len(disk.data[j]) : disk'.data[j][m] = disk.data[j][m]
  <2> TAKE j \in Inodes
  <2>1. CASE j = i
    <3>1. disk'.data[j] = t
      BY <1>8, <1>11, <1>15, <2>1
    <3> QED BY <1>10, <2>1, <3>1
  <2>2. CASE j # i
    <3>1. disk'.data[j] = disk.data[j] /\ Len(disk.data[j]) \in Nat
      BY <1>8, <1>11, <1>15, <2>2, LenProperties
    <3> QED BY <3>1
  <2> QED BY <2>1, <2>2
<1>17. rewritten \subseteq rewritten' /\ rewritten' \subseteq Inodes
  BY <1>1 DEF FileTypes
<1> QED BY <1>1, <1>2, <1>3, <1>15, <1>16, <1>17, DiskStep

\* The last line is terminated, or a file gets old.
LEMMA FinishStep ==
  ASSUME FileInv, NEW i \in Inodes, Finish(i) \/ Age(i)
  PROVE  FileInv'
<1>1. /\ FileTypes /\ disk \in DiskRecord
      /\ UNCHANGED <<conf, src, durable, doc, emitted, accepted, rewritten, left>>
  BY DEF Finish, Age, FileInv, FileTypes
<1>2. Spent
  BY <1>1, NothingSpent
<1>3. disk' \in DiskRecord /\ disk'.at = disk.at /\ disk'.data = disk.data
  <2>1. CASE Finish(i)
    <3>1. PICK d : d = Touched(disk, i)
      OBVIOUS
    <3>2. d \in DiskRecord /\ d.at = disk.at /\ d.data = disk.data /\ d.half = disk.half
      BY <1>1, <3>1, TouchedFields
    <3>3. PICK hf : hf = [disk.half EXCEPT ![i] = FALSE]
      OBVIOUS
    <3>4. hf \in [Inodes -> BOOLEAN]
      BY <1>1, <3>3, DiskFields
    <3>5. disk' = [d EXCEPT !.half = hf]
      BY <2>1, <3>1, <3>2, <3>3 DEF Finish, DiskRecord
    <3> QED BY <3>2, <3>4, <3>5 DEF DiskRecord
  <2>2. CASE Age(i)
    <3>1. disk.old \cup {i} \subseteq Inodes
      BY <1>1, DiskFields
    <3>2. disk' = [disk EXCEPT !.old = disk.old \cup {i}]
      BY <1>1, <2>2 DEF Age, DiskRecord
    <3> QED BY <1>1, <3>1, <3>2 DEF DiskRecord
  <2> QED BY <2>1, <2>2
<1>4. \A j \in Inodes : Len(disk.data[j]) <= Len(disk'.data[j])
  BY <1>1, <1>3, DiskFields DEF Size
<1>5. rewritten \subseteq rewritten' /\ rewritten' \subseteq Inodes
  BY <1>1 DEF FileTypes
<1> QED BY <1>1, <1>2, <1>3, <1>4, <1>5, DiskStep

\* The content of file i is replaced by none.
LEMMA EmptiedStep ==
  ASSUME FileInv, NEW i \in Inodes, Rotate(i) \/ Truncate(i)
  PROVE  FileInv'
<1>1. /\ FileTypes /\ disk \in DiskRecord /\ conf \in FileSetups
      /\ UNCHANGED <<conf, src, durable, doc, emitted, accepted>>
  BY DEF Rotate, Truncate, FileInv, FileTypes
<1>2. Spent
  BY <1>1, BoundSpent DEF Rotate, Truncate
<1>3. left.rotations \in Nat /\ left.truncations \in Nat
      /\ conf.may.rotations \in Nat /\ conf.may.truncations \in Nat
      /\ left.rotations <= conf.may.rotations /\ left.truncations <= conf.may.truncations
  BY <1>1, ConfFields DEF FileInv, FileTypes, Legacy, LeftRecord
<1>4. conf.eof # "stop" /\ (Rotate(i) => conf.may.rotations # 0)
  <2>1. Rotate(i) => left.rotations > 0
    BY DEF Rotate
  <2>2. Truncate(i) => left.truncations > 0
    BY DEF Truncate
  <2> QED BY <1>1, <1>3, <2>1, <2>2, ConfFields
<1>5. PICK d : d = Touched(disk, i)
  OBVIOUS
<1>6. d \in DiskRecord /\ d.at = disk.at /\ d.data = disk.data /\ d.half = disk.half
  BY <1>1, <1>5, TouchedFields
<1>7. disk.data \in [Inodes -> Seq(LineRecord)] /\ <<>> \in Seq(LineRecord)
      /\ disk.at \in [Paths -> Inodes \cup {None}]
  BY <1>1, DiskFields, EmptySeq
<1>8. PICK dt : dt = [disk.data EXCEPT ![i] = <<>>]
  OBVIOUS
<1>9. PICK hf : hf = [disk.half EXCEPT ![i] = FALSE]
  OBVIOUS
<1>10. dt \in [Inodes -> Seq(LineRecord)] /\ hf \in [Inodes -> BOOLEAN]
  BY <1>1, <1>7, <1>8, <1>9, DiskFields
<1>11. disk' \in DiskRecord /\ disk'.data = dt /\ (Truncate(i) => disk'.at = disk.at)
  <2>1. CASE Truncate(i)
    <3>1. disk' = [d EXCEPT !.data = dt, !.half = hf]
      BY <1>5, <1>6, <1>8, <1>9, <2>1 DEF Truncate, DiskRecord
    <3> QED BY <1>6, <1>10, <3>1 DEF DiskRecord
  <2>2. CASE Rotate(i)
    <3>1. PICK at : at = [p \in Paths |-> IF p = "log" THEN i ELSE disk.at["log"]]
      OBVIOUS
    <3>2. at \in [Paths -> Inodes \cup {None}]
      BY <1>7, <3>1 DEF Paths
    <3>3. disk' = [d EXCEPT !.at = at, !.data = dt, !.half = hf]
      BY <1>5, <1>6, <1>8, <1>9, <2>2, <3>1 DEF Rotate, DiskRecord
    <3>4. disk' \in DiskRecord /\ disk'.data = dt
      BY <1>6, <1>10, <3>2, <3>3 DEF DiskRecord
    <3>5. Truncate(i) => disk'.at = disk.at
      <4> HAVE Truncate(i)
      <4>1. disk' = [d EXCEPT !.data = dt, !.half = hf]
        BY <1>5, <1>6, <1>8, <1>9 DEF Truncate, DiskRecord
      <4> QED BY <1>6, <4>1 DEF DiskRecord
    <3> QED BY <3>4, <3>5
  <2> QED BY <2>1, <2>2
<1>12. /\ rewritten \subseteq rewritten' /\ rewritten' \subseteq Inodes
       /\ i \notin rewritten' => disk.data[i] = <<>>
  BY <1>1 DEF FileTypes, Rotate, Truncate
<1>13. \A j \in Inodes \ rewritten' :
         /\ Len(disk.data[j]) <= Len(disk'.data[j])
         /\ \A m \in 1..Len(disk.data[j]) : disk'.data[j][m] = disk.data[j][m]
  <2> TAKE j \in Inodes \ rewritten'
  <2>1. disk'.data[j] = disk.data[j] /\ Len(disk.data[j]) \in Nat
    BY <1>7, <1>8, <1>11, <1>12, LenProperties
  <2> QED BY <2>1
<1> QED BY <1>1, <1>2, <1>4, <1>11, <1>12, <1>13, DiskStep
-----------------------------------------------------------------------------
\* Every step preserves the invariant.
LEMMA FileStep == FileInv /\ [FileNext]_fileVars => FileInv'
<1> SUFFICES ASSUME FileInv, [FileNext]_fileVars PROVE FileInv'
  OBVIOUS
<1>1. CASE Writer
  BY <1>1, AppendStep, FinishStep, EmptiedStep DEF Writer
<1>2. CASE Scan
  BY <1>2, PollStep, DiscoverStep, DiscoveringStep, DrainStep, ReadStep, FinalStep, AtEOFStep,
     ReadErrorStep, ReapingStep, ReapStep, ReapedStep, PolledStep DEF Scan
<1>3. CASE Start \/ Down \/ Persist
  BY <1>3, StartStep, DownStep, PersistStep
<1>4. CASE \E through \in 1..accepted : Commit(through)
  BY <1>4, CommitStep
<1>5. CASE UNCHANGED fileVars
  <2>1. Quiet /\ left' = left /\ UNCHANGED <<src, emitted, accepted>>
    BY <1>5 DEF fileVars, Quiet
  <2>2. Spent
    BY <2>1, NothingSpent DEF FileInv
  <2>3. disk \in DiskRecord
    BY DEF FileInv, FileTypes
  <2>4. \A j \in Inodes : Len(disk.data[j]) <= Len(disk'.data[j])
    BY <2>1, <2>3, DiskFields DEF Size, Quiet
  <2>5. rewritten' \subseteq Inodes /\ disk' \in DiskRecord
    BY <2>1, <2>3 DEF FileInv, FileTypes, Quiet
  <2> QED BY <2>1, <2>2, <2>4, <2>5, DiskStep DEF Quiet
<1> QED BY <1>1, <1>2, <1>3, <1>4, <1>5 DEF FileNext

\* The positions are those of the invariant.
LEMMA FilePositionsHold == FileInv => FilePositions
<1> SUFFICES ASSUME FileInv PROVE FilePositions
  OBVIOUS
<1>1. ResumesBehind
  BY DEF FileInv, Stored, Covered, ResumesBehind
<1>2. PassedMeansEmitted
  <2> SUFFICES ASSUME conf.start = "beginning", src.phase # "ended",
                      NEW i \in src.tracked \ rewritten, NEW k \in 1..src.files[i].offset
               PROVE  Settled(disk.data[i][k]) \/ disk.data[i][k].n \in src.files[i].group
    BY DEF PassedMeansEmitted
  <2>1. i \in Inodes \ rewritten
    BY SrcFields DEF FileInv, FileTypes
  <2>2. PassedBy(i, src.files[i], emitted)
    BY <2>1 DEF FileInv, Passed
  <2> QED BY <2>2 DEF PassedBy, Settled
<1> QED BY <1>1, <1>2 DEF FilePositions

-----------------------------------------------------------------------------
(* A file is forgotten only after it was read.                             *)

\* An emission leaves the tracked files as the step that emits has left them.
LEMMA EmitKeeps ==
  ASSUME "tracked" \in DOMAIN src, NEW s, DOMAIN s = DOMAIN src, s.tracked = src.tracked,
         NEW i, NEW lines, NEW end, Emit(s, i, lines, end)
  PROVE  src'.tracked = src.tracked
<1>1. PICK x : x = [seq |-> s.nextSeq + 1, id |-> i, end |-> end]
  OBVIOUS
<1>2. PICK r : r = [s EXCEPT !.nextSeq = @ + 1, !.em = TRUE, !.pending = @ \cup {x}]
  OBVIOUS
<1>3. src' = r \/ src' = [r EXCEPT !.phase = "ended"]
  BY <1>1, <1>2 DEF Emit
<1>4. DOMAIN r = DOMAIN s /\ r.tracked = s.tracked
  BY <1>2
<1> QED BY <1>3, <1>4

\* So does a flush.
LEMMA FlushKeeps ==
  ASSUME "tracked" \in DOMAIN src, NEW s, DOMAIN s = DOMAIN src, s.tracked = src.tracked,
         NEW i, FlushGroup(s, i)
  PROVE  src'.tracked = src.tracked
BY EmitKeeps DEF FlushGroup

\* And so does feeding a line.
LEMMA FeedKeeps ==
  ASSUME "tracked" \in DOMAIN src, NEW e, NEW i, NEW c, feedLine(e, i, c)
  PROVE  src'.tracked = src.tracked
<1>1. ASSUME NEW f, NEW s, s = [src EXCEPT !.files[i] = f, !.reads = @ \cup {i}]
      PROVE  DOMAIN s = DOMAIN src /\ s.tracked = src.tracked
  BY <1>1
<1>2. PICK joined : joined = [e EXCEPT !.group = @ \cup {c.n}, !.lines = @ + 1, !.end = e.offset]
  OBVIOUS
<1>3. PICK started : started = [e EXCEPT !.group = {c.n}, !.lines = 1, !.end = e.offset]
  OBVIOUS
<1>4. PICK s1 : s1 = [src EXCEPT !.files[i] = e, !.reads = @ \cup {i}]
  OBVIOUS
<1>5. PICK s2 : s2 = [src EXCEPT !.files[i] = joined, !.reads = @ \cup {i}]
  OBVIOUS
<1>6. PICK s3 : s3 = [src EXCEPT !.files[i] = started, !.reads = @ \cup {i}]
  OBVIOUS
<1>7. \/ src' = s1 \/ src' = s2 \/ Emit(s1, i, {c.n}, e.offset) \/ FlushGroup(s3, i)
  BY <1>2, <1>3, <1>4, <1>5, <1>6 DEF feedLine
<1>8. /\ DOMAIN s1 = DOMAIN src /\ s1.tracked = src.tracked
      /\ DOMAIN s2 = DOMAIN src /\ s2.tracked = src.tracked
      /\ DOMAIN s3 = DOMAIN src /\ s3.tracked = src.tracked
  BY <1>1, <1>4, <1>5, <1>6
<1> QED BY <1>7, <1>8, EmitKeeps, FlushKeeps

\* The steps that leave every tracked file tracked.
LEMMA KeepsTracked ==
  ASSUME FileInv, FileNext, ~ Reap, src'.phase # "down"
  PROVE  src.tracked \subseteq src'.tracked
<1>1. src \in SrcRecord /\ "tracked" \in DOMAIN src
  BY DEF FileInv, FileTypes, SrcRecord
<1>2. CASE Writer \/ Persist
  BY <1>2 DEF Writer, Append_, Finish, Rotate, Truncate, Age, Persist
<1>3. CASE Poll \/ Discovering \/ Reaping \/ Reaped \/ Polled
  BY <1>1, <1>3 DEF Poll, Discovering, Reaping, Reaped, Polled
<1>4. CASE discover
  BY <1>1, <1>4 DEF discover
<1>5. CASE Drain
  <2>1. PICK i : i = Head(src.todo)
    OBVIOUS
  <2>2. PICK f, g, h : f = NoGroup(Marked(i))
      /\ h = [Marked(i) EXCEPT !.size = Size(i), !.stamp = disk.stamp[i]]
      /\ g = Restarted(h)
    OBVIOUS
  <2>3. PICK s1 : s1 = [src EXCEPT !.files[i] = f, !.todo = Tail(@)]
    OBVIOUS
  <2>4. PICK s2 : s2 = [src EXCEPT !.files[i] = g, !.phase = "read"]
    OBVIOUS
  <2>5. PICK s3 : s3 = [src EXCEPT !.files[i] = h, !.phase = "read"]
    OBVIOUS
  <2>6. FlushGroup(s1, i) \/ FlushGroup(s2, i) \/ src' = s3
    BY <1>5, <2>1, <2>2, <2>3, <2>4, <2>5 DEF Drain
  <2>7. /\ DOMAIN s1 = DOMAIN src /\ s1.tracked = src.tracked
        /\ DOMAIN s2 = DOMAIN src /\ s2.tracked = src.tracked /\ s3.tracked = src.tracked
    BY <1>1, <2>3, <2>4, <2>5
  <2> QED BY <1>1, <2>6, <2>7, FlushKeeps
<1>6. CASE Read \/ FinalLine
  <2>1. PICK i : i = Head(src.todo)
    OBVIOUS
  <2>2. \/ \E e, c : feedLine(e, i, c)
        \/ \E f : src' = [src EXCEPT !.files[i] = f, !.reads = @ \cup {i}]
    BY <1>6, <2>1 DEF Read, FinalLine
  <2> QED BY <1>1, <2>2, FeedKeeps
<1>7. CASE AtEOF \/ ReadError
  <2>1. PICK i : i = Head(src.todo)
    OBVIOUS
  <2>2. \E f : \/ FlushGroup(Drained(src, i, f), i)
               \/ src' = Drained(src, i, f)
    BY <1>7, <2>1 DEF AtEOF, ReadError
  <2>3. PICK f : FlushGroup(Drained(src, i, f), i) \/ src' = Drained(src, i, f)
    BY <2>2
  <2>4. PICK s : s = Drained(src, i, f)
    OBVIOUS
  <2>5. DOMAIN s = DOMAIN src /\ s.tracked = src.tracked
    BY <1>1, <2>4 DEF Drained
  <2> QED BY <1>1, <2>3, <2>4, <2>5, FlushKeeps
<1>8. CASE Start
  BY <1>8 DEF Start, FileInv, Known
<1>9. CASE Down
  BY <1>9 DEF Down, Fresh
<1>10. CASE \E through \in 1..accepted : Commit(through)
  <2>1. PICK through \in 1..accepted : Commit(through)
    BY <1>10
  <2>2. src' = Folded(through)
    BY <2>1 DEF Commit
  <2> QED BY <1>1, <2>2 DEF Folded
<1> QED BY <1>2, <1>3, <1>4, <1>5, <1>6, <1>7, <1>8, <1>9, <1>10 DEF FileNext, Scan

\* A file that is forgotten is not tracked.
LEMMA ForgottenTracks ==
  ASSUME NEW t \in SrcRecord, NEW i \in Inodes
  PROVE  Forgotten(t, i) \in SrcRecord /\ Forgotten(t, i).tracked = t.tracked \ {i}
<1>1. PICK s : s = Forgotten(t, i)
  OBVIOUS
<1>2. /\ s \in SrcRecord /\ s.files = [t.files EXCEPT ![i] = NoEntry]
      /\ s.tracked = t.tracked \ {i} /\ s.carry = [t.carry EXCEPT ![i] = 0]
      /\ s.phase = t.phase /\ s.todo = t.todo /\ s.seen = t.seen /\ s.failed = t.failed
      /\ s.legacy = t.legacy /\ s.nextSeq = t.nextSeq /\ s.pending = t.pending
  BY <1>1, ForgottenFields
<1> QED BY <1>1, <1>2

\* reapLocked forgets at most the file at the head of its list: one that was closed and
\* not changed since, or one it has just closed and whose group it has emitted.
LEMMA ReapForgets ==
  ASSUME FileInv, Reap, NEW i \in src.tracked \ rewritten, i \notin src'.tracked,
         src'.phase # "ended", ~ src.files[i].reopen, conf.start = "beginning"
  PROVE  \A k \in 1..(src.files[i].size - 1) : Settled(disk.data[i][k])'
<1>1. PICK h, o : h = Head(src.todo) /\ o = src.files[h]
  OBVIOUS
<1>2. src.phase = "reap" /\ src.todo # <<>> /\ disk' = disk
  BY DEF Reap, Quiet
<1>3. /\ src \in SrcRecord /\ src.tracked \subseteq Inodes /\ h \in Inodes /\ Size(h) \in Nat
      /\ src.files \in [Inodes -> EntryRecord] /\ o \in EntryRecord /\ GroupOf(o)
  BY <1>1, <1>2, AtFile, SrcFields
<1>4. PICK s : s = [src EXCEPT !.todo = Tail(@)]
  OBVIOUS
<1>5. s \in SrcRecord /\ s.tracked = src.tracked
  <2>1. Tail(src.todo) \in Seq(Inodes \cup Paths)
    BY <1>2, <1>3, SrcFields, HeadOf
  <2> QED BY <1>3, <1>4, <2>1 DEF SrcRecord
<1>6. /\ i = h
      /\ ~ o.open \/ emitted' = emitted \cup o.group
      /\ emitted \subseteq emitted'
  <2>1. CASE ~ o.open
    <3>1. src' = (IF o.removed /\ conf.clean THEN Forgotten(s, h) ELSE s) /\ emitted' = emitted
      BY <1>1, <1>4, <2>1 DEF Reap
    <3>2. src' = Forgotten(s, h)
      BY <1>5, <3>1
    <3>3. src'.tracked = s.tracked \ {h}
      BY <1>3, <1>5, <3>2, ForgottenTracks
    <3> QED BY <1>5, <2>1, <3>1, <3>3
  <2>2. CASE o.open
    <3>1. PICK f : f = Closed(o)
      OBVIOUS
    <3>2. PICK t : t = [s EXCEPT !.files[h] = f]
      OBVIOUS
    <3>3. f \in EntryRecord
      BY <1>3, <3>1, ClosedFields
    <3>4. t \in SrcRecord /\ t.tracked = src.tracked
      BY <1>5, <3>2, <3>3, SrcFields DEF SrcRecord
    <3>5. PICK z : z = IF o.removed /\ conf.clean THEN Forgotten(t, h) ELSE t
      OBVIOUS
    <3>6. z \in SrcRecord /\ z.tracked \in {src.tracked, src.tracked \ {h}}
      <4>1. PICK y : y = Forgotten(t, h)
        OBVIOUS
      <4>2. y \in SrcRecord /\ y.tracked = t.tracked \ {h}
        BY <1>3, <3>4, <4>1, ForgottenTracks
      <4> QED BY <3>4, <3>5, <4>1, <4>2
    <3>7. src' = s \/ FlushGroup(z, h)
      BY <1>1, <1>4, <2>2, <3>1, <3>2, <3>5 DEF Reap
    <3>8. FlushGroup(z, h)
      BY <1>5, <3>7
    <3>9. CASE o.group = {}
      <4>1. src' = z /\ emitted' = emitted
        BY <1>1, <3>8, <3>9 DEF FlushGroup
      <4> QED BY <2>2, <3>6, <3>9, <4>1
    <3>10. CASE o.group # {}
      <4>1. Emit(z, h, o.group, o.end)
        BY <1>1, <3>8, <3>10 DEF FlushGroup
      <4>2. /\ src'.tracked = z.tracked
            /\ emitted' = emitted \cup o.group
        BY <1>3, <3>6, <4>1, Emitting, EntryFields
      <4> QED BY <2>2, <3>6, <4>2
    <3> QED BY <3>9, <3>10
  <2> QED BY <2>1, <2>2
<1>7. PassedBy(h, o, emitted) /\ LookedAt(h, o, TRUE) /\ ~ o.reopen
  BY <1>1, <1>2, <1>6, AtFile
<1>8. o.size \in Nat /\ o.offset \in Nat /\ o.size <= o.offset + 1
  BY <1>3, <1>7, EntryFields DEF LookedAt
<1>9. ~ o.open => o.group = {}
  BY <1>3 DEF GroupOf
<1> SUFFICES ASSUME NEW k \in 1..(o.size - 1)
             PROVE  disk.data[h][k].n \in emitted' \/ disk.data[h][k].k = "drop"
  BY <1>1, <1>2, <1>6 DEF Settled
<1>10. k \in 1..o.offset
  BY <1>8
<1>11. \/ disk.data[h][k].n \in emitted \/ disk.data[h][k].k = "drop"
       \/ disk.data[h][k].n \in o.group
  BY <1>7, <1>10 DEF PassedBy
<1> QED BY <1>6, <1>9, <1>11

\* The invariant is kept by every step of the source, its writers and its committer.
THEOREM FileInductive == FileSpec => []FileInv
BY FileFirst, FileStep, PTL DEF FileSpec

\* For every configuration, every number of files and every order of scans, writes,
\* rotations, truncations, read errors, refusals, commits and crashes: neither the offsets in
\* the store nor the read positions pass a line that was not emitted.
THEOREM FileSound == FileSpec => []FilePositions
BY FileInductive, FilePositionsHold, PTL

\* Under on_eof: stop a source that reports itself exhausted, and could open every file in
\* its last scan, has emitted every line of every matching file, whatever was flushed late,
\* read in part, closed by an error or resumed after a restart.
THEOREM FileExhausted == FileSpec => []ExhaustedMeansRead
<1>1. FileInv => ExhaustedMeansRead
  BY DEF FileInv
<1> QED BY <1>1, FileInductive, PTL

\* clean_removed forgets a file only after what it held when it was last looked at was
\* emitted: a scan drains every open file before reapLocked runs, and reapLocked flushes
\* the open group of the file it closes.
THEOREM FileForgets == FileSpec => ForgottenWasRead
<1>1. FileInv /\ [FileNext]_fileVars =>
        [\A i \in src.tracked \ rewritten :
           /\ src'.phase \notin {"down", "ended"} /\ i \notin src'.tracked
           /\ ~src.files[i].reopen /\ conf.start = "beginning"
           => \A k \in 1..(src.files[i].size - 1) : Settled(disk.data[i][k])']_fileVars
  <2> SUFFICES ASSUME FileInv, FileNext, NEW i \in src.tracked \ rewritten,
                      src'.phase \notin {"down", "ended"}, i \notin src'.tracked,
                      ~src.files[i].reopen, conf.start = "beginning"
               PROVE  \A k \in 1..(src.files[i].size - 1) : Settled(disk.data[i][k])'
    OBVIOUS
  <2>1. Reap
    BY KeepsTracked
  <2> QED BY <2>1, ReapForgets
<1> QED BY <1>1, FileInductive, PTL DEF FileSpec, ForgottenWasRead
=============================================================================
