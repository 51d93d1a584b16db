----------------------------- MODULE FileSource -----------------------------
(***************************************************************************)
(* The file source (registry/builtin/file_source.go): a poll loop that     *)
(* globs, discovers, drains and reaps files while a writer appends,        *)
(* rotates and truncates them, and a committer that folds the engine's     *)
(* frontier into one offset per file.  A file is a sequence of lines, the  *)
(* last of which may be unterminated; offsets count lines.                 *)
(***************************************************************************)
EXTENDS Integers, Sequences, FiniteSets, FiniteSetsExt

CONSTANTS
  FileSetups,   \* configurations of the source, each with bounds on its environment
  Inodes,       \* file identities
  TailLines     \* how many consumed lines the tail fingerprint holds

Paths == {"log", "log.1"}
None == 0

\* A state document of version 1 is about the file that is there, so that file is not
\* rotated away; the files of a batch (on_eof: stop) are complete.
ASSUME FileAssumption ==
  /\ Inodes # {} /\ Inodes \subseteq Nat \ {None} /\ IsFiniteSet(Inodes) /\ TailLines \in Nat
  /\ FileSetups \subseteq
       [glob : SUBSET Paths, start : {"beginning", "end"}, eof : {"tail", "stop"},
        close : BOOLEAN, clean : BOOLEAN, ignore : BOOLEAN, multi : BOOLEAN, maxLines : Nat,
        refuse : BOOLEAN, reuse : BOOLEAN, kinds : SUBSET {"msg", "cont", "drop"},
        content : Seq([n : Nat, k : {"msg", "cont", "drop"}]), half : BOOLEAN, legacy : Nat,
        may : [writes : Nat, rotations : Nat, truncations : Nat, faults : Nat, restarts : Nat]]
  /\ \A c \in FileSetups :
       /\ c.legacy <= Len(c.content)
       /\ c.legacy > 0 => c.may.rotations = 0
       /\ c.eof = "stop" => /\ c.start = "beginning" /\ c.kinds = {}
                            /\ c.may.rotations = 0 /\ c.may.truncations = 0

VARIABLES
  conf,     \* the configuration and its bounds, fixed
  disk,     \* the file system: at (path -> inode), data, half, stamp, old
  src,      \* the memory of the source
  durable,  \* the state document in the store: inode -> offset
  doc,      \* documents returned by Commit and not yet written
  emitted,  \* history: lines accepted by the engine, hence durable in the spool
  accepted, \* how many emissions the engine has accepted in this run
  rewritten,\* history: inodes whose content was replaced after it could be read
  left      \* what is left of the bounds

fileVars == <<conf, disk, src, durable, doc, emitted, accepted, rewritten, left>>

\* trackedFile.  group holds the lines of an open multiline group.
NoEntry == [path |-> "log", open |-> FALSE, offset |-> 0, committed |-> 0,
            partial |-> 0, size |-> 0, stamp |-> 0, removed |-> FALSE,
            reopen |-> FALSE, tail |-> <<>>, group |-> {}, lines |-> 0, end |-> 0]

\* A source that was just constructed, over the state it was given by Init.  legacy is
\* the offset of a version 1 document, which applies to a path without a glob.
Fresh(state, phase) ==
  [phase |-> phase, first |-> TRUE, em |-> FALSE, todo |-> <<>>, seen |-> {},
   failed |-> {}, reads |-> {}, files |-> [i \in Inodes |-> NoEntry], tracked |-> {},
   byPath |-> [p \in Paths |-> None], ignored |-> {}, carry |-> state.files,
   legacy |-> IF "log.1" \notin conf.glob THEN state.legacy ELSE 0,
   pending |-> {}, nextSeq |-> 0, last |-> 0]

NoState == [files |-> [i \in Inodes |-> 0], legacy |-> 0]

FileInit ==
  /\ conf \in FileSetups
  /\ disk = [at |-> [p \in Paths |-> IF p = "log" THEN Min(Inodes) ELSE None],
             data |-> [i \in Inodes |-> IF i = Min(Inodes) THEN conf.content ELSE <<>>],
             half |-> [i \in Inodes |-> i = Min(Inodes) /\ conf.half],
             stamp |-> [i \in Inodes |-> IF i = Min(Inodes) THEN 1 ELSE 0],
             old |-> {}, next |-> Len(conf.content) + 1, clock |-> 1]
  /\ durable = [NoState EXCEPT !.legacy = conf.legacy]
  /\ src = Fresh(durable, "down")
  /\ doc = <<>> /\ accepted = 0 /\ rewritten = {}
  /\ emitted = {conf.content[k].n : k \in 1..conf.legacy}
  /\ left = conf.may

Used(what) == left' = [left EXCEPT ![what] = @ - 1]

-----------------------------------------------------------------------------
(* The file system, as its writers use it.                                 *)

Linked == {disk.at[p] : p \in Paths} \ {None}
Size(i) == Len(disk.data[i])
Whole(i, k) == ~(disk.half[i] /\ k = Size(i))
Numbers(s) == [k \in DOMAIN s |-> s[k].n]

Touched(d, i) ==
  [d EXCEPT !.stamp[i] = d.clock + 1, !.clock = @ + 1, !.old = @ \ {i}]

\* A line is written, whole or without its newline yet.
Append_(i, k, h) ==
  /\ left.writes > 0 /\ i \in Linked /\ ~disk.half[i]
  /\ disk' = [Touched(disk, i) EXCEPT
                !.data[i] = Append(@, [n |-> disk.next, k |-> k]), !.half[i] = h,
                !.next = @ + 1]
  /\ Used("writes")
  /\ UNCHANGED <<conf, src, durable, doc, emitted, accepted, rewritten>>

\* The newline of an unterminated line is written.
Finish(i) ==
  /\ i \in Linked /\ disk.half[i]
  /\ disk' = [Touched(disk, i) EXCEPT !.half[i] = FALSE]
  /\ UNCHANGED <<conf, src, durable, doc, emitted, accepted, rewritten, left>>

\* logrotate: log is renamed to log.1, whose file is unlinked, and a new log is
\* created.  An inode nobody links or holds open may be used again.
Rotate(i) ==
  /\ left.rotations > 0 /\ disk.at["log"] # None
  /\ ~src.files[i].open
  /\ IF conf.reuse THEN i \notin {disk.at["log"]} ELSE disk.stamp[i] = 0
  /\ disk' = [Touched(disk, i) EXCEPT
                !.at = [p \in Paths |-> IF p = "log" THEN i ELSE disk.at["log"]],
                !.data[i] = <<>>, !.half[i] = FALSE]
  /\ rewritten' = IF disk.data[i] # <<>> THEN rewritten \union {i} ELSE rewritten
  /\ Used("rotations")
  /\ UNCHANGED <<conf, src, durable, doc, emitted, accepted>>

\* copytruncate: the file is emptied in place.
Truncate(i) ==
  /\ left.truncations > 0 /\ i \in Linked /\ disk.data[i] # <<>>
  /\ disk' = [Touched(disk, i) EXCEPT !.data[i] = <<>>, !.half[i] = FALSE]
  /\ rewritten' = rewritten \union {i}
  /\ Used("truncations")
  /\ UNCHANGED <<conf, src, durable, doc, emitted, accepted>>

\* A file was not written to for ignore_older.
Age(i) ==
  /\ conf.ignore /\ i \in Linked \ disk.old
  /\ disk' = [disk EXCEPT !.old = @ \union {i}]
  /\ UNCHANGED <<conf, src, durable, doc, emitted, accepted, rewritten, left>>

Writer ==
  \/ \E i \in Inodes, k \in conf.kinds, h \in BOOLEAN : Append_(i, k, h)
  \/ \E i \in Inodes : Finish(i) \/ Rotate(i) \/ Truncate(i) \/ Age(i)

-----------------------------------------------------------------------------
(* Emission.                                                               *)

\* emitMessageLocked, flushGroupLocked: the sequence number and its end offset are
\* recorded before the engine is asked; a refusal ends Run.
Emit(s, i, lines, end) ==
  LET posted == [s EXCEPT !.nextSeq = @ + 1, !.em = TRUE,
                   !.pending = @ \union {[seq |-> s.nextSeq + 1, id |-> i, end |-> end]}]
  IN \/ /\ src' = posted
        /\ emitted' = emitted \union lines /\ accepted' = accepted + 1
     \/ /\ conf.refuse
        /\ src' = [posted EXCEPT !.phase = "ended"]
        /\ UNCHANGED <<emitted, accepted>>

\* The group of an entry is taken out.
NoGroup(e) == [e EXCEPT !.group = {}, !.lines = 0, !.end = 0]

\* flushGroupLocked over the state s the step leaves behind.
FlushGroup(s, i) ==
  LET e == src.files[i] IN
  IF e.group = {} THEN src' = s /\ UNCHANGED <<emitted, accepted>>
  ELSE Emit(s, i, e.group, e.end)

Quiet == UNCHANGED <<conf, disk, durable, doc, rewritten>>

-----------------------------------------------------------------------------
(* One poll.                                                               *)

\* The paths the glob returns, in the order of their names.
Match(p) == IF p \in conf.glob /\ disk.at[p] # None THEN <<p>> ELSE <<>>

\* Run, and poll up to the glob.  Under on_eof: stop a first scan without a match fails.
Poll ==
  LET matches == Match("log") \o Match("log.1") IN
  /\ src.phase = "idle"
  /\ src' = IF src.first /\ matches = <<>> /\ conf.eof = "stop"
            THEN [src EXCEPT !.phase = "ended"]
            ELSE [src EXCEPT !.phase = "discover", !.todo = matches, !.seen = {},
                             !.failed = {}, !.reads = {}, !.em = FALSE]
  /\ Quiet /\ UNCHANGED <<emitted, accepted, left>>

\* newTrackedLocked: the persisted offset, the version 1 offset, or start_at; a
\* watermark beyond the file means it was truncated while the process was down.
newTracked(i, size) ==
  LET known == IF src.carry[i] > 0 THEN src.carry[i] ELSE src.legacy
      start == IF known = 0 /\ conf.start = "end" THEN size ELSE known
      o == IF start > size THEN 0 ELSE start
  IN [NoEntry EXCEPT !.offset = o, !.committed = IF start > size THEN 0 ELSE known,
                     !.size = size]

\* truncatedLocked: the file is shorter than what was consumed, or the bytes before the
\* read position are not the ones that were read.
truncated(e, i) ==
  LET end == e.offset + e.partial
      n == Len(e.tail)
  IN \/ Size(i) < end
     \/ n > 0 /\ end >= n /\ Numbers(SubSeq(disk.data[i], end - n + 1, end)) # e.tail

\* resetTruncatedLocked, after the open group was flushed or dropped.
Restarted(e) ==
  [NoGroup(e) EXCEPT !.offset = 0, !.committed = 0, !.partial = 0, !.tail = <<>>]

\* discoverLocked: a closed file that did not change is left closed.
Unchanged(p) ==
  LET i == src.byPath[p]
      e == src.files[i]
  IN /\ i \in src.tracked /\ ~e.open /\ ~e.reopen
     /\ disk.at[p] # None /\ Size(disk.at[p]) = e.size
     /\ disk.stamp[disk.at[p]] = e.stamp

\* discoverLocked: ignore_older, at the first discovery only.
Ignored(i) == conf.ignore /\ i \in disk.old /\ i \notin src.tracked

\* discoverLocked: the entry of inode i, reopened if it was closed.
Discovered(i, p) ==
  LET e == IF i \in src.tracked THEN src.files[i] ELSE newTracked(i, Size(i))
      shut == [e EXCEPT !.open = TRUE, !.partial = 0]
      ready == IF e.open THEN e ELSE IF truncated(shut, i) THEN Restarted(shut) ELSE shut
  IN [ready EXCEPT !.path = p, !.size = Size(i), !.stamp = disk.stamp[i],
                   !.reopen = FALSE]

\* discoverLocked for the next path of the glob.
discover ==
  LET p == Head(src.todo)
      i == disk.at[p]
      was == src.byPath[p]
      rest == [src EXCEPT !.todo = Tail(@)]
      missed == [rest EXCEPT !.failed = @ \union {p}]
  IN
  /\ src.phase = "discover" /\ src.todo # <<>>
  /\ \/ /\ Unchanged(p)
        /\ src' = [rest EXCEPT !.seen = @ \union {was}] /\ UNCHANGED left
     \/ /\ ~Unchanged(p) /\ i = None
        /\ src' = missed /\ UNCHANGED left
     \/ /\ ~Unchanged(p) /\ i # None /\ left.faults > 0
        /\ src' = missed /\ Used("faults")
     \/ /\ ~Unchanged(p) /\ i # None /\ Ignored(i)
        /\ src' = [missed EXCEPT !.ignored = @ \union {i}] /\ UNCHANGED left
     \/ /\ ~Unchanged(p) /\ i # None /\ ~Ignored(i)
        /\ src' = [rest EXCEPT
             !.files = [j \in Inodes |->
                          IF j = i THEN Discovered(i, p)
                          ELSE IF j = was /\ j \in src.tracked
                               THEN [src.files[j] EXCEPT !.removed = TRUE]
                               ELSE src.files[j]],
             !.tracked = @ \union {i}, !.byPath[p] = i, !.ignored = @ \ {i},
             !.carry[i] = IF i \in src.tracked THEN @ ELSE 0,
             !.legacy = IF i \in src.tracked \/ src.carry[i] > 0 THEN @ ELSE 0,
             !.seen = @ \union {i}]
        /\ UNCHANGED left
  /\ Quiet /\ UNCHANGED <<emitted, accepted>>

\* The orders in which a set of files can be gone through.
Orders(S) ==
  {s \in [1..Cardinality(S) -> S] : \A i \in S : \E k \in DOMAIN s : s[k] = i}

\* poll: every path was looked at; the files are drained in the order of their ids.
Discovering ==
  /\ src.phase = "discover" /\ src.todo = <<>>
  /\ \E ids \in Orders(src.tracked) :
       /\ \A j, k \in DOMAIN ids : j < k => ids[j] < ids[k]
       /\ src' = [src EXCEPT !.phase = "drain", !.todo = ids]
  /\ Quiet /\ UNCHANGED <<emitted, accepted, left>>

\* poll: removed follows what the scan has seen; a closed file is passed over.
Marked(i) ==
  LET e == src.files[i] IN
  [e EXCEPT !.removed = IF i \in src.seen THEN FALSE
                        ELSE IF e.path \notin src.failed THEN TRUE ELSE @]

\* Mutant of Drain: a file that no longer matches is looked at and not read.
DrainMatching ==
  LET i == Head(src.todo)
      e == Marked(i)
      seen == [e EXCEPT !.size = Size(i), !.stamp = disk.stamp[i]]
  IN
  /\ src.phase = "drain" /\ src.todo # <<>>
  /\ IF ~e.open \/ e.removed
     THEN FlushGroup([src EXCEPT !.files[i] = NoGroup(seen), !.todo = Tail(@)], i)
     ELSE /\ src' = [src EXCEPT !.files[i] = seen, !.phase = "read"]
          /\ UNCHANGED <<emitted, accepted>>
  /\ Quiet /\ UNCHANGED left

\* drainLocked up to the first read: a rewritten file starts again from 0, after its
\* open group was flushed.
Drain ==
  LET i == Head(src.todo)
      e == Marked(i)
      seen == [e EXCEPT !.size = Size(i), !.stamp = disk.stamp[i]]
  IN
  /\ src.phase = "drain" /\ src.todo # <<>>
  /\ IF ~e.open
     THEN FlushGroup([src EXCEPT !.files[i] = NoGroup(e), !.todo = Tail(@)], i)
     ELSE IF truncated(e, i)
     THEN FlushGroup([src EXCEPT !.files[i] = Restarted(seen), !.phase = "read"], i)
     ELSE /\ src' = [src EXCEPT !.files[i] = seen, !.phase = "read"]
          /\ UNCHANGED <<emitted, accepted>>
  /\ Quiet /\ UNCHANGED left

\* Is there something left to read?
Unread(i) ==
  LET k == src.files[i].offset + 1
  IN k <= Size(i) /\ (src.files[i].partial = 1 => Whole(i, k))

\* observeTail.
Observed(e, n) ==
  LET t == IF e.partial = 1 THEN e.tail ELSE Append(e.tail, n)
  IN IF Len(t) > TailLines THEN Tail(t) ELSE t

\* feedLineLocked for the line c that was just passed: it is dropped (blank, or too
\* long under oversize: skip), emitted, or joined to a group.  A continuation joins the
\* open group until the group is full; any other line flushes it and starts a new one.
feedLine(e, i, c) ==
  LET joined == [e EXCEPT !.group = @ \union {c.n}, !.lines = @ + 1, !.end = e.offset]
      started == [e EXCEPT !.group = {c.n}, !.lines = 1, !.end = e.offset]
      s(f) == [src EXCEPT !.files[i] = f, !.reads = @ \union {i}]
  IN IF c.k = "drop" THEN src' = s(e) /\ UNCHANGED <<emitted, accepted>>
     ELSE IF ~conf.multi THEN Emit(s(e), i, {c.n}, e.offset)
     ELSE IF c.k = "cont" /\ e.group # {} /\ e.lines < conf.maxLines
     THEN src' = s(joined) /\ UNCHANGED <<emitted, accepted>>
     ELSE FlushGroup(s(started), i)

\* consumeLocked: the next line is complete, or its beginning is kept as the partial.
Read ==
  LET i == Head(src.todo)
      e == src.files[i]
      c == disk.data[i][e.offset + 1]
      seen == [e EXCEPT !.tail = Observed(e, c.n)]
  IN
  /\ src.phase = "read" /\ Unread(i)
  /\ IF Whole(i, e.offset + 1) THEN feedLine([seen EXCEPT !.offset = @ + 1, !.partial = 0], i, c)
     ELSE /\ src' = [src EXCEPT !.files[i] = [seen EXCEPT !.partial = 1],
                                !.reads = @ \union {i}]
          /\ UNCHANGED <<emitted, accepted>>
  /\ Quiet /\ UNCHANGED left

Drained(s, i, e) == [s EXCEPT !.files[i] = e, !.phase = "drain", !.todo = Tail(@)]

\* drainLocked at the end of a file under on_eof: stop: the unterminated line counts.
FinalLine ==
  LET i == Head(src.todo)
      e == src.files[i]
      c == disk.data[i][e.offset + 1]
  IN
  /\ src.phase = "read" /\ ~Unread(i) /\ conf.eof = "stop" /\ e.partial = 1
  /\ feedLine([e EXCEPT !.offset = @ + 1, !.partial = 0], i, c)
  /\ Quiet /\ UNCHANGED left

\* drainLocked at the end of a file: an open group is flushed under on_eof: stop, after
\* timeout_ms, or because the file no longer matches (poll).
AtEOF ==
  LET i == Head(src.todo)
      e == src.files[i]
      final == e.partial = 0 /\ e.offset >= e.size /\ (conf.eof = "stop" \/ e.removed)
  IN
  /\ src.phase = "read" /\ ~Unread(i) /\ ~(conf.eof = "stop" /\ e.partial = 1)
  /\ \/ FlushGroup(Drained(src, i, NoGroup(e)), i)
     \/ /\ ~final \/ e.group = {}
        /\ src' = Drained(src, i, e) /\ UNCHANGED <<emitted, accepted>>
  /\ Quiet /\ UNCHANGED left

\* Mutant of Closed: the partial line counts as read.
ClosedAfterPartial(e) ==
  [NoGroup(e) EXCEPT !.open = FALSE, !.partial = 0, !.offset = @ + e.partial]

\* closeLocked: the partial line is read again after a reopen, so the fingerprint
\* shrinks with it.
Closed(e) ==
  [NoGroup(e) EXCEPT !.open = FALSE, !.partial = 0,
     !.tail = IF e.partial = 1 /\ @ # <<>> THEN SubSeq(@, 1, Len(@) - 1) ELSE @]

\* drainLocked on a read error: flush, close, and reopen at the next scan.
ReadError ==
  LET i == Head(src.todo)
      e == src.files[i]
  IN
  /\ src.phase = "read" /\ left.faults > 0
  /\ FlushGroup(Drained(src, i, [Closed(e) EXCEPT !.reopen = TRUE]), i)
  /\ Used("faults") /\ Quiet

\* poll: every file was drained; reapLocked begins, over a map in any order.
Reaping ==
  /\ src.phase = "drain" /\ src.todo = <<>>
  /\ IF conf.close \/ conf.clean
     THEN \E any \in Orders(src.tracked) :
            src' = [src EXCEPT !.phase = "reap", !.todo = any]
     ELSE src' = [src EXCEPT !.phase = "polled"]
  /\ Quiet /\ UNCHANGED <<emitted, accepted, left>>

\* forgetLocked: clean_removed drops every trace of a file.
Forgotten(s, i) ==
  [s EXCEPT !.tracked = @ \ {i}, !.ignored = @ \ {i}, !.carry[i] = 0,
            !.files[i] = NoEntry,
            !.byPath = [p \in Paths |-> IF @[p] = i /\ s.files[i].path = p
                                        THEN None ELSE @[p]]]

\* Was the file idle for close_inactive?  Not when this scan has read from it.
Idle(i) == conf.close /\ i \notin src.reads

\* reapLocked for one file: it is forgotten if it was closed already, kept, or flushed
\* and closed, and then forgotten too if it no longer matches.
Reap ==
  LET i == Head(src.todo)
      e == src.files[i]
      rest == [src EXCEPT !.todo = Tail(@)]
      gone(s) == IF e.removed /\ conf.clean THEN Forgotten(s, i) ELSE s
  IN
  /\ src.phase = "reap" /\ src.todo # <<>>
  /\ \/ /\ ~e.open
        /\ src' = gone(rest) /\ UNCHANGED <<emitted, accepted>>
     \/ /\ e.open
        /\ src' = rest /\ UNCHANGED <<emitted, accepted>>
     \/ /\ e.open /\ Idle(i)
        /\ FlushGroup(gone([rest EXCEPT !.files[i] = Closed(e)]), i)
  /\ Quiet /\ UNCHANGED left

Reaped ==
  /\ src.phase = "reap" /\ src.todo = <<>>
  /\ src' = [src EXCEPT !.phase = "polled"]
  /\ Quiet /\ UNCHANGED <<emitted, accepted, left>>

\* Mutant of allAtEOF: a file closed by a read error counts as read.
allAtEOFNoReopen ==
  \A i \in src.tracked :
    LET e == src.files[i] IN e.open => e.partial = 0 /\ e.size <= e.offset

\* allAtEOF.
allAtEOF ==
  \A i \in src.tracked :
    LET e == src.files[i] IN
    IF e.open THEN e.partial = 0 /\ e.size <= e.offset
    ELSE ~e.reopen /\ e.offset >= e.size

\* Run: the scan is over; under on_eof: stop the source is exhausted when a later scan
\* has emitted nothing and every tracked file is at its end.
Polled ==
  /\ src.phase = "polled"
  /\ src' = [src EXCEPT !.first = FALSE, !.todo = <<>>,
               !.phase = IF conf.eof = "stop" /\ ~src.first /\ ~src.em /\ allAtEOF
                         THEN "done" ELSE "idle"]
  /\ Quiet /\ UNCHANGED <<emitted, accepted, left>>

-----------------------------------------------------------------------------
(* Commit, and the life of the process.                                    *)

\* Commit: folds the emissions up to the frontier into the offsets of their files.
Folded(through) ==
  [src EXCEPT
    !.pending = {q \in @ : q.seq > through}, !.last = through,
    !.files = [i \in Inodes |->
      [src.files[i] EXCEPT !.committed =
         Max({src.files[i].committed} \union
               {q.end : q \in {x \in src.pending : x.id = i /\ x.seq <= through
                                                     /\ i \in src.tracked}})]]]

\* Mutant of marshalState: the read position is persisted.
marshalStateRead(s) ==
  [i \in Inodes |-> IF i \in s.tracked THEN s.files[i].offset ELSE s.carry[i]]

\* marshalStateLocked: the offsets of the files of this run, and those carried over for
\* files that have not turned up again.
marshalState(s) ==
  [i \in Inodes |-> IF i \in s.tracked /\ s.files[i].committed > 0
                    THEN s.files[i].committed ELSE s.carry[i]]

\* Commit, called by the source's committer between two polls: poll holds the mutex.
Commit(through) ==
  /\ src.phase \in {"idle", "ended", "done"} /\ doc = <<>>
  /\ through \in (src.last + 1)..accepted
  /\ src' = Folded(through)
  /\ doc' = <<marshalState(Folded(through))>>
  /\ UNCHANGED <<conf, disk, durable, emitted, accepted, rewritten, left>>

\* The committer writes the document.
Persist ==
  /\ doc # <<>>
  /\ durable' = [files |-> doc[1], legacy |-> 0] /\ doc' = <<>>
  /\ UNCHANGED <<conf, disk, src, emitted, accepted, rewritten, left>>

\* Init of the next engine run.
Start ==
  /\ src.phase = "down"
  /\ src' = Fresh(durable, "idle") /\ accepted' = 0
  /\ UNCHANGED <<conf, disk, durable, doc, emitted, rewritten, left>>

\* Close after Run returned, or the process dies: only the store remains.
Down ==
  /\ src.phase # "down" /\ left.restarts > 0 /\ Used("restarts")
  /\ src' = Fresh(NoState, "down") /\ doc' = <<>> /\ accepted' = 0
  /\ UNCHANGED <<conf, disk, durable, emitted, rewritten>>

Scan ==
  \/ Poll \/ discover \/ Discovering \/ Drain \/ Read \/ FinalLine \/ AtEOF
  \/ ReadError \/ Reaping \/ Reap \/ Reaped \/ Polled

FileNext ==
  \/ Writer \/ Scan \/ Start \/ Down \/ Persist
  \/ \E through \in 1..accepted : Commit(through)

FileSpec == FileInit /\ [][FileNext]_fileVars

-----------------------------------------------------------------------------
(* Properties.                                                             *)

\* A line that needs no message any more: it was emitted, or is one that is dropped.
Settled(c) == c.n \in emitted \/ c.k = "drop"

\* What a restart skips was emitted: every line before the offset in the store is in
\* the spool or was dropped by rule, whatever the order of scans, commits, writes of
\* the document and crashes.  Files whose content was replaced are the exception.
ResumesBehind ==
  conf.start = "beginning" =>
    \A i \in Inodes \ rewritten :
      \A k \in 1..durable.files[i] : k <= Size(i) => Settled(disk.data[i][k])

\* What a scan has passed was emitted or waits in the open group of its file, through
\* rotation, descriptors closed and reopened, read errors and unterminated lines.
PassedMeansEmitted ==
  conf.start = "beginning" /\ src.phase # "ended" =>
    \A i \in src.tracked \ rewritten :
      \A k \in 1..src.files[i].offset :
        Settled(disk.data[i][k]) \/ disk.data[i][k].n \in src.files[i].group

\* The positions of a file source, in memory and saved, never pass a line that was not
\* emitted, over rotation, truncation, partial lines, refusals and restarts.
FilePositions == ResumesBehind /\ PassedMeansEmitted

\* Under on_eof: stop the source reports exhaustion only when every line of every
\* matching file was emitted, the unterminated one included, if the last scan could
\* open every file.
ExhaustedMeansRead ==
  src.phase = "done" /\ src.failed = {} =>
    \A p \in conf.glob : disk.at[p] # None =>
      \A k \in 1..Size(disk.at[p]) : Settled(disk.data[disk.at[p]][k])

\* clean_removed forgets a file only after what it held when it was last looked at was
\* emitted (up to its last line, which may be unterminated), unless a read error had
\* closed it.
ForgottenWasRead ==
  [][\A i \in src.tracked \ rewritten :
       /\ src'.phase \notin {"down", "ended"} /\ i \notin src'.tracked
       /\ ~src.files[i].reopen /\ conf.start = "beginning"
       => \A k \in 1..(src.files[i].size - 1) : Settled(disk.data[i][k])']_fileVars

\* The watermark that Commit persists never leads the read position: after a truncation
\* was noticed and the file restarted from 0, a restart re-reads what was not emitted.
WatermarkBehindRead ==
  \A i \in src.tracked : src.files[i].committed <= src.files[i].offset

=============================================================================
