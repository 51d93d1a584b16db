---------------------------- MODULE DeadLetters -----------------------------
(***************************************************************************)
(* Dead letters and how they are replayed: the replay verb of the command  *)
(* line (cli/replay.go), which runs an engine of its own and may delete    *)
(* what it replayed, the replay of the operations service into the engine  *)
(* of a daemon (ops.go), their common selection (dlq/dlq.go), and what an  *)
(* engine does to letters: re-injected rows are settled or fail again, new *)
(* messages fail, and old letters expire.                                  *)
(*                                                                         *)
(* A letter stands for one branch of a message, at the node that failed.   *)
(* Rows of the spool are those beyond the checkpoint; that an engine comes *)
(* back to every one of them is what CommitPath is about.                  *)
(***************************************************************************)
EXTENDS Integers, FiniteSets, Functions

CONSTANTS Branches,   \* branches of messages that fail
          Filters,    \* --ids, --since, --where, --limit, as far as they select
          MaxLetters, \* bound: letters ever written
          MaxInjected,    \* bound: rows ever injected
          MaxReplays  \* bound: replays, of both kinds

ASSUME LettersAssumption ==
  /\ IsFiniteSet(Branches) /\ MaxLetters \in Nat /\ MaxInjected \in Nat /\ MaxReplays \in Nat
  /\ Filters \subseteq [ids : SUBSET Nat, since : Nat, where : SUBSET Branches, limit : Nat]

VARIABLES letters,  \* dead_letter: [id, b]
          lastId,   \* its AUTOINCREMENT
          injected,     \* the spool beyond the checkpoint: [seq, b]
          lastSeq,
          holder,   \* whose engine holds the lease
          verb,     \* the replay verb
          service,  \* what a DeadLetterReplay has left to inject
          replays,
          handled,  \* history: branches that got through the node they failed at
          expired   \* history: branches whose last trace dlq.retention removed

letterVars == <<letters, lastId, injected, lastSeq, holder, verb, service, replays, handled, expired>>
engineSide == <<lastId, injected, lastSeq, handled, expired>>

NoVerb == [pc |-> "none", items |-> {}, todo |-> {}, failed |-> 0, delete |-> FALSE]

\* a daemon of before has left one letter per branch, in some order
LettersInit ==
  /\ lastId = Cardinality(Branches)
  /\ \E order \in Injection(Branches, 1..lastId) :
       letters = {[id |-> order[b], b |-> b] : b \in Branches}
  /\ injected = {} /\ lastSeq = 0 /\ holder = "none"
  /\ verb = NoVerb /\ service = {} /\ replays = 0
  /\ handled = {} /\ expired = {}

Known == {l.b : l \in letters} \cup {r.b : r \in injected}

-----------------------------------------------------------------------------
(* Selection                                                                *)

Matches(l, f) == (f.ids # {} => l.id \in f.ids) /\ l.id >= f.since /\ l.b \in f.where

\* FilterDeadLetters: the limit counts what the filter kept, newest first
Select(f) ==
  LET kept == {l \in letters : Matches(l, f)}
  IN {l \in kept : f.limit > 0 => Cardinality({k \in kept : k.id > l.id}) < f.limit}

\* the items are taken newest first
Newest(items, l) == l \in items /\ \A k \in items : k.id <= l.id

\* rows of the spool window have no letter
IDs(items) == {l.id : l \in items} \ {0}

-----------------------------------------------------------------------------
(* cmdReplay                                                                *)

\* the letters, or the rows of a spool window, are collected before the lease is taken
Collect(del) ==
  /\ verb.pc = "none" /\ replays < MaxReplays
  /\ \E items \in {Select(f) : f \in Filters} \cup {{[id |-> 0, b |-> b]} : b \in {r.b : r \in injected} \cup handled} :
       /\ items # {}
       /\ verb' = [pc |-> "lease", items |-> items, todo |-> items, failed |-> 0, delete |-> del]
  /\ replays' = replays + 1
  /\ UNCHANGED <<letters, engineSide, holder, service>>

VerbAcquires ==
  /\ verb.pc = "lease" /\ holder = "none"
  /\ holder' = "verb" /\ verb' = [verb EXCEPT !.pc = "inject"]
  /\ UNCHANGED <<letters, engineSide, service, replays>>

\* InjectReplay: the row is durable before it is dispatched
Inject ==
  /\ verb.pc = "inject" /\ lastSeq < MaxInjected
  /\ \E l \in verb.todo :
       /\ Newest(verb.todo, l)
       /\ injected' = injected \cup {[seq |-> lastSeq + 1, b |-> l.b]} /\ lastSeq' = lastSeq + 1
       /\ verb' = [verb EXCEPT !.todo = @ \ {l}]
  /\ UNCHANGED <<letters, lastId, holder, service, replays, handled, expired>>

\* an unknown node, an engine not ready, a refused append, an interrupt
InjectFails ==
  /\ verb.pc = "inject"
  /\ \E l \in verb.todo :
       Newest(verb.todo, l) /\ verb' = [verb EXCEPT !.todo = @ \ {l}, !.failed = @ + 1]
  /\ UNCHANGED <<letters, engineSide, holder, service, replays>>

\* WaitCommit returns, committed or not: the outcome is printed and not used
Waited ==
  /\ verb.pc = "inject" /\ verb.todo = {}
  /\ verb' = [verb EXCEPT !.pc = "delete"]
  /\ UNCHANGED <<letters, engineSide, holder, service, replays>>

MayDelete == verb.delete /\ verb.failed = 0
Delete ==
  /\ verb.pc = "delete" /\ MayDelete
  /\ letters' = {l \in letters : l.id \notin IDs(verb.items)}
  /\ verb' = [verb EXCEPT !.pc = "exit"]
  /\ UNCHANGED <<engineSide, holder, service, replays>>

\* nothing is deleted: not asked for, not allowed, refused by the store, or killed;
\* refused by the lease of a daemon, or by engine.New
Exit ==
  /\ verb.pc # "none"
  /\ verb' = NoVerb
  /\ holder' = IF holder = "verb" THEN "none" ELSE holder
  /\ UNCHANGED <<letters, engineSide, service, replays>>

-----------------------------------------------------------------------------
(* The operations service                                                   *)

DaemonStarts ==
  /\ holder = "none" /\ holder' = "daemon"
  /\ UNCHANGED <<letters, engineSide, verb, service, replays>>

DaemonEnds ==
  /\ holder = "daemon" /\ holder' = "none" /\ service' = {}
  /\ UNCHANGED <<letters, engineSide, verb, replays>>

DeadLetterReplay ==
  /\ holder = "daemon" /\ service = {} /\ replays < MaxReplays
  /\ \E f \in Filters : service' = Select([f EXCEPT !.limit = 0, !.where = Branches, !.since = 0])
  /\ replays' = replays + 1
  /\ UNCHANGED <<letters, engineSide, holder, verb>>

ServiceInjects ==
  /\ lastSeq < MaxInjected
  /\ \E l \in service :
       /\ Newest(service, l)
       /\ injected' = injected \cup {[seq |-> lastSeq + 1, b |-> l.b]} /\ lastSeq' = lastSeq + 1
       /\ service' = service \ {l}
  /\ UNCHANGED <<letters, lastId, holder, verb, replays, handled, expired>>

ServiceFails ==
  /\ service # {} /\ service' = {}
  /\ UNCHANGED <<letters, engineSide, holder, verb, replays>>

-----------------------------------------------------------------------------
(* The engine of whoever holds the lease                                    *)

Handle(r) ==
  /\ holder # "none" /\ r \in injected
  /\ injected' = injected \ {r} /\ handled' = handled \cup {r.b}
  /\ UNCHANGED <<letters, lastId, lastSeq, holder, verb, service, replays, expired>>

\* Variant with a defect: an injected row is delivered on an optional edge.
RefailDrops(r) ==
  /\ holder # "none" /\ r \in injected /\ lastId < MaxLetters
  /\ injected' = injected \ {r}
  /\ UNCHANGED <<letters, lastId, lastSeq, holder, verb, service, replays, handled, expired>>

\* the synthetic edge is required: the letter is written, then the row committed
Refail(r) ==
  /\ holder # "none" /\ r \in injected /\ lastId < MaxLetters
  /\ letters' = letters \cup {[id |-> lastId + 1, b |-> r.b]} /\ lastId' = lastId + 1
  /\ injected' = injected \ {r} /\ expired' = expired \ {r.b}
  /\ UNCHANGED <<lastSeq, holder, verb, service, replays, handled>>

\* trimDeadLetters, for letters of before some moment
Expire ==
  /\ holder # "none"
  /\ \E cutoff \in 2..lastId + 1 :
       /\ letters' = {l \in letters : l.id >= cutoff}
       /\ expired' = expired \cup (Known \ ({l.b : l \in letters'} \cup {r.b : r \in injected}))
  /\ letters' # letters
  /\ UNCHANGED <<lastId, injected, lastSeq, holder, verb, service, replays, handled>>

LettersNext ==
  \/ \E del \in BOOLEAN : Collect(del)
  \/ VerbAcquires \/ Inject \/ InjectFails \/ Waited \/ Delete \/ Exit
  \/ DaemonStarts \/ DaemonEnds \/ DeadLetterReplay \/ ServiceInjects \/ ServiceFails
  \/ \E r \in injected : Handle(r) \/ Refail(r)
  \/ Expire

LettersSpec == LettersInit /\ [][LettersNext]_letterVars

-----------------------------------------------------------------------------
\* No message is lost on its way through the dead letters: a branch that failed once
\* has a letter, or a row an engine will come back to, or got through its node, or was
\* removed by the operator's retention - although the verb selects before it takes the
\* lease, ignores what WaitCommit answers, may be killed anywhere and deletes by id
\* while new letters are written (cmdReplay, DeadLetterReplay, dispatchInternal).
LetterKept == \A b \in Branches : b \in Known \cup handled \cup expired

\* "replay --delete removes the original record once the reinjection commits": no
\* letter is deleted while a row of its branch is open.
DeletedOnceCommitted ==
  [][verb.pc = "delete" /\ verb'.pc = "exit" => \A l \in letters \ letters' : l.b \notin {r.b : r \in injected}]_letterVars
=============================================================================
