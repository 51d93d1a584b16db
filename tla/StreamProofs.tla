---------------------------- MODULE StreamProofs ----------------------------
(***************************************************************************)
(* What a source that reads a stream saves is in the spool, proved for the *)
(* sql, http, kafka and cron sources for every setup of StreamAssumption,  *)
(* and for the sources of external plugins for every number of processes,  *)
(* records and calls; and the host supervises its plugin processes as it   *)
(* should.                                                                 *)
(***************************************************************************)
EXTENDS StreamSource, PluginHost, FiniteSetTheorems, SequenceTheorems, WellFoundedInduction,
        TLAPS

-----------------------------------------------------------------------------
(* The sql, http, kafka and cron sources.                                  *)

StreamTypes ==
  /\ plan \in StreamSetups
  /\ top \in 0..MaxItems
  /\ run \in {"down", "page", "rows", "exhausted", "failed"}
  /\ pulled \in Nat /\ page \in [from : Nat, to : Nat]
  /\ calls \subseteq [seq : Nat, item : Nat, ok : BOOLEAN]
  /\ pending \subseteq [seq : Nat, item : Nat]
  /\ nextSeq \in Nat /\ last \in Nat /\ mark \in Nat /\ saved \in Nat /\ through \in Nat
  /\ spooled \subseteq Nat /\ answered \subseteq Nat /\ admitted \subseteq Nat
  /\ can \in [refusals : Nat, faults : Nat, restarts : Nat]
  /\ can.faults <= plan.may.faults

\* A source that pulls has one emission under way, the last it numbered; until emit
\* has returned only what came before it is known to be accepted.
Before(c) == IF plan.whole THEN page.from ELSE c.item - 1
OneCall ==
  Pulls => \A c \in calls :
             /\ calls = {c} /\ c.seq = nextSeq /\ c.item = pulled
             /\ 1..Before(c) \subseteq spooled
             /\ page.from < c.item /\ c.item <= page.to
             /\ c.ok => 1..c.item \subseteq spooled

\* What was accepted is in the spool.
OkSpooled == \A c \in calls : c.ok => c.item \in spooled

\* Between two emissions everything pulled has been accepted.
PulledSpooled ==
  /\ Pulls /\ run \in {"page", "rows", "exhausted"} /\ calls = {} => 1..pulled \subseteq spooled
  /\ run = "rows" => page.from <= pulled

\* An emission that Commit will find was numbered, and if the engine has accepted it,
\* so it has all items up to it.
PendingTrue ==
  \A q \in pending :
    /\ q.seq <= nextSeq /\ q.item <= pulled /\ (q.seq = nextSeq => q.item = pulled)
    /\ q.seq \in admitted => 1..q.item \subseteq spooled

\* The positions a run can begin from.
PositionsSpooled ==
  1..saved \subseteq spooled /\ 1..mark \subseteq spooled /\ 1..page.from \subseteq spooled

\* The engine commits a prefix of what it has accepted, of what was numbered.
Prefix ==
  /\ 1..through \subseteq admitted /\ admitted \subseteq 1..nextSeq
  /\ last <= through
  /\ run = "down" => calls = {} /\ pending = {}
  /\ \A c \in calls : c.seq \in 1..nextSeq

\* A source without a position has none to save.
NoPosition == ~ Pulls => saved = 0 /\ pending = {} /\ run # "rows"

\* kafka records an emission when it is numbered, so the last one is in hand until it
\* is folded.
LastInHand ==
  plan.kind = "kafka" /\ run # "down" /\ can.faults = plan.may.faults =>
    /\ last = nextSeq => saved = pulled
    /\ last < nextSeq => [seq |-> nextSeq, item |-> pulled] \in pending

StreamInv ==
  /\ StreamTypes /\ OneCall /\ OkSpooled /\ PulledSpooled /\ PendingTrue
  /\ PositionsSpooled /\ Prefix /\ NoPosition /\ LastInHand /\ AnsweredIsSpooled
-----------------------------------------------------------------------------
\* Max of FiniteSetsExt on a nonempty bounded set of naturals.
LEMMA MaxItem ==
  ASSUME NEW S \in SUBSET Nat, S # {}, NEW b \in Nat, \A y \in S : y <= b
  PROVE  Max(S) \in S /\ \A y \in S : y <= Max(S)
<1> DEFINE U == {k \in Nat : \A y \in S : y <= k}
<1>1. U # {} /\ U \subseteq Nat
  OBVIOUS
<1>2. PICK m \in U : \A k \in U : ~ (<<k, m>> \in OpToRel(<, Nat))
  <2> HIDE DEF U
  <2> QED BY <1>1, WFMin, NatLessThanWellFounded
<1>3. \A k \in U : ~ (k < m)
  BY <1>2 DEF OpToRel
<1>4. m \in S
  <2> SUFFICES ASSUME m \notin S PROVE FALSE
    OBVIOUS
  <2>1. PICK x \in S : TRUE
    OBVIOUS
  <2>2. m \in Nat /\ m - 1 \in Nat /\ m - 1 < m
    BY <2>1
  <2>3. \A y \in S : y <= m - 1
    OBVIOUS
  <2> QED BY <1>3, <2>2, <2>3
<1>5. \E x \in S : \A y \in S : x >= y
  BY <1>4
<1> QED BY <1>5 DEF Max

\* The fields of the records.
LEMMA StreamFields ==
  ASSUME StreamTypes
  PROVE  /\ plan.kind \in {"sql", "kafka", "http", "cron"} /\ plan.size \in Nat /\ plan.size > 0
         /\ plan.whole \in BOOLEAN /\ (plan.whole => plan.kind = "sql")
         /\ plan.top \in 0..MaxItems /\ plan.may \in [refusals : Nat, faults : Nat, restarts : Nat]
         /\ page.from \in Nat /\ page.to \in Nat
         /\ \A c \in calls : c.seq \in Nat /\ c.item \in Nat /\ c.ok \in BOOLEAN
         /\ \A q \in pending : q.seq \in Nat /\ q.item \in Nat
BY StreamAssumption DEF StreamTypes

\* The invariant holds initially.
LEMMA StreamFirst == StreamInit => StreamInv
<1> SUFFICES ASSUME StreamInit PROVE StreamInv
  OBVIOUS
<1>1. StreamTypes
  BY StreamAssumption DEF StreamInit, StreamTypes, NoPage
<1>2. 1..0 = {}
  OBVIOUS
<1> QED BY <1>1, <1>2 DEF StreamInit, StreamInv, OneCall, OkSpooled, PulledSpooled, PendingTrue, PositionsSpooled,
       Prefix, NoPosition, LastInHand, AnsweredIsSpooled, NoPage, Pulls

\* The position that Commit computes: the one it had, or that of an accepted emission.
LEMMA FrontierSpooled ==
  ASSUME StreamInv
  PROVE  /\ Frontier \in Nat /\ 1..Frontier \subseteq spooled
         /\ Scanned # {} => \A q \in Scanned : q.item <= Frontier
         /\ Scanned # {} => Frontier <= pulled
<1> USE DEF StreamInv
<1>1. CASE Scanned = {}
  BY <1>1 DEF Frontier, PositionsSpooled, StreamTypes
<1>2. CASE Scanned # {}
  <2> DEFINE S == {q.item : q \in Scanned}
  <2>1. Scanned \subseteq pending
    BY DEF Scanned
  <2>2. S \in SUBSET Nat /\ S # {} /\ \A y \in S : y <= pulled
    BY <1>2, <2>1, StreamFields DEF PendingTrue
  <2>3. pulled \in Nat
    BY DEF StreamTypes
  <2>4. Max(S) \in S /\ \A y \in S : y <= Max(S)
    <3> HIDE DEF S
    <3> QED BY <2>2, <2>3, MaxItem
  <2>5. Frontier = Max(S)
    BY <1>2 DEF Frontier
  <2>6. PICK q \in Scanned : q.item = Frontier
    BY <2>4, <2>5
  <2>7. q.seq \in Nat /\ through \in Nat /\ last \in Nat /\ last < q.seq /\ q.seq <= through
    BY <2>1, <2>6, StreamFields DEF Scanned, StreamTypes
  <2>8. q.seq \in 1..through
    BY <2>7
  <2>9. 1..q.item \subseteq spooled
    BY <2>1, <2>8 DEF Prefix, PendingTrue
  <2> QED BY <1>2, <2>2, <2>4, <2>5, <2>6, <2>9
<1> QED BY <1>1, <1>2

\* Every step preserves the invariant.
LEMMA StreamStep == StreamInv /\ [StreamNext]_streamVars => StreamInv'
<1> SUFFICES ASSUME StreamInv, [StreamNext]_streamVars PROVE StreamInv'
  OBVIOUS
<1> USE DEF StreamInv
<1>0. 1..0 = {}
  OBVIOUS
<1>1. CASE Begin
  <2>1. StreamTypes'
    BY <1>1 DEF Begin, StreamTypes, NoPage, histVars
  <2> QED BY <1>0, <1>1, <2>1 DEF Begin, NoPage, histVars, OneCall, OkSpooled, PulledSpooled, PendingTrue, PositionsSpooled,
         Prefix, NoPosition, LastInHand, AnsweredIsSpooled, Pulls, StreamTypes
<1>2. CASE Fetch
  <2>1. StreamTypes' /\ calls = {} /\ (run' = "rows" => page'.from = pulled)
    <3>1. CASE pulled < top /\ page' = [from |-> pulled, to |-> Min({top, pulled + plan.size})] /\ run' = "rows"
      <4>1. top \in Nat /\ pulled + plan.size \in Nat
        BY StreamFields DEF StreamTypes
      <4>2. Min({top, pulled + plan.size}) \in Nat
        BY <4>1 DEF Min
      <4> QED BY <1>2, <3>1, <4>2 DEF Fetch, StreamTypes, commitVars, histVars, engineVars
    <3>2. CASE run' = "exhausted" /\ page' = page
      BY <1>2, <3>2 DEF Fetch, StreamTypes, commitVars, histVars, engineVars
    <3> QED BY <1>2, <3>1, <3>2 DEF Fetch
  <2>2. page' = page \/ page'.from = pulled
    BY <1>2 DEF Fetch
  <2>3. 1..pulled \subseteq spooled
    BY <1>2 DEF Fetch, PulledSpooled
  <2> QED BY <1>2, <2>1, <2>2, <2>3 DEF Fetch, commitVars, histVars, engineVars, OneCall, OkSpooled, PulledSpooled, PendingTrue,
         PositionsSpooled, Prefix, NoPosition, LastInHand, AnsweredIsSpooled, Pulls, StreamTypes
<1>3. CASE Offer
  <2> DEFINE item == IF plan.whole THEN page.to ELSE pulled + 1
  <2>0. pulled \in Nat /\ page.to \in Nat /\ page.from \in Nat /\ nextSeq \in Nat /\ pulled < page.to /\ plan.whole \in BOOLEAN /\ page.from <= pulled
    BY <1>3, StreamFields DEF Offer, StreamTypes, PulledSpooled
  <2>1. item \in Nat /\ pulled < item /\ page.from < item /\ item <= page.to /\ (~ plan.whole => item - 1 = pulled)
    BY <2>0
  <2>2. pulled' = item /\ nextSeq' = nextSeq + 1 /\ calls = {} /\ calls' = {[seq |-> nextSeq + 1, item |-> item, ok |-> FALSE]}
        /\ pending' = (IF plan.kind = "kafka" THEN pending \cup {[seq |-> nextSeq + 1, item |-> item]} ELSE pending)
        /\ UNCHANGED <<plan, top, run, page, last, mark, saved, spooled, answered, admitted, through, can>>
        /\ run = "rows"
    BY <1>3 DEF Offer, Number, histVars, engineVars
  <2> HIDE DEF item
  <2>3. StreamTypes'
    <3>1. pending' \subseteq [seq : Nat, item : Nat] /\ calls' \subseteq [seq : Nat, item : Nat, ok : BOOLEAN]
      BY <2>0, <2>1, <2>2 DEF StreamTypes
    <3> QED BY <2>0, <2>1, <2>2, <3>1 DEF StreamTypes
  <2>4. Pulls /\ 1..pulled \subseteq spooled
    BY <2>2 DEF NoPosition, PulledSpooled
  <2>5. OneCall'
    <3> SUFFICES ASSUME NEW d \in calls'
                 PROVE  /\ calls' = {d} /\ d.seq = nextSeq' /\ d.item = pulled'
                        /\ 1..(IF plan.whole THEN page.from ELSE d.item - 1) \subseteq spooled
                        /\ page.from < d.item /\ d.item <= page.to /\ ~ d.ok
      BY <2>2 DEF OneCall, Before
    <3>1. d = [seq |-> nextSeq + 1, item |-> item, ok |-> FALSE]
      BY <2>2
    <3>2. d.seq = nextSeq + 1 /\ d.item = item /\ d.ok = FALSE
      BY <3>1
    <3>3. 1..(IF plan.whole THEN page.from ELSE d.item - 1) \subseteq spooled
      <4>1. CASE plan.whole
        BY <4>1 DEF PositionsSpooled
      <4>2. CASE ~ plan.whole
        BY <2>1, <2>4, <3>2, <4>2
      <4> QED BY <4>1, <4>2
    <3> QED BY <2>1, <2>2, <3>1, <3>2, <3>3
  <2>6. OkSpooled' /\ PulledSpooled'
    <3>1. \A d \in calls' : d.ok = FALSE
      BY <2>2
    <3>2. page.from <= pulled' /\ calls' # {}
      BY <2>0, <2>1, <2>2
    <3> QED BY <2>2, <3>1, <3>2 DEF OkSpooled, PulledSpooled
  <2>7. nextSeq + 1 \notin admitted
    BY <2>0 DEF Prefix
  <2>8. PendingTrue'
    BY <2>0, <2>1, <2>2, <2>7, StreamFields DEF PendingTrue
  <2>9. Prefix'
    <3>1. 1..nextSeq \subseteq 1..(nextSeq + 1)
      BY <2>0
    <3>2. \A d \in calls' : d.seq \in 1..nextSeq'
      <4>1. nextSeq + 1 \in 1..(nextSeq + 1)
        BY <2>0
      <4>2. \A d \in calls' : d.seq = nextSeq + 1
        BY <2>2
      <4> QED BY <2>2, <4>1, <4>2
    <3>3. admitted \subseteq 1..(nextSeq + 1)
      BY <3>1 DEF Prefix
    <3> QED BY <2>2, <3>2, <3>3 DEF Prefix
  <2>10. PositionsSpooled' /\ NoPosition' /\ AnsweredIsSpooled'
    BY <2>2, <2>4 DEF PositionsSpooled, NoPosition, AnsweredIsSpooled, Pulls
  <2>11. LastInHand'
    <3>1. last <= nextSeq
      <4>1. last \in Nat /\ through \in Nat /\ (through = 0 \/ through \in 1..through)
        BY DEF StreamTypes
      <4> QED BY <2>0, <4>1 DEF Prefix
    <3>2. last < nextSeq' /\ last \in Nat
      BY <2>0, <2>2, <3>1 DEF StreamTypes
    <3> QED BY <2>0, <2>2, <3>2 DEF LastInHand
  <2> QED BY <2>3, <2>5, <2>6, <2>8, <2>9, <2>10, <2>11
<1>4. CASE Push
  <2>1. ~ Pulls /\ plan.kind # "kafka" /\ pending = {} /\ run = "page" /\ nextSeq \in Nat /\ top \in Nat /\ top + 1 \in 0..MaxItems
    BY <1>4, StreamAssumption DEF Push, NoPosition, StreamTypes, Pulls
  <2>2. top' = top + 1 /\ nextSeq' = nextSeq + 1 /\ pending' = pending
        /\ calls' = calls \cup {[seq |-> nextSeq + 1, item |-> top + 1, ok |-> FALSE]}
        /\ UNCHANGED <<plan, run, pulled, page, last, mark, saved, spooled, answered, admitted, through, can>>
    BY <1>4, <2>1 DEF Push, Number, posVars, histVars, engineVars
  <2>3. StreamTypes'
    <3>1. calls' \subseteq [seq : Nat, item : Nat, ok : BOOLEAN]
      <4>1. nextSeq + 1 \in Nat /\ top + 1 \in Nat
        BY <2>1
      <4>2. [seq |-> nextSeq + 1, item |-> top + 1, ok |-> FALSE] \in [seq : Nat, item : Nat, ok : BOOLEAN]
        BY <4>1
      <4> QED BY <2>2, <4>2 DEF StreamTypes
    <3> QED BY <2>1, <2>2, <3>1 DEF StreamTypes
  <2>4. Prefix'
    <3>1. 1..nextSeq \subseteq 1..(nextSeq + 1) /\ nextSeq + 1 \in 1..(nextSeq + 1)
      BY <2>1
    <3>2. \A d \in calls' : d.seq \in 1..nextSeq'
      BY <2>2, <3>1 DEF Prefix
    <3> QED BY <2>1, <2>2, <3>1, <3>2 DEF Prefix
  <2> QED BY <2>1, <2>2, <2>3, <2>4 DEF OneCall, OkSpooled, PulledSpooled, PendingTrue,
         PositionsSpooled, NoPosition, LastInHand, AnsweredIsSpooled, Pulls
<1>5. CASE Commits
  <2>1. through' = through + 1 /\ through \in Nat /\ last \in Nat /\ through + 1 \in admitted
    BY <1>5 DEF Commits, StreamTypes
  <2>2. UNCHANGED <<plan, top, run, pulled, page, calls, nextSeq, pending, last, mark, saved, spooled, answered, admitted, can>>
    BY <1>5 DEF Commits, posVars, commitVars, histVars
  <2>3. 1..through' \subseteq admitted' /\ last' <= through'
    <3>1. 1..(through + 1) = (1..through) \cup {through + 1}
      BY <2>1
    <3> QED BY <2>1, <2>2, <3>1 DEF Prefix
  <2>4. StreamTypes'
    BY <2>1, <2>2 DEF StreamTypes
  <2> QED BY <2>2, <2>3, <2>4 DEF Prefix, OneCall, Before, OkSpooled, PulledSpooled, PendingTrue,
         PositionsSpooled, NoPosition, LastInHand, AnsweredIsSpooled, Pulls
<1>6. CASE CommitState \/ CommitOffsets
  <2>1. /\ pending' = pending \ Scanned /\ last' = through /\ Pulls /\ last < through
        /\ UNCHANGED <<plan, top, run, pulled, page, calls, nextSeq, spooled, answered, admitted, through>>
    BY <1>6 DEF CommitState, CommitOffsets, posVars, histVars, engineVars, Pulls
  <2>2. \/ mark' = Frontier /\ saved' = Frontier /\ can' = can
        \/ UNCHANGED <<mark, saved>> /\ can' = [can EXCEPT !.faults = @ - 1] /\ can.faults > 0
    BY <1>6 DEF CommitState, CommitOffsets, Spend
  <2>3. can' \in [refusals : Nat, faults : Nat, restarts : Nat] /\ can'.faults <= plan.may.faults
        /\ (can' # can => can'.faults < plan.may.faults)
    BY <2>2, StreamFields DEF StreamTypes
  <2>4. mark' \in Nat /\ saved' \in Nat /\ 1..mark' \subseteq spooled /\ 1..saved' \subseteq spooled
    BY <2>2, FrontierSpooled DEF StreamTypes, PositionsSpooled
  <2>5. StreamTypes'
    BY <2>1, <2>3, <2>4 DEF StreamTypes
  <2>6. PositionsSpooled'
    BY <2>1, <2>4 DEF PositionsSpooled
  <2>7. LastInHand'
    <3> SUFFICES ASSUME plan'.kind = "kafka", run' # "down", can'.faults = plan'.may.faults
                 PROVE  (last' = nextSeq' => saved' = pulled') /\ (last' < nextSeq' => [seq |-> nextSeq', item |-> pulled'] \in pending')
      BY DEF LastInHand
    <3>1. can' = can /\ saved' = Frontier
      BY <2>1, <2>2, <2>3, StreamFields DEF StreamTypes
    <3>2. last <= nextSeq /\ last \in Nat /\ through \in Nat /\ nextSeq \in Nat /\ through <= nextSeq
      <4>1. last \in Nat /\ through \in Nat /\ (through = 0 \/ through \in 1..through) /\ nextSeq \in Nat
        BY DEF StreamTypes
      <4> QED BY <4>1 DEF Prefix
    <3>3. [seq |-> nextSeq, item |-> pulled] \in pending
      BY <2>1, <3>1, <3>2 DEF LastInHand
    <3>4. CASE through = nextSeq
      <4>1. [seq |-> nextSeq, item |-> pulled] \in Scanned
        BY <2>1, <3>2, <3>3, <3>4 DEF Scanned
      <4>2. pulled <= Frontier /\ Frontier <= pulled /\ Frontier \in Nat /\ pulled \in Nat
        BY <4>1, FrontierSpooled DEF StreamTypes
      <4> QED BY <2>1, <3>1, <3>2, <3>4, <4>2
    <3>5. CASE through # nextSeq
      <4>1. [seq |-> nextSeq, item |-> pulled] \notin Scanned
        BY <3>2, <3>5 DEF Scanned
      <4> QED BY <2>1, <3>3, <3>5, <4>1
    <3> QED BY <3>4, <3>5
  <2>8. last' <= through'
    BY <2>1 DEF StreamTypes
  <2> QED BY <2>1, <2>5, <2>6, <2>7, <2>8 DEF Prefix, OneCall, Before, OkSpooled, PulledSpooled, PendingTrue, NoPosition, AnsweredIsSpooled, Pulls
<1>7. CASE Grow \/ QueryFails
  <2>1. UNCHANGED <<plan, pulled, page, calls, nextSeq, pending, last, mark, saved, spooled, answered, admitted, through>>
        /\ top' \in 0..MaxItems /\ run' \in {run, "failed"} /\ (run' # run => run = "page") /\ can'.faults <= can.faults /\ can' \in [refusals : Nat, faults : Nat, restarts : Nat]
        /\ (can'.faults = can.faults => can' = can)
    BY <1>7, StreamAssumption DEF Grow, QueryFails, Spend, StreamTypes, posVars, commitVars, histVars, engineVars
  <2>2. can.faults \in Nat /\ can'.faults \in Nat /\ plan.may.faults \in Nat /\ can.faults <= plan.may.faults
    BY <2>1, StreamFields DEF StreamTypes
  <2>3. StreamTypes'
    BY <2>1, <2>2 DEF StreamTypes
  <2>4. LastInHand'
    <3> SUFFICES ASSUME can'.faults = plan.may.faults, plan.kind = "kafka" PROVE LastInHand'
      BY <2>1 DEF LastInHand
    <3>1. can.faults = plan.may.faults
      BY <2>1, <2>2
    <3> QED BY <2>1, <3>1 DEF LastInHand
  <2> QED BY <2>1, <2>3, <2>4 DEF Prefix, OneCall, Before, OkSpooled, PulledSpooled, PendingTrue, PositionsSpooled, NoPosition, AnsweredIsSpooled, Pulls
<1>8. CASE End
  <2>1. can' \in [refusals : Nat, faults : Nat, restarts : Nat] /\ can'.faults <= plan.may.faults
    BY <1>8 DEF End, Spend, StreamTypes
  <2>2. StreamTypes'
    BY <1>8, <2>1 DEF End, StreamTypes, NoPage, histVars
  <2> QED BY <1>0, <1>8, <2>2 DEF End, NoPage, histVars, OneCall, OkSpooled, PulledSpooled, PendingTrue, PositionsSpooled,
         Prefix, NoPosition, LastInHand, AnsweredIsSpooled, Pulls, StreamTypes
<1>9. ASSUME NEW c \in calls, Accept(c) PROVE StreamInv'
  <2> DEFINE more == IF plan.whole THEN (page.from + 1)..c.item ELSE {c.item}
  <2> DEFINE cok == [c EXCEPT !.ok = TRUE]
  <2>1. /\ ~ c.ok /\ calls' = (calls \ {c}) \cup {cok} /\ spooled' = spooled \cup more /\ admitted' = admitted \cup {c.seq}
        /\ UNCHANGED <<plan, top, run, pulled, page, nextSeq, pending, last, mark, saved, answered, through, can>>
    BY <1>9 DEF Accept, posVars, commitVars
  <2>2. c.seq \in Nat /\ c.item \in Nat /\ page.from \in Nat /\ plan.whole \in BOOLEAN /\ c \in [seq : Nat, item : Nat, ok : BOOLEAN]
    BY StreamFields DEF StreamTypes
  <2>3. cok \in [seq : Nat, item : Nat, ok : BOOLEAN] /\ cok.seq = c.seq /\ cok.item = c.item /\ cok.ok
    BY <2>2
  <2> HIDE DEF cok
  <2>4. more \subseteq Nat
    BY <2>2
  <2>5. StreamTypes'
    <3>1. calls' \subseteq [seq : Nat, item : Nat, ok : BOOLEAN] /\ spooled' \subseteq Nat /\ admitted' \subseteq Nat
      BY <2>1, <2>2, <2>3, <2>4 DEF StreamTypes
    <3> QED BY <2>1, <3>1 DEF StreamTypes
  <2>6. c.item \in spooled'
    <3>1. CASE plan.whole
      <4>1. Pulls
        BY <3>1, StreamFields DEF Pulls
      <4>2. page.from < c.item
        BY <4>1 DEF OneCall
      <4> QED BY <2>1, <2>2, <3>1, <4>2
    <3>2. CASE ~ plan.whole
      BY <2>1, <3>2
    <3> QED BY <3>1, <3>2
  <2>7. Pulls => 1..c.item \subseteq spooled' /\ calls = {c} /\ calls' = {cok} /\ c.seq = nextSeq /\ c.item = pulled
    <3> SUFFICES ASSUME Pulls PROVE 1..c.item \subseteq spooled' /\ calls = {c} /\ c.seq = nextSeq /\ c.item = pulled
      BY <2>1
    <3>1. 1..Before(c) \subseteq spooled /\ page.from < c.item
      BY DEF OneCall
    <3>2. 1..c.item \subseteq (1..Before(c)) \cup more
      BY <2>2, <3>1 DEF Before
    <3> QED BY <2>1, <3>1, <3>2 DEF OneCall
  <2> HIDE DEF more
  <2>8. OneCall'
    <3> SUFFICES ASSUME Pulls, NEW d \in calls'
                 PROVE  /\ calls' = {d} /\ d.seq = nextSeq /\ d.item = pulled
                        /\ 1..(IF plan.whole THEN page.from ELSE d.item - 1) \subseteq spooled'
                        /\ page.from < d.item /\ d.item <= page.to
                        /\ d.ok => 1..d.item \subseteq spooled'
      BY <2>1 DEF OneCall, Pulls, Before
    <3>1. 1..(IF plan.whole THEN page.from ELSE c.item - 1) \subseteq spooled /\ page.from < c.item /\ c.item <= page.to
      BY DEF OneCall, Before
    <3>2. d = cok
      BY <2>7
    <3> QED BY <2>1, <2>3, <2>7, <3>1, <3>2
  <2>9. OkSpooled'
    BY <2>1, <2>3, <2>6 DEF OkSpooled
  <2>10. PulledSpooled'
    BY <2>1 DEF PulledSpooled, Pulls
  <2>12. PendingTrue'
    <3> SUFFICES ASSUME NEW q \in pending, q.seq \in admitted' PROVE 1..q.item \subseteq spooled'
      BY <2>1 DEF PendingTrue
    <3>1. CASE q.seq \in admitted
      BY <2>1, <3>1 DEF PendingTrue
    <3>2. CASE q.seq = c.seq
      <4>1. Pulls
        BY DEF NoPosition
      <4> QED BY <2>7, <3>2, <4>1 DEF PendingTrue
    <3> QED BY <2>1, <3>1, <3>2
  <2>13. Prefix'
    <3>1. c.seq \in 1..nextSeq /\ run # "down"
      BY DEF Prefix
    <3>2. \A d \in calls' : d.seq \in 1..nextSeq
      BY <2>1, <2>3, <3>1 DEF Prefix
    <3> QED BY <2>1, <3>1, <3>2 DEF Prefix
  <2> QED BY <2>1, <2>5, <2>8, <2>9, <2>10, <2>12, <2>13 DEF PositionsSpooled, NoPosition, LastInHand, AnsweredIsSpooled, Pulls
<1>10. ASSUME NEW c \in calls, Return(c) \/ Refuse(c) PROVE StreamInv'
  <2>1. /\ calls' = calls \ {c}
        /\ UNCHANGED <<plan, top, pulled, page, nextSeq, last, mark, saved, spooled, admitted, through>>
    BY <1>10 DEF Return, Refuse, posVars, commitVars, histVars, engineVars
  <2>2. can' \in [refusals : Nat, faults : Nat, restarts : Nat] /\ can'.faults = can.faults
    BY <1>10 DEF Return, Refuse, Spend, StreamTypes
  <2>3. c.seq \in Nat /\ c.item \in Nat /\ c.ok \in BOOLEAN /\ run # "down" /\ c.seq \in 1..nextSeq
    BY StreamFields DEF Prefix
  <2>4. \/ pending' = pending
        \/ plan.kind = "sql" /\ c.ok /\ pending' = pending \cup {[seq |-> c.seq, item |-> c.item]}
    BY <1>10 DEF Return, Refuse, commitVars
  <2>5. answered' = answered \/ (c.ok /\ answered' = answered \cup {c.item})
    BY <1>10 DEF Return, Refuse, histVars
  <2>6. /\ run' \in {run, "failed", "exhausted", "page"}
        /\ run' # "failed" => c.ok \/ ~ Pulls
        /\ run' = "rows" => run = "rows"
    BY <1>10, <2>3 DEF Return, Refuse, AfterRow, Pulls
  <2>6a. run' # "down" /\ (run' # "rows" \/ run = "rows")
    BY <2>3, <2>6
  <2>7. StreamTypes'
    <3>0. [seq |-> c.seq, item |-> c.item] \in [seq : Nat, item : Nat]
      BY <2>3
    <3>1. pending' \subseteq [seq : Nat, item : Nat] /\ answered' \subseteq Nat
      <4>1. pending' \subseteq [seq : Nat, item : Nat]
        BY <2>4, <3>0 DEF StreamTypes
      <4>2. answered' \subseteq Nat
        BY <2>3, <2>5 DEF StreamTypes
      <4> QED BY <4>1, <4>2
    <3>2. run' \in {"down", "page", "rows", "exhausted", "failed"}
      BY <2>6 DEF StreamTypes
    <3>3. calls' \subseteq [seq : Nat, item : Nat, ok : BOOLEAN]
      BY <2>1 DEF StreamTypes
    <3> QED BY <2>1, <2>2, <3>1, <3>2, <3>3 DEF StreamTypes
  <2>8. OneCall' /\ OkSpooled' /\ PositionsSpooled'
    <3>1. Pulls => calls' = {}
      BY <2>1 DEF OneCall
    <3> QED BY <2>1, <3>1 DEF OneCall, OkSpooled, PositionsSpooled, Pulls
  <2>9. PulledSpooled'
    <3>1. Pulls /\ run' # "failed" => 1..pulled \subseteq spooled
      BY <2>3, <2>6 DEF OneCall
    <3> QED BY <2>1, <2>6, <3>1 DEF PulledSpooled, Pulls
  <2>10. PendingTrue'
    <3>1. CASE pending' = pending
      BY <2>1, <3>1 DEF PendingTrue
    <3>2. CASE plan.kind = "sql" /\ c.ok /\ pending' = pending \cup {[seq |-> c.seq, item |-> c.item]}
      <4>1. Pulls
        BY <3>2 DEF Pulls
      <4>2. c.seq = nextSeq /\ c.item = pulled /\ 1..c.item \subseteq spooled
        BY <3>2, <4>1 DEF OneCall
      <4>3. \A q \in pending' : q \in pending \/ (q.seq = nextSeq /\ q.item = pulled)
        BY <3>2, <4>2
      <4>4. pulled \in Nat /\ nextSeq \in Nat
        BY DEF StreamTypes
      <4> QED BY <2>1, <4>2, <4>3, <4>4 DEF PendingTrue
    <3> QED BY <2>4, <3>1, <3>2
  <2>11. Prefix'
    BY <2>1, <2>6a DEF Prefix
  <2>12. AnsweredIsSpooled'
    BY <2>1, <2>5 DEF AnsweredIsSpooled, OkSpooled
  <2>13. NoPosition'
    BY <2>1, <2>4, <2>6 DEF NoPosition, Pulls
  <2>14. LastInHand'
    BY <2>1, <2>2, <2>3, <2>4 DEF LastInHand
  <2> QED BY <2>7, <2>8, <2>9, <2>10, <2>11, <2>12, <2>13, <2>14
<1>11. CASE UNCHANGED streamVars
  BY <1>11 DEF streamVars, StreamTypes, Prefix, OneCall, Before, OkSpooled, PulledSpooled, PendingTrue, PositionsSpooled, NoPosition, LastInHand, AnsweredIsSpooled, Pulls
<1> QED BY <1>1, <1>2, <1>3, <1>4, <1>5, <1>6, <1>7, <1>8, <1>9, <1>10, <1>11 DEF StreamNext

\* Whatever the order of emit, its return, the engine's commit and the Commit call, and
\* wherever a run of a stream source ends: the saved position is behind what is in the
\* spool, a client told 202 has its event there, and kafka's position is the last item
\* pulled once everything is committed.
THEOREM StreamSound == StreamSpec => []StreamPositions
<1>1. StreamInv => StreamPositions
  <2> SUFFICES ASSUME StreamInv PROVE StreamPositions
    OBVIOUS
  <2>1. SavedIsSpooled
    BY DEF StreamInv, PositionsSpooled, SavedIsSpooled
  <2>2. PositionCatchesUp
    BY DEF StreamInv, LastInHand, PositionCatchesUp
  <2> QED BY <2>1, <2>2 DEF StreamInv, StreamPositions
<1> QED BY <1>1, StreamFirst, StreamStep, PTL DEF StreamSpec

-----------------------------------------------------------------------------
(* The host of external plugins.                                           *)

Places == {"idle", "live", "backoff", "spawn", "init", "have", "drop", "error", "close", "closed"}
ProcessRecord == [up : BOOLEAN, broken : BOOLEAN, inited : BOOLEAN, next : Nat \ {0}]
ActorRecord == [at : Places, p : Nat, inits : Nat, again : BOOLEAN]

PluginTypes ==
  /\ policy \in [kind : {"source", "sink"}, restart : BOOLEAN]
  /\ procs \in Seq(ProcessRecord) /\ 1 \in 1..Len(procs)
  /\ sup \in [proc : Nat, inited : Nat, state : Nat, attempt : Nat, closed : BOOLEAN]
  /\ actor \in [Actors -> ActorRecord]
  /\ mu \in Actors \cup {"none"} /\ canceled \in BOOLEAN
  /\ frontier \in Nat /\ tried \in Nat /\ persisted \in Nat
  /\ faults \in Nat /\ restarts \in Nat

\* Every process that is named exists.
Named ==
  /\ sup.proc \in 0..Len(procs)
  /\ sup.inited # NoProc => sup.inited \in 1..Len(procs) /\ procs[sup.inited].inited
  /\ \A a \in Actors : actor[a].at \in {"init", "have", "drop"} => actor[a].p \in 1..Len(procs)

\* The mutex is held from the backoff to the answer of Init, by an actor of a
\* supervised plugin that found no process running.
Held ==
  /\ \A a \in Actors : actor[a].at \in {"backoff", "spawn", "init"} <=> mu = a
  /\ \A a \in Actors : actor[a].at \in {"live", "backoff", "spawn", "init", "drop"} => policy.restart
  /\ \A a \in Actors : actor[a].at \in {"backoff", "spawn"} => ~ Up(sup.proc)
  /\ sup.closed => mu = "none"

\* Without a supervisor there is one process, and nothing moves before its Init.
OneProcess ==
  ~ policy.restart =>
    /\ Len(procs) = 1 /\ restarts = 0
    /\ policy.kind = "source" /\ ~ procs[1].inited =>
         taken = 1..frontier /\ tried = frontier /\ persisted = frontier

\* The current process has failed, or a call on it has.
Doomed ==
  \/ ~ Up(sup.proc)
  \/ procs[sup.proc].broken
  \/ \E a \in Actors : actor[a].at = "drop" /\ actor[a].p = sup.proc

\* A fault for every process that was replaced, and one for the current one when it is
\* to be.
Due ==
  ~ canceled =>
    /\ restarts <= faults
    /\ policy.restart /\ ~ sup.closed /\ Doomed => restarts + 1 <= faults

\* Every process emits next what follows a prefix of what was accepted.
Behind ==
  policy.kind = "source" =>
    /\ taken \subseteq Nat /\ \A i \in taken : 1..i \subseteq taken
    /\ 1..frontier \subseteq taken /\ 1..tried \subseteq taken
    /\ 1..persisted \subseteq taken /\ 1..sup.state \subseteq taken
    /\ \A p \in 1..Len(procs) : 1..(procs[p].next - 1) \subseteq taken

PluginInv ==
  /\ PluginTypes /\ Named /\ Held /\ OneProcess /\ Due /\ Behind /\ ConfiguredBeforeUse /\ Supervised
-----------------------------------------------------------------------------
\* One process changes.
LEMMA ProcessSet ==
  ASSUME PluginTypes, NEW p \in 1..Len(procs), NEW r \in ProcessRecord, procs' = [procs EXCEPT ![p] = r]
  PROVE  /\ procs' \in Seq(ProcessRecord) /\ Len(procs') = Len(procs)
         /\ procs'[p] = r /\ \A q \in 1..Len(procs) : q # p => procs'[q] = procs[q]
<1>1. procs \in Seq(ProcessRecord)
  BY DEF PluginTypes
<1>2. procs' \in Seq(ProcessRecord) /\ Len(procs') = Len(procs)
  BY <1>1, ExceptSeq
<1>3. DOMAIN procs = 1..Len(procs)
  BY <1>1
<1> QED BY <1>2, <1>3

\* Processes change in place.
LEMMA ProcessesSet ==
  ASSUME PluginTypes, procs' = [p \in DOMAIN procs |-> procs'[p]],
         \A p \in 1..Len(procs) : procs'[p] \in ProcessRecord
  PROVE  procs' \in Seq(ProcessRecord) /\ Len(procs') = Len(procs)
<1>1. Len(procs) \in Nat /\ DOMAIN procs = 1..Len(procs)
  BY DEF PluginTypes
<1>2. procs' \in [1..Len(procs) -> ProcessRecord]
  BY <1>1
<1> QED BY <1>1, <1>2, SeqDef

\* The fields of the state's records.
LEMMA PluginFields ==
  ASSUME PluginTypes
  PROVE  /\ policy.kind \in {"source", "sink"} /\ policy.restart \in BOOLEAN
         /\ Len(procs) \in Nat /\ DOMAIN procs = 1..Len(procs)
         /\ \A p \in 1..Len(procs) : /\ procs[p] \in ProcessRecord
                                     /\ procs[p].up \in BOOLEAN /\ procs[p].broken \in BOOLEAN
                                     /\ procs[p].inited \in BOOLEAN /\ procs[p].next \in Nat \ {0}
         /\ sup.proc \in Nat /\ sup.inited \in Nat /\ sup.state \in Nat /\ sup.attempt \in Nat /\ sup.closed \in BOOLEAN
         /\ \A a \in Actors : /\ actor[a] \in ActorRecord /\ actor[a].at \in Places /\ actor[a].p \in Nat
                              /\ actor[a].inits \in Nat /\ actor[a].again \in BOOLEAN
<1>1. procs \in Seq(ProcessRecord)
  BY DEF PluginTypes
<1>2. Len(procs) \in Nat /\ DOMAIN procs = 1..Len(procs) /\ \A p \in 1..Len(procs) : procs[p] \in ProcessRecord
  BY <1>1
<1>3. \A p \in 1..Len(procs) : /\ procs[p].up \in BOOLEAN /\ procs[p].broken \in BOOLEAN
                               /\ procs[p].inited \in BOOLEAN /\ procs[p].next \in Nat \ {0}
  BY <1>2 DEF ProcessRecord
<1>4. \A a \in Actors : actor[a] \in ActorRecord
  BY DEF PluginTypes
<1>5. \A a \in Actors : actor[a].at \in Places /\ actor[a].p \in Nat /\ actor[a].inits \in Nat /\ actor[a].again \in BOOLEAN
  BY <1>4 DEF ActorRecord
<1> QED BY <1>2, <1>3, <1>4, <1>5 DEF PluginTypes

\* A process that is stopped.
LEMMA KilledFields ==
  ASSUME PluginTypes, NEW p \in 1..Len(procs)
  PROVE  /\ Killed(p) \in ProcessRecord /\ Killed(p).up = FALSE /\ Killed(p).broken = FALSE
         /\ Killed(p).inited = procs[p].inited /\ Killed(p).next = 1
<1>1. procs[p] \in [up : BOOLEAN, broken : BOOLEAN, inited : BOOLEAN, next : Nat \ {0}]
  BY PluginFields DEF ProcessRecord
<1>2. Killed(p) = [procs[p] EXCEPT !.up = FALSE, !.broken = FALSE, !.next = 1]
  BY DEF Killed
<1>3. /\ Killed(p).up = FALSE /\ Killed(p).broken = FALSE
      /\ Killed(p).inited = procs[p].inited /\ Killed(p).next = 1
  BY <1>1, <1>2
<1>4. Killed(p) \in ProcessRecord
  <2>1. Killed(p) = [up |-> FALSE, broken |-> FALSE, inited |-> procs[p].inited, next |-> 1]
    BY <1>1, <1>2
  <2> QED BY <1>1, <2>1 DEF ProcessRecord
<1> QED BY <1>3, <1>4

\* The invariant holds initially.
LEMMA PluginFirst == PluginInit => PluginInv
<1> SUFFICES ASSUME PluginInit PROVE PluginInv
  OBVIOUS
<1>1. Process \in ProcessRecord /\ Process.up /\ ~ Process.broken /\ Process.next = 1
  BY DEF Process, ProcessRecord
<1>2. procs \in Seq(ProcessRecord) /\ Len(procs) = 1 /\ procs[1] = Process
  BY <1>1 DEF PluginInit
<1>3. policy \in [kind : {"source", "sink"}, restart : BOOLEAN] /\ persisted \in Nat
  BY PluginAssumption DEF PluginInit
<1>4. actor \in [Actors -> ActorRecord] /\ \A a \in Actors : actor[a].at = "idle"
  <2>1. \A a \in Actors : actor[a].at = "idle" /\ actor[a] \in ActorRecord
    BY DEF PluginInit, Actors, NoCall, NoProc, ActorRecord, Places
  <2> QED BY <2>1 DEF PluginInit
<1>5. PluginTypes
  <2>1. sup \in [proc : Nat, inited : Nat, state : Nat, attempt : Nat, closed : BOOLEAN]
    BY <1>3 DEF PluginInit, NoProc
  <2>2. mu \in Actors \cup {"none"} /\ canceled \in BOOLEAN /\ frontier \in Nat /\ tried \in Nat /\ faults \in Nat /\ restarts \in Nat
    BY <1>3 DEF PluginInit
  <2>3. 1 \in 1..Len(procs)
    BY <1>2
  <2> QED BY <1>2, <1>3, <1>4, <2>1, <2>2, <2>3 DEF PluginTypes
<1>6. Behind
  BY <1>1, <1>2, <1>3 DEF PluginInit, Behind
<1>7. 1..0 = {}
  OBVIOUS
<1>8. Named
  BY <1>2, <1>4 DEF PluginInit, Named, NoProc
<1>9. Held
  BY <1>4 DEF PluginInit, Held, Actors
<1>10. Up(1) /\ sup.proc = 1 /\ ~ procs[1].broken
  BY <1>1, <1>2 DEF PluginInit, Up, NoProc
<1>11. Due
  BY <1>4, <1>10 DEF PluginInit, Due, Doomed
<1>12. OneProcess
  BY <1>2 DEF PluginInit, OneProcess
<1>13. ConfiguredBeforeUse /\ Supervised
  BY <1>2, <1>4, PluginFields, <1>5 DEF PluginInit, ConfiguredBeforeUse, Supervised, At
<1> QED BY <1>5, <1>6, <1>8, <1>9, <1>11, <1>12, <1>13 DEF PluginInv

\* A step of one actor that leaves the processes alone.
LEMMA QuietStep ==
  ASSUME PluginInv,
         NEW a \in Actors, NEW r \in ActorRecord, actor' = [actor EXCEPT ![a] = r],
         UNCHANGED <<policy, procs, taken, frontier, persisted, restarts>>,
         tried' \in {tried, frontier},
         NEW n \in Nat, sup' = [sup EXCEPT !.attempt = n],
         mu' \in {mu, a, "none"}, r.at \in {"backoff", "spawn", "init"} <=> mu' = a,
         mu' # mu => mu \in {a, "none"},
         mu' = a => ~ sup.closed,
         r.at \in {"init", "have", "drop"} => r.p \in 1..Len(procs),
         r.at \in {"live", "backoff", "spawn", "init", "drop"} => policy.restart,
         r.at \in {"backoff", "spawn"} => ~ Up(sup.proc),
         r.at = "have" => procs[r.p].inited,
         faults' \in {faults, faults + 1}, canceled' \in BOOLEAN, canceled => canceled',
         r.at = "drop" /\ ~ canceled' /\ r.p = sup.proc => Doomed \/ faults' = faults + 1
  PROVE  PluginInv'
<1> USE DEF PluginInv
<1>1. actor'[a] = r /\ \A b \in Actors : b # a => actor'[b] = actor[b]
  BY DEF PluginTypes
<1>2. actor' \in [Actors -> ActorRecord]
  BY DEF PluginTypes
<1>3. sup' \in [proc : Nat, inited : Nat, state : Nat, attempt : Nat, closed : BOOLEAN]
      /\ sup'.proc = sup.proc /\ sup'.inited = sup.inited /\ sup'.state = sup.state /\ sup'.closed = sup.closed
  BY DEF PluginTypes
<1>4. a # "none"
  BY DEF Actors
<1>5. PluginTypes'
  <2>1. mu' \in Actors \cup {"none"} /\ tried' \in Nat /\ faults' \in Nat
    BY DEF PluginTypes
  <2> QED BY <1>2, <1>3, <2>1 DEF PluginTypes
<1>6. Named'
  BY <1>1, <1>3 DEF Named
<1>7. Held'
  <2>1. \A b \in Actors : actor'[b].at \in {"backoff", "spawn", "init"} <=> mu' = b
    <3> SUFFICES ASSUME NEW b \in Actors, b # a PROVE actor'[b].at \in {"backoff", "spawn", "init"} <=> mu' = b
      BY <1>1
    <3>1. b # "none" /\ actor'[b] = actor[b]
      BY <1>1 DEF Actors
    <3>2. mu' = b <=> mu = b
      BY <3>1
    <3> QED BY <3>1, <3>2 DEF Held
  <2>2. sup'.closed => mu' = "none"
    BY <1>3, <1>4 DEF Held
  <2>3. Up(sup.proc)' = Up(sup.proc)
    BY <1>3 DEF Up
  <2>4. \A b \in Actors : actor'[b].at \in {"live", "backoff", "spawn", "init", "drop"} => policy'.restart
    BY <1>1 DEF Held
  <2>5. \A b \in Actors : actor'[b].at \in {"backoff", "spawn"} => ~ Up(sup.proc)
    BY <1>1 DEF Held
  <2> QED BY <2>1, <2>2, <2>3, <2>4, <2>5 DEF Held
<1>8. OneProcess'
  BY DEF OneProcess
<1>9. Due'
  <2>1. Doomed' => Doomed \/ (actor'[a].at = "drop" /\ actor'[a].p = sup.proc)
    BY <1>1, <1>3 DEF Doomed, Up
  <2> QED BY <1>1, <1>3, <2>1 DEF Due, PluginTypes
<1>10. Behind'
  BY <1>3 DEF Behind
<1>11. ConfiguredBeforeUse'
  BY <1>1 DEF ConfiguredBeforeUse, At
<1>12. Supervised'
  BY <1>3 DEF Supervised
<1> QED BY <1>5, <1>6, <1>7, <1>8, <1>9, <1>10, <1>11, <1>12

\* A step of one actor, as the code's helpers write it.
LEMMA GoesTo ==
  ASSUME PluginTypes, NEW a \in Actors, NEW place \in Places, Goes(a, place)
  PROVE  \E r \in ActorRecord : /\ actor' = [actor EXCEPT ![a] = r]
                                /\ r.at = place /\ r.p = actor[a].p /\ r.inits = actor[a].inits
<1>1. actor[a] \in [at : Places, p : Nat, inits : Nat, again : BOOLEAN]
  BY PluginFields DEF ActorRecord
<1>2. [actor[a] EXCEPT !.at = place] \in ActorRecord
  BY <1>1 DEF ActorRecord
<1>3. actor' = [actor EXCEPT ![a] = [actor[a] EXCEPT !.at = place]]
  BY DEF Goes
<1> QED BY <1>1, <1>2, <1>3

\* An actor returns.
LEMMA ReturnsTo ==
  ASSUME PluginTypes, Returns
  PROVE  \E r \in ActorRecord : actor' = [actor EXCEPT !["call"] = r] /\ r.at = "idle"
<1>1. NoCall \in ActorRecord /\ NoCall.at = "idle"
  BY DEF NoCall, ActorRecord, Places, NoProc
<1> QED BY <1>1 DEF Returns

\* An actor is handed a process.
LEMMA HandedTo ==
  ASSUME PluginTypes, NEW a \in Actors, NEW p \in 1..Len(procs), Handed(a, p)
  PROVE  \E r \in ActorRecord : /\ actor' = [actor EXCEPT ![a] = r]
                                /\ r.at = "live" \/ (r.at = "have" /\ r.p = p)
<1>1. actor[a] \in [at : Places, p : Nat, inits : Nat, again : BOOLEAN] /\ p \in Nat
  BY PluginFields DEF ActorRecord
<1>2. CASE actor[a].inits > 0
  <2>0. PICK r : r = [actor[a] EXCEPT !.at = "live", !.inits = actor[a].inits - 1]
    OBVIOUS
  <2>1. actor' = [actor EXCEPT ![a] = r]
    BY <1>2, <2>0 DEF Handed
  <2>2. r = [at |-> "live", p |-> actor[a].p, inits |-> actor[a].inits - 1, again |-> actor[a].again]
    BY <1>1, <2>0
  <2>3. r \in ActorRecord /\ r.at = "live"
    BY <1>1, <1>2, <2>2 DEF ActorRecord, Places
  <2> QED BY <2>1, <2>3
<1>3. CASE ~ (actor[a].inits > 0)
  <2>0. PICK r : r = [actor[a] EXCEPT !.at = "have", !.p = p]
    OBVIOUS
  <2>1. actor' = [actor EXCEPT ![a] = r]
    BY <1>3, <2>0 DEF Handed
  <2>2. r = [at |-> "have", p |-> p, inits |-> actor[a].inits, again |-> actor[a].again]
    BY <1>1, <2>0
  <2>3. r \in ActorRecord /\ r.at = "have" /\ r.p = p
    BY <1>1, <2>2 DEF ActorRecord, Places
  <2> QED BY <2>1, <2>3
<1> QED BY <1>2, <1>3

\* What a step of the supervisor that leaves the processes alone keeps.
LEMMA SupKept ==
  ASSUME PluginTypes
  PROVE  sup = [sup EXCEPT !.attempt = sup.attempt] /\ sup.attempt \in Nat /\ faults \in Nat
BY DEF PluginTypes

\* An actor takes the mutex of the supervisor.
LEMMA LockStep ==
  ASSUME PluginInv, NEW a \in Actors, Lock(a)
  PROVE  PluginInv'
<1> USE DEF PluginInv
<1>1. At(a, "live") /\ mu = "none" /\ policy.restart /\ a # "none"
      /\ UNCHANGED <<policy, procs, sup, taken, frontier, tried, persisted, canceled, faults, restarts>>
  BY DEF Lock, Engine, Actors
<1>2. CASE sup.closed /\ Goes(a, "error") /\ mu' = mu
  <2>1. PICK r \in ActorRecord : actor' = [actor EXCEPT ![a] = r] /\ r.at = "error"
    BY <1>2, GoesTo DEF Places
  <2>2. mu' # a /\ r.at \notin {"init", "have", "drop", "live", "backoff", "spawn"}
    BY <1>1, <1>2, <2>1
  <2> QED BY <1>1, <1>2, <2>1, <2>2, SupKept, QuietStep DEF PluginTypes
<1>3. CASE ~ sup.closed /\ Ready(sup.proc) /\ Handed(a, sup.proc) /\ mu' = mu
  <2>1. sup.proc \in 1..Len(procs) /\ procs[sup.proc].inited
    BY <1>3 DEF Ready, Up, Named, NoProc
  <2>2. PICK r \in ActorRecord : /\ actor' = [actor EXCEPT ![a] = r]
                                 /\ r.at = "live" \/ (r.at = "have" /\ r.p = sup.proc)
    BY <1>3, <2>1, HandedTo
  <2> QED BY <1>1, <1>3, <2>1, <2>2, SupKept, QuietStep DEF PluginTypes
<1>4. CASE ~ sup.closed /\ Up(sup.proc) /\ mu' = a /\ actor' = [actor EXCEPT ![a].at = "init", ![a].p = sup.proc]
  <2>1. sup.proc \in 1..Len(procs)
    BY <1>4 DEF Up, Named, NoProc
  <2>0. PICK r : r = [actor[a] EXCEPT !.at = "init", !.p = sup.proc]
    OBVIOUS
  <2>2. actor[a] \in [at : Places, p : Nat, inits : Nat, again : BOOLEAN] /\ sup.proc \in Nat
    BY PluginFields DEF ActorRecord
  <2>3. r = [at |-> "init", p |-> sup.proc, inits |-> actor[a].inits, again |-> actor[a].again]
    BY <2>0, <2>2
  <2>4. r \in ActorRecord /\ r.at = "init" /\ r.p = sup.proc
    BY <2>2, <2>3 DEF ActorRecord, Places
  <2>5. actor' = [actor EXCEPT ![a] = r]
    BY <1>4, <2>0 DEF PluginTypes
  <2> QED BY <1>1, <1>4, <2>1, <2>4, <2>5, SupKept, QuietStep DEF PluginTypes
<1>5. CASE ~ sup.closed /\ ~ Up(sup.proc) /\ mu' = a /\ Goes(a, "backoff")
  <2>1. PICK r \in ActorRecord : actor' = [actor EXCEPT ![a] = r] /\ r.at = "backoff"
    BY <1>5, GoesTo DEF Places
  <2> QED BY <1>1, <1>5, <2>1, SupKept, QuietStep DEF PluginTypes
<1>6. /\ sup.closed \in BOOLEAN
      /\ Ready(sup.proc) => Up(sup.proc)
  BY PluginFields DEF Ready
<1> QED BY <1>2, <1>3, <1>4, <1>5, <1>6 DEF Lock

\* The steps of live after the lock, short of a new process.
LEMMA WaitStep ==
  ASSUME PluginInv, NEW a \in Actors, Backoff(a) \/ CtxDone(a) \/ SpawnFails(a) \/ ReinitFails(a)
  PROVE  PluginInv'
<1> USE DEF PluginInv
<1>1. actor[a].at \in {"backoff", "spawn", "init"} /\ mu = a /\ a # "none"
  BY DEF Backoff, CtxDone, SpawnFails, ReinitFails, At, Held, Actors
<1>2. UNCHANGED <<policy, procs, taken, frontier, tried, persisted, canceled, restarts>>
  BY DEF Backoff, CtxDone, SpawnFails, ReinitFails, Engine
<1>3. faults' \in {faults, faults + 1}
  BY DEF Backoff, CtxDone, SpawnFails, ReinitFails, Faulty
<1>4. \E n \in Nat : sup' = [sup EXCEPT !.attempt = n]
  <2>1. CASE SpawnFails(a)
    <3>1. sup.attempt + 1 \in Nat
      BY PluginFields
    <3>2. sup' = [sup EXCEPT !.attempt = sup.attempt + 1]
      BY <2>1 DEF SpawnFails
    <3> QED BY <3>1, <3>2
  <2>2. CASE ~ SpawnFails(a)
    BY <2>2, SupKept DEF Backoff, CtxDone, ReinitFails
  <2> QED BY <2>1, <2>2
<1>5. PICK n \in Nat : sup' = [sup EXCEPT !.attempt = n]
  BY <1>4
<1>6. CASE Backoff(a)
  <2>1. PICK r \in ActorRecord : actor' = [actor EXCEPT ![a] = r] /\ r.at = "spawn"
    BY <1>6, GoesTo DEF Backoff, Places
  <2>2. mu' = mu /\ ~ Up(sup.proc) /\ policy.restart /\ ~ sup.closed
    BY <1>1, <1>6, PluginFields DEF Backoff, At, Held
  <2> QED BY <1>1, <1>2, <1>3, <1>5, <2>1, <2>2, QuietStep DEF PluginTypes
<1>7. CASE CtxDone(a) \/ SpawnFails(a) \/ ReinitFails(a)
  <2>1. PICK r \in ActorRecord : actor' = [actor EXCEPT ![a] = r] /\ r.at = "error"
    BY <1>7, GoesTo DEF CtxDone, SpawnFails, ReinitFails, Places
  <2>2. mu' = "none" /\ mu' # a
    BY <1>1, <1>7 DEF CtxDone, SpawnFails, ReinitFails
  <2>3. r.at \notin {"init", "have", "drop", "live", "backoff", "spawn"}
    BY <2>1
  <2> QED BY <1>1, <1>2, <1>3, <1>5, <2>1, <2>2, <2>3, QuietStep DEF PluginTypes
<1> QED BY <1>6, <1>7

\* An actor outside the mutex steps to a place outside it.
LEMMA PlainStep ==
  ASSUME PluginInv, NEW a \in Actors, actor[a].at \notin {"backoff", "spawn", "init"},
         NEW r \in ActorRecord, actor' = [actor EXCEPT ![a] = r],
         r.at \in {"idle", "live", "drop", "error", "close", "closed", "have"},
         r.at = "have" => r.p \in 1..Len(procs) /\ procs[r.p].inited,
         r.at = "drop" => r.p \in 1..Len(procs),
         r.at \in {"live", "drop"} => policy.restart,
         UNCHANGED <<policy, procs, sup, mu, taken, frontier, persisted, restarts>>,
         tried' \in {tried, frontier},
         faults' \in {faults, faults + 1}, canceled' \in BOOLEAN, canceled => canceled',
         r.at = "drop" /\ ~ canceled' /\ r.p = sup.proc => Doomed \/ faults' = faults + 1
  PROVE  PluginInv'
<1> USE DEF PluginInv
<1>1. mu # a /\ mu' # a
  BY DEF Held
<1>2. r.at \notin {"backoff", "spawn", "init"}
  OBVIOUS
<1>3. sup' = [sup EXCEPT !.attempt = sup.attempt] /\ sup.attempt \in Nat
  BY SupKept
<1> QED BY <1>1, <1>2, <1>3, QuietStep

\* The stream ends, or goes back to the supervisor.
LEMMA StreamQuiet ==
  ASSUME PluginInv, InitOnceFails \/ RefuseEvent \/ StreamBreaks \/ EndOfStream \/ NoProcess
  PROVE  PluginInv'
<1> USE DEF PluginInv
<1>1. /\ UNCHANGED <<policy, procs, sup, mu, taken, frontier, tried, persisted, restarts>>
      /\ faults' \in {faults, faults + 1} /\ "stream" \in Actors
      /\ actor["stream"].at \notin {"backoff", "spawn", "init"}
  BY DEF InitOnceFails, RefuseEvent, StreamBreaks, EndOfStream, NoProcess, Faulty, Engine, At, Actors
<1>2. ASSUME NEW how, Ends(how) PROVE PluginInv'
  <2>1. canceled' \in BOOLEAN /\ (canceled => canceled')
    BY <1>2 DEF Ends, PluginTypes
  <2>2. PICK r \in ActorRecord : actor' = [actor EXCEPT !["stream"] = r] /\ r.at = "close"
    BY <1>1, <1>2, GoesTo DEF Ends, Places
  <2> QED BY <1>1, <2>1, <2>2, PlainStep
<1>3. CASE InitOnceFails
  <2>1. PICK r \in ActorRecord : actor' = [actor EXCEPT !["stream"] = r] /\ r.at = "error"
    BY <1>1, <1>3, GoesTo DEF InitOnceFails, Places
  <2>2. canceled' = canceled /\ canceled \in BOOLEAN
    BY <1>3 DEF InitOnceFails, Engine, PluginTypes
  <2> QED BY <1>1, <2>1, <2>2, PlainStep
<1>4. CASE RefuseEvent \/ StreamBreaks
  <2>1. actor["stream"].at = "have"
    BY <1>4 DEF RefuseEvent, StreamBreaks, At
  <2>2. CASE policy.restart /\ ~ canceled /\ Goes("stream", "drop") /\ UNCHANGED canceled
    <3>1. PICK r \in ActorRecord : actor' = [actor EXCEPT !["stream"] = r] /\ r.at = "drop" /\ r.p = actor["stream"].p
      BY <1>1, <2>2, GoesTo DEF Places
    <3>2. r.p \in 1..Len(procs)
      BY <1>1, <2>1, <3>1 DEF Named
    <3>3. r.p = sup.proc => Doomed \/ faults' = faults + 1
      <4>1. CASE RefuseEvent
        BY <4>1 DEF RefuseEvent, Faulty
      <4>2. CASE StreamBreaks
        BY <2>2, <3>1, <4>2 DEF StreamBreaks, Reader, Answers, Doomed
      <4> QED BY <1>4, <4>1, <4>2
    <3>4. canceled' = canceled /\ canceled \in BOOLEAN
      BY <2>2 DEF PluginTypes
    <3> QED BY <1>1, <2>2, <3>1, <3>2, <3>3, <3>4, PlainStep
  <2> QED BY <1>2, <1>4, <2>2 DEF RefuseEvent, StreamBreaks, Broken
<1>5. CASE NoProcess
  <2>1. CASE policy.restart /\ actor' = [actor EXCEPT !["stream"].at = "live", !["stream"].inits = 1] /\ UNCHANGED canceled
    <3>1. actor["stream"] \in [at : Places, p : Nat, inits : Nat, again : BOOLEAN]
      BY <1>1, PluginFields DEF ActorRecord
    <3>2. PICK r : r = [actor["stream"] EXCEPT !.at = "live", !.inits = 1]
      OBVIOUS
    <3>3. r = [at |-> "live", p |-> actor["stream"].p, inits |-> 1, again |-> actor["stream"].again]
      BY <3>1, <3>2
    <3>4. r \in ActorRecord /\ r.at = "live"
      BY <3>1, <3>3 DEF ActorRecord, Places
    <3>5. actor' = [actor EXCEPT !["stream"] = r]
      BY <1>1, <2>1, <3>2 DEF PluginTypes
    <3>6. canceled' = canceled /\ canceled \in BOOLEAN
      BY <2>1 DEF PluginTypes
    <3>7. r.at # "have" /\ r.at # "drop"
      BY <3>4
    <3>8. r.at \in {"idle", "live", "drop", "error", "close", "closed", "have"}
      BY <3>4
    <3>9. policy.restart
      BY <2>1
    <3> QED BY <1>1, <3>4, <3>5, <3>6, <3>7, <3>8, <3>9, PlainStep
  <2> QED BY <1>2, <1>5, <2>1 DEF NoProcess
<1> QED BY <1>2, <1>3, <1>4, <1>5 DEF EndOfStream

\* A call breaks, is refused, fails or is the last one.
LEMMA CallQuiet ==
  ASSUME PluginInv, CallBreaks \/ CallRefused \/ CallFails \/ CloseSink
  PROVE  PluginInv'
<1> USE DEF PluginInv
<1>1. /\ UNCHANGED <<policy, procs, sup, mu, taken, frontier, tried, persisted, canceled, restarts>>
      /\ faults' \in {faults, faults + 1} /\ "call" \in Actors /\ canceled \in BOOLEAN
      /\ actor["call"].at \notin {"backoff", "spawn", "init"}
  BY DEF CallBreaks, CallRefused, CallFails, CloseSink, Faulty, Engine, At, Actors, PluginTypes
<1>2. CASE Returns
  <2>1. PICK r \in ActorRecord : actor' = [actor EXCEPT !["call"] = r] /\ r.at = "idle"
    BY <1>2, ReturnsTo
  <2> QED BY <1>1, <2>1, PlainStep
<1>3. CASE CloseSink
  <2>1. PICK r \in ActorRecord : actor' = [actor EXCEPT !["call"] = r] /\ r.at = "close"
    BY <1>1, <1>3, GoesTo DEF CloseSink, Places
  <2> QED BY <1>1, <2>1, PlainStep
<1>4. CASE CallBreaks /\ policy.restart /\ Goes("call", "drop")
  <2>1. PICK r \in ActorRecord : actor' = [actor EXCEPT !["call"] = r] /\ r.at = "drop" /\ r.p = actor["call"].p
    BY <1>1, <1>4, GoesTo DEF Places
  <2>2. actor["call"].at = "have"
    BY <1>4 DEF CallBreaks, At
  <2>3. r.p \in 1..Len(procs)
    BY <1>1, <2>1, <2>2 DEF Named
  <2>4. r.p = sup.proc /\ ~ canceled => Doomed
    BY <1>4, <2>1 DEF CallBreaks, Answers, Doomed
  <2> QED BY <1>1, <1>4, <2>1, <2>3, <2>4, PlainStep
<1> QED BY <1>2, <1>3, <1>4 DEF CallBreaks, CallRefused, CallFails

\* A new process is started, or is not.
LEMMA RespawnStep ==
  ASSUME PluginInv, NEW a \in Actors, Respawn(a)
  PROVE  PluginInv'
<1> USE DEF PluginInv
<1> DEFINE n == Len(procs) + 1
<1>1. /\ actor[a].at = "spawn" /\ mu = a /\ ~ Up(sup.proc) /\ policy.restart /\ ~ sup.closed /\ a # "none"
      /\ UNCHANGED <<policy, mu, over, taken, frontier, tried, persisted, flushed, canceled, faults>>
      /\ restarts' = restarts + 1
  BY PluginFields DEF Respawn, At, Held, Engine, Actors
<1>2. Process \in ProcessRecord /\ Process.up = TRUE /\ Process.broken = FALSE /\ Process.next = 1
  BY DEF Process, ProcessRecord
<1>3. procs' = Append(procs, Process) /\ procs \in Seq(ProcessRecord)
  BY DEF Respawn, PluginTypes
<1>4. /\ procs' \in Seq(ProcessRecord) /\ Len(procs') = n /\ procs'[n] = Process
      /\ \A p \in 1..Len(procs) : procs'[p] = procs[p]
  BY <1>2, <1>3
<1>5. Len(procs) \in Nat /\ n \in Nat /\ n > 0 /\ 1..n = (1..Len(procs)) \cup {n} /\ n \notin 1..Len(procs) /\ n # 0 /\ n \in 1..n
  BY PluginFields
<1>6. /\ sup' \in [proc : Nat, inited : Nat, state : Nat, attempt : Nat, closed : BOOLEAN]
      /\ sup'.proc = n /\ sup'.inited = NoProc /\ sup'.state = sup.state /\ sup'.closed = sup.closed
  <2>1. PICK k \in Nat : sup' = [sup EXCEPT !.proc = n, !.inited = NoProc, !.attempt = k]
    <3>1. (1 + IF since >= Cap THEN 0 ELSE sup.attempt) \in Nat
      BY PluginFields
    <3>2. sup' = [sup EXCEPT !.proc = n, !.inited = NoProc, !.attempt = 1 + IF since >= Cap THEN 0 ELSE sup.attempt]
      BY <1>4 DEF Respawn
    <3> QED BY <3>1, <3>2
  <2>2. sup \in [proc : Nat, inited : Nat, state : Nat, attempt : Nat, closed : BOOLEAN]
    BY DEF PluginTypes
  <2>3. sup' = [proc |-> n, inited |-> NoProc, state |-> sup.state, attempt |-> k, closed |-> sup.closed]
    BY <2>1, <2>2
  <2> QED BY <1>5, <2>2, <2>3 DEF NoProc
<1> HIDE DEF n
<1>7. PICK r : r = [actor[a] EXCEPT !.at = "init", !.p = n]
  OBVIOUS
<1>8. actor' = [actor EXCEPT ![a] = r]
  BY <1>4, <1>7 DEF Respawn, PluginTypes
<1>9. r \in ActorRecord /\ r.at = "init" /\ r.p = n
  <2>1. actor[a] \in [at : Places, p : Nat, inits : Nat, again : BOOLEAN]
    BY PluginFields DEF ActorRecord
  <2>2. r = [at |-> "init", p |-> n, inits |-> actor[a].inits, again |-> actor[a].again]
    BY <1>7, <2>1
  <2> QED BY <1>5, <2>1, <2>2 DEF ActorRecord, Places
<1>10. actor' \in [Actors -> ActorRecord] /\ actor'[a] = r /\ \A b \in Actors : b # a => actor'[b] = actor[b]
  BY <1>8, <1>9 DEF PluginTypes
<1>11. PluginTypes'
  <2>1. 1 \in 1..Len(procs')
    BY <1>4, <1>5
  <2>2. restarts' \in Nat
    BY <1>1 DEF PluginTypes
  <2> QED BY <1>1, <1>4, <1>6, <1>10, <2>1, <2>2 DEF PluginTypes
<1>12. Named'
  <2>1. sup'.proc \in 0..Len(procs')
    BY <1>4, <1>5, <1>6
  <2> QED BY <1>4, <1>5, <1>6, <1>9, <1>10, <2>1 DEF Named
<1>13. Held'
  <2>1. \A b \in Actors : b # a => actor'[b].at \notin {"backoff", "spawn", "init"} /\ mu' # b
    BY <1>1, <1>10 DEF Held
  <2>2. \A b \in Actors : actor'[b].at \in {"live", "backoff", "spawn", "init", "drop"} => policy'.restart
    BY <1>1
  <2> QED BY <1>1, <1>6, <1>9, <1>10, <2>1, <2>2 DEF Held
<1>14. OneProcess'
  BY <1>1 DEF OneProcess
<1>15. Due'
  <2>1. ~ canceled => restarts + 1 <= faults
    BY <1>1 DEF Due, Doomed
  <2>2. ~ Doomed'
    <3>1. \A b \in Actors : ~ (actor'[b].at = "drop" /\ actor'[b].p = n)
      BY <1>5, <1>9, <1>10 DEF Named
    <3> QED BY <1>2, <1>4, <1>5, <1>6, <3>1 DEF Doomed, Up, NoProc
  <2> QED BY <1>1, <2>1, <2>2 DEF Due
<1>16. Behind'
  <2>1. 1..(Process.next - 1) = {}
    BY <1>2
  <2> QED BY <1>1, <1>4, <1>5, <1>6, <2>1 DEF Behind
<1>17. ConfiguredBeforeUse'
  BY <1>4, <1>9, <1>10 DEF ConfiguredBeforeUse, At, Named
<1>18. Supervised'
  <2>1. \A p \in 1..Len(procs) : ~ procs[p].up
    BY <1>1, <1>5, PluginFields DEF Supervised, Up, NoProc
  <2>2. DOMAIN procs' = 1..n
    BY <1>4
  <2> QED BY <1>4, <1>5, <1>6, <2>1, <2>2 DEF Supervised
<1> QED BY <1>11, <1>12, <1>13, <1>14, <1>15, <1>16, <1>17, <1>18

\* The processes change in place and the supervisor may let go of its process; what is
\* accepted, its frontier and the bounds on restarts are as they were.
LEMMA InPlace ==
  ASSUME PluginInv, procs' \in Seq(ProcessRecord), Len(procs') = Len(procs),
         \A p \in 1..Len(procs) : /\ procs[p].inited => procs'[p].inited
                                  /\ procs'[p].up => procs[p].up
                                  /\ procs'[p].next = 1 \/ procs'[p].next = procs[p].next \/ procs'[p].next = sup.state + 1,
         sup' \in [proc : Nat, inited : Nat, state : Nat, attempt : Nat, closed : BOOLEAN],
         sup'.proc \in {sup.proc, NoProc}, sup'.state = sup.state,
         sup'.inited = sup.inited \/ (sup'.inited \in 1..Len(procs) /\ procs'[sup'.inited].inited),
         sup'.proc # sup.proc => \A p \in 1..Len(procs) : ~ procs'[p].up,
         UNCHANGED <<policy, taken, frontier, persisted>>,
         tried' \in {tried, frontier}
  PROVE  /\ Behind'
         /\ sup'.proc \in 0..Len(procs')
         /\ sup'.inited # NoProc => sup'.inited \in 1..Len(procs') /\ procs'[sup'.inited].inited
         /\ ~ Up(sup.proc) => ~ Up(sup.proc)'
         /\ Supervised'
         /\ restarts' = restarts => OneProcess'
<1> USE DEF PluginInv
<1>1. Behind'
  <2>1. \A p \in 1..Len(procs) : policy.kind = "source" => 1..(procs'[p].next - 1) \subseteq taken
    <3> SUFFICES ASSUME NEW p \in 1..Len(procs), policy.kind = "source" PROVE 1..(procs'[p].next - 1) \subseteq taken
      OBVIOUS
    <3>1. CASE procs'[p].next = 1
      BY <3>1
    <3>2. CASE procs'[p].next = procs[p].next
      BY <3>2 DEF Behind
    <3>3. CASE procs'[p].next = sup.state + 1
      <4>1. procs'[p].next - 1 = sup.state
        BY <3>3, PluginFields
      <4> QED BY <4>1 DEF Behind
    <3> QED BY <3>1, <3>2, <3>3
  <2>2. policy.kind = "source" => 1..tried' \subseteq taken
    BY DEF Behind
  <2> QED BY <2>1, <2>2 DEF Behind
<1>2. sup'.proc \in 0..Len(procs')
  BY PluginFields DEF Named, NoProc
<1>3. sup'.inited # NoProc => sup'.inited \in 1..Len(procs') /\ procs'[sup'.inited].inited
  BY DEF Named
<1>4. ~ Up(sup.proc) => ~ Up(sup.proc)'
  BY DEF Up, Named, NoProc
<1>5. Supervised'
  <2>1. DOMAIN procs' = 1..Len(procs) /\ DOMAIN procs = 1..Len(procs)
    BY PluginFields
  <2> QED BY <2>1 DEF Supervised
<1>6. restarts' = restarts => OneProcess'
  <2>1. 1 \in 1..Len(procs)
    BY DEF PluginTypes
  <2> QED BY <2>1 DEF OneProcess
<1> QED BY <1>1, <1>2, <1>3, <1>4, <1>5, <1>6

\* A step that changes processes in place and moves one actor.
LEMMA ProcessStep ==
  ASSUME PluginInv, procs' \in Seq(ProcessRecord), Len(procs') = Len(procs),
         \A p \in 1..Len(procs) : /\ procs[p].inited => procs'[p].inited
                                  /\ procs'[p].up => procs[p].up
                                  /\ procs'[p].next = 1 \/ procs'[p].next = procs[p].next \/ procs'[p].next = sup.state + 1,
         sup' \in [proc : Nat, inited : Nat, state : Nat, attempt : Nat, closed : BOOLEAN],
         sup'.proc \in {sup.proc, NoProc}, sup'.state = sup.state,
         sup'.inited = sup.inited \/ (sup'.inited \in 1..Len(procs) /\ procs'[sup'.inited].inited),
         sup'.proc # sup.proc => \A p \in 1..Len(procs) : ~ procs'[p].up,
         policy.restart /\ sup.closed => sup'.closed, sup'.closed => mu' = "none",
         UNCHANGED <<policy, taken, frontier, persisted, canceled, restarts>>,
         tried' \in {tried, frontier}, faults' \in {faults, faults + 1},
         NEW a \in Actors, NEW r \in ActorRecord, actor' = [actor EXCEPT ![a] = r],
         mu' = mu \/ (mu = a /\ mu' = "none"), r.at \in {"backoff", "spawn", "init"} <=> mu' = a,
         r.at \in {"init", "have", "drop"} => r.p \in 1..Len(procs),
         r.at \in {"live", "backoff", "spawn", "init", "drop"} => policy.restart,
         r.at \in {"backoff", "spawn"} => ~ Up(sup.proc),
         r.at = "have" => procs'[r.p].inited,
         ~ canceled /\ policy.restart /\ ~ sup'.closed /\ Doomed' => Doomed \/ faults' = faults + 1
  PROVE  PluginInv'
<1> USE DEF PluginInv
<1>0. PluginTypes /\ Named /\ Held /\ Due /\ ConfiguredBeforeUse
  OBVIOUS
<1>1. Behind' /\ Supervised' /\ OneProcess' /\ (~ Up(sup.proc) => ~ Up(sup.proc)')
      /\ sup'.proc \in 0..Len(procs')
      /\ (sup'.inited # NoProc => sup'.inited \in 1..Len(procs') /\ procs'[sup'.inited].inited)
  BY InPlace
<1>2. actor' \in [Actors -> ActorRecord] /\ actor'[a] = r /\ \A b \in Actors : b # a => actor'[b] = actor[b]
  BY DEF PluginTypes
<1>3. PluginTypes'
  <2>1. mu' \in Actors \cup {"none"} /\ tried' \in Nat /\ faults' \in Nat
    BY DEF PluginTypes
  <2>2. 1 \in 1..Len(procs')
    BY DEF PluginTypes
  <2> QED BY <1>0, <1>2, <2>1, <2>2 DEF PluginTypes
<1>4. Named'
  BY <1>0, <1>1, <1>2 DEF Named
<1>5. Held'
  <2>1. \A b \in Actors : actor'[b].at \in {"backoff", "spawn", "init"} <=> mu' = b
    <3> SUFFICES ASSUME NEW b \in Actors, b # a PROVE actor'[b].at \in {"backoff", "spawn", "init"} <=> mu' = b
      BY <1>2
    <3>1. b # "none" /\ actor'[b] = actor[b]
      BY <1>2 DEF Actors
    <3>2. mu' = b <=> mu = b
      BY <3>1
    <3> QED BY <3>1, <3>2 DEF Held
  <2>2. \A b \in Actors : actor'[b].at \in {"live", "backoff", "spawn", "init", "drop"} => policy'.restart
    BY <1>0, <1>2 DEF Held
  <2>3. \A b \in Actors : actor'[b].at \in {"backoff", "spawn"} => ~ Up(sup.proc)'
    BY <1>0, <1>1, <1>2 DEF Held
  <2> QED BY <2>1, <2>2, <2>3 DEF Held
<1>6. Due'
  <2>1. faults' >= faults /\ restarts \in Nat /\ faults \in Nat /\ sup.closed \in BOOLEAN /\ sup'.closed \in BOOLEAN
    BY PluginFields DEF PluginTypes
  <2> QED BY <1>0, <2>1 DEF Due
<1>7. ConfiguredBeforeUse'
  <2> SUFFICES ASSUME NEW b \in Actors, actor'[b].at = "have" PROVE procs'[actor'[b].p].inited
    BY DEF ConfiguredBeforeUse, At
  <2>1. CASE b = a
    BY <1>2, <2>1
  <2>2. CASE b # a
    <3>1. actor[b].at = "have" /\ actor'[b].p = actor[b].p
      BY <1>2, <2>2
    <3>2. actor[b].p \in 1..Len(procs) /\ procs[actor[b].p].inited
      BY <1>0, <3>1 DEF Named, ConfiguredBeforeUse, At
    <3> QED BY <3>1, <3>2
  <2> QED BY <2>1, <2>2
<1> QED BY <1>1, <1>3, <1>4, <1>5, <1>6, <1>7

\* The new process is given the state it resumes from, or fails.
LEMMA ReinitStep ==
  ASSUME PluginInv, NEW a \in Actors, Reinit(a)
  PROVE  PluginInv'
<1> USE DEF PluginInv
<1>1. PICK p : p = actor[a].p
  OBVIOUS
<1>2. /\ actor[a].at = "init" /\ mu = a /\ p \in 1..Len(procs) /\ policy.restart /\ a # "none"
      /\ UNCHANGED <<policy, taken, frontier, tried, persisted, canceled, faults, restarts>>
      /\ mu' = "none" /\ Handed(a, p)
  BY <1>1 DEF Reinit, At, Held, Named, Engine, Actors
<1>3. PICK q : q = [procs[p] EXCEPT !.inited = TRUE, !.next = sup.state + 1]
  OBVIOUS
<1>4. procs[p] \in [up : BOOLEAN, broken : BOOLEAN, inited : BOOLEAN, next : Nat \ {0}] /\ sup.state \in Nat
  BY <1>2, PluginFields DEF ProcessRecord
<1>5. q = [up |-> procs[p].up, broken |-> procs[p].broken, inited |-> TRUE, next |-> sup.state + 1]
  BY <1>3, <1>4
<1>6. q \in ProcessRecord /\ q.up = procs[p].up /\ q.broken = procs[p].broken /\ q.inited = TRUE /\ q.next = sup.state + 1
  BY <1>4, <1>5 DEF ProcessRecord
<1>7. procs' = [procs EXCEPT ![p] = q]
  BY <1>1, <1>2, <1>3, PluginFields DEF Reinit
<1>8. procs' \in Seq(ProcessRecord) /\ Len(procs') = Len(procs) /\ procs'[p] = q
      /\ \A k \in 1..Len(procs) : k # p => procs'[k] = procs[k]
  BY <1>2, <1>6, <1>7, ProcessSet
<1>9. sup' \in [proc : Nat, inited : Nat, state : Nat, attempt : Nat, closed : BOOLEAN] /\ sup'.proc = sup.proc
      /\ sup'.inited = p /\ sup'.state = sup.state /\ sup'.closed = sup.closed
  BY <1>1, <1>2 DEF Reinit, PluginTypes
<1>10. PICK r \in ActorRecord : actor' = [actor EXCEPT ![a] = r] /\ (r.at = "live" \/ (r.at = "have" /\ r.p = p))
  BY <1>2, HandedTo
<1>11. Doomed' => Doomed
  <2>1. actor'[a] = r /\ \A b \in Actors : b # a => actor'[b] = actor[b]
    BY <1>10 DEF PluginTypes
  <2>2. sup.proc \in 1..Len(procs) => procs'[sup.proc].up = procs[sup.proc].up /\ procs'[sup.proc].broken = procs[sup.proc].broken
    BY <1>6, <1>8
  <2>3. Up(sup.proc)' = Up(sup.proc)
    BY <1>9, <2>2, PluginFields DEF Up, Named, NoProc
  <2>4. Up(sup.proc) => sup.proc \in 1..Len(procs)
    BY DEF Up, Named, NoProc
  <2> QED BY <1>9, <1>10, <2>1, <2>2, <2>3, <2>4 DEF Doomed
<1>12. /\ r.at \notin {"init", "backoff", "spawn", "drop"} /\ mu' # a
       /\ r.at = "have" => r.p \in 1..Len(procs) /\ procs'[r.p].inited
  BY <1>2, <1>6, <1>8, <1>10
<1>13. \A k \in 1..Len(procs) : /\ procs[k].inited => procs'[k].inited
                                /\ procs'[k].up => procs[k].up
                                /\ procs'[k].next = 1 \/ procs'[k].next = procs[k].next \/ procs'[k].next = sup.state + 1
  BY <1>6, <1>8
<1> QED BY <1>2, <1>6, <1>8, <1>9, <1>10, <1>11, <1>12, <1>13, ProcessStep

\* The process a call failed on is dropped.
LEMMA DropStep ==
  ASSUME PluginInv, NEW a \in Actors, drop(a)
  PROVE  PluginInv'
<1> USE DEF PluginInv
<1>1. PICK p : p = actor[a].p
  OBVIOUS
<1>2. /\ actor[a].at = "drop" /\ mu = "none" /\ p \in 1..Len(procs) /\ policy.restart /\ a # "none"
      /\ UNCHANGED <<policy, mu, taken, frontier, tried, persisted, canceled, faults, restarts>>
  BY <1>1 DEF drop, At, Held, Named, Engine, Actors
<1>3. Killed(p) \in ProcessRecord /\ Killed(p).up = FALSE /\ Killed(p).broken = FALSE /\ Killed(p).inited = procs[p].inited
      /\ Killed(p).next = 1
  BY <1>2, KilledFields
<1>4. PICK k \in ProcessRecord : k = Killed(p)
  BY <1>3
<1>5. procs' = [procs EXCEPT ![p] = k]
  BY <1>1, <1>4 DEF drop
<1>6. procs' \in Seq(ProcessRecord) /\ Len(procs') = Len(procs) /\ procs'[p] = k
      /\ \A q \in 1..Len(procs) : q # p => procs'[q] = procs[q]
  BY <1>2, <1>4, <1>5, ProcessSet
<1>7. sup' \in [proc : Nat, inited : Nat, state : Nat, attempt : Nat, closed : BOOLEAN]
      /\ sup'.proc = (IF sup.proc = p THEN NoProc ELSE sup.proc)
      /\ sup'.inited = sup.inited /\ sup'.state = sup.state /\ sup'.closed = sup.closed
  <2>1. sup' = [sup EXCEPT !.proc = IF sup.proc = p THEN NoProc ELSE sup.proc]
    BY <1>1 DEF drop
  <2> QED BY <2>1 DEF PluginTypes, NoProc
<1>8. PICK r : r = [actor[a] EXCEPT !.at = "live", !.again = TRUE]
  OBVIOUS
<1>9. r \in ActorRecord /\ r.at = "live" /\ actor' = [actor EXCEPT ![a] = r]
  <2>1. actor[a] \in [at : Places, p : Nat, inits : Nat, again : BOOLEAN]
    BY PluginFields DEF ActorRecord
  <2>2. r = [at |-> "live", p |-> actor[a].p, inits |-> actor[a].inits, again |-> TRUE]
    BY <1>8, <2>1
  <2>3. r \in ActorRecord /\ r.at = "live"
    BY <2>1, <2>2 DEF ActorRecord, Places
  <2> QED BY <1>8, <2>3 DEF drop, PluginTypes
<1>10. Doomed' => Doomed
  <2>1. CASE sup.proc = p
    BY <1>1, <1>2, <2>1 DEF Doomed
  <2>2. CASE sup.proc # p
    <3>1. sup'.proc = sup.proc
      BY <1>7, <2>2
    <3>2. actor'[a] = r /\ \A b \in Actors : b # a => actor'[b] = actor[b]
      BY <1>9 DEF PluginTypes
    <3>3. sup.proc \in 1..Len(procs) => procs'[sup.proc] = procs[sup.proc]
      BY <1>6, <2>2
    <3>4. sup.proc \in 1..Len(procs) \/ sup.proc = NoProc
      BY DEF Named, NoProc
    <3> QED BY <1>9, <3>1, <3>2, <3>3, <3>4 DEF Doomed, Up
  <2> QED BY <2>1, <2>2
<1>11. \A q \in 1..Len(procs) : /\ procs[q].inited => procs'[q].inited
                                /\ procs'[q].up => procs[q].up
                                /\ procs'[q].next = 1 \/ procs'[q].next = procs[q].next \/ procs'[q].next = sup.state + 1
  BY <1>3, <1>4, <1>6
<1>12. sup'.proc # sup.proc => \A q \in 1..Len(procs) : ~ procs'[q].up
  BY <1>2, <1>3, <1>4, <1>6, <1>7, PluginFields DEF Supervised
<1>13. r.at \notin {"init", "backoff", "spawn", "drop", "have"} /\ mu' # a /\ mu' = "none"
  BY <1>2, <1>9
<1>14. sup'.proc \in {sup.proc, NoProc}
  BY <1>7
<1> QED BY <1>2, <1>6, <1>7, <1>9, <1>10, <1>11, <1>12, <1>13, <1>14, ProcessStep

\* Close ends the current process.
LEMMA CloseStep ==
  ASSUME PluginInv, NEW a \in Actors, Close(a)
  PROVE  PluginInv'
<1> USE DEF PluginInv
<1>2. /\ actor[a].at = "close" /\ mu = "none" /\ a # "none"
      /\ UNCHANGED <<policy, mu, taken, frontier, tried, persisted, canceled, faults, restarts>>
  BY DEF Close, At, Engine, Actors
<1>3. \A p \in 1..Len(procs) : /\ procs'[p] = IF p = sup.proc THEN Killed(p) ELSE procs[p]
                               /\ Killed(p) \in ProcessRecord /\ Killed(p).up = FALSE
                               /\ Killed(p).inited = procs[p].inited /\ Killed(p).next = 1
  BY PluginFields, KilledFields DEF Close
<1>4. procs' \in Seq(ProcessRecord) /\ Len(procs') = Len(procs)
  <2>1. procs' = [p \in DOMAIN procs |-> procs'[p]]
    BY DEF Close
  <2>2. \A p \in 1..Len(procs) : procs'[p] \in ProcessRecord
    BY <1>3, PluginFields
  <2> QED BY <2>1, <2>2, ProcessesSet
<1>5. sup' \in [proc : Nat, inited : Nat, state : Nat, attempt : Nat, closed : BOOLEAN]
      /\ sup'.proc = (IF policy.restart THEN NoProc ELSE sup.proc)
      /\ sup'.inited = sup.inited /\ sup'.state = sup.state /\ sup'.closed = policy.restart
  <2>1. sup' = [sup EXCEPT !.closed = policy.restart, !.proc = IF policy.restart THEN NoProc ELSE sup.proc]
    BY DEF Close
  <2>2. sup \in [proc : Nat, inited : Nat, state : Nat, attempt : Nat, closed : BOOLEAN] /\ policy.restart \in BOOLEAN
    BY PluginFields DEF PluginTypes
  <2>3. sup' = [proc |-> IF policy.restart THEN NoProc ELSE sup.proc, inited |-> sup.inited, state |-> sup.state,
                attempt |-> sup.attempt, closed |-> policy.restart]
    BY <2>1, <2>2
  <2> QED BY <2>2, <2>3 DEF NoProc
<1>6. PICK r \in ActorRecord : actor' = [actor EXCEPT ![a] = r] /\ r.at = "closed"
  BY GoesTo DEF Close, Places
<1>7. \A q \in 1..Len(procs) : /\ procs[q].inited => procs'[q].inited
                               /\ procs'[q].up => procs[q].up
                               /\ procs'[q].next = 1 \/ procs'[q].next = procs[q].next \/ procs'[q].next = sup.state + 1
  BY <1>3
<1>8. sup'.proc # sup.proc => \A q \in 1..Len(procs) : ~ procs'[q].up
  BY <1>3, <1>5, PluginFields DEF Supervised
<1>9. r.at \notin {"init", "backoff", "spawn", "drop", "have", "live"} /\ mu' # a /\ mu' = "none"
  BY <1>2, <1>6
<1>10. sup'.proc \in {sup.proc, NoProc} /\ (policy.restart => sup'.closed)
  BY <1>5
<1> QED BY <1>2, <1>4, <1>5, <1>6, <1>7, <1>8, <1>9, <1>10, ProcessStep

\* A step that changes one process in place and moves no actor.
LEMMA OutsideStep ==
  ASSUME PluginInv, Crash \/ Wedge
  PROVE  PluginInv'
<1> USE DEF PluginInv
<1>1. PICK p \in DOMAIN procs :
        /\ Up(p) /\ faults' = faults + 1
        /\ procs' = [procs EXCEPT ![p] = Killed(p)] \/ procs' = [procs EXCEPT ![p].broken = TRUE]
        /\ UNCHANGED <<policy, sup, mu, actor, taken, frontier, tried, persisted, canceled, restarts>>
  BY DEF Crash, Wedge, Faulty, Answers, Engine
<1>2. p \in 1..Len(procs) /\ procs[p].up
  BY <1>1, PluginFields DEF Up
<1>3. PICK k \in ProcessRecord : /\ procs' = [procs EXCEPT ![p] = k] /\ k.inited = procs[p].inited
                                 /\ k.next = 1 \/ k.next = procs[p].next
  <2>1. CASE procs' = [procs EXCEPT ![p] = Killed(p)]
    BY <1>2, <2>1, KilledFields
  <2>2. CASE procs' = [procs EXCEPT ![p].broken = TRUE]
    <3>1. procs[p] \in [up : BOOLEAN, broken : BOOLEAN, inited : BOOLEAN, next : Nat \ {0}]
      BY <1>2, PluginFields DEF ProcessRecord
    <3>2. PICK q : q = [procs[p] EXCEPT !.broken = TRUE]
      OBVIOUS
    <3>3. q \in ProcessRecord /\ q.inited = procs[p].inited /\ q.next = procs[p].next
      BY <3>1, <3>2 DEF ProcessRecord
    <3>4. procs' = [procs EXCEPT ![p] = q]
      BY <2>2, <3>2
    <3> QED BY <3>3, <3>4
  <2> QED BY <1>1, <2>1, <2>2
<1>4. procs' \in Seq(ProcessRecord) /\ Len(procs') = Len(procs) /\ procs'[p] = k
      /\ \A q \in 1..Len(procs) : q # p => procs'[q] = procs[q]
  BY <1>2, <1>3, ProcessSet
<1>5. \A q \in 1..Len(procs) : /\ procs[q].inited => procs'[q].inited
                               /\ procs'[q].up => procs[q].up
                               /\ procs'[q].next = 1 \/ procs'[q].next = procs[q].next \/ procs'[q].next = sup.state + 1
  BY <1>2, <1>3, <1>4
<1>6. PICK r \in ActorRecord : r = actor["stream"]
  BY DEF PluginTypes, Actors
<1>7. "stream" \in Actors /\ actor' = [actor EXCEPT !["stream"] = r]
  BY <1>1, <1>6 DEF PluginTypes, Actors
<1>8. /\ r.at \in {"init", "have", "drop"} => r.p \in 1..Len(procs)
      /\ r.at \in {"live", "backoff", "spawn", "init", "drop"} => policy.restart
      /\ r.at \in {"backoff", "spawn"} => ~ Up(sup.proc)
      /\ r.at \in {"backoff", "spawn", "init"} <=> mu = "stream"
  BY <1>6, <1>7 DEF Named, Held
<1>9. r.at = "have" => procs'[r.p].inited
  <2>1. r.at = "have" => procs[r.p].inited
    BY <1>6, <1>7 DEF ConfiguredBeforeUse, At
  <2> QED BY <1>5, <1>8, <2>1
<1>10. sup' \in [proc : Nat, inited : Nat, state : Nat, attempt : Nat, closed : BOOLEAN]
       /\ sup'.proc = sup.proc /\ (sup'.closed => mu' = "none") /\ sup'.state = sup.state /\ sup'.inited = sup.inited
       /\ sup'.closed = sup.closed
  BY <1>1 DEF PluginTypes, Held
<1>11. UNCHANGED <<policy, taken, frontier, tried, persisted, canceled, restarts, mu>> /\ faults' = faults + 1
  BY <1>1
<1> QED BY <1>4, <1>5, <1>7, <1>8, <1>9, <1>10, <1>11, ProcessStep

\* The stream begins.
LEMMA StartStep ==
  ASSUME PluginInv, StreamStart
  PROVE  PluginInv'
<1> USE DEF PluginInv
<1>1. /\ UNCHANGED <<policy, sup, mu, taken, frontier, tried, persisted, canceled, faults, restarts>>
      /\ "stream" \in Actors /\ actor["stream"].at = "idle" /\ canceled \in BOOLEAN
  BY DEF StreamStart, Engine, At, Actors, PluginTypes
<1>2. CASE policy.restart /\ Goes("stream", "live") /\ procs' = procs
  <2>1. PICK r \in ActorRecord : actor' = [actor EXCEPT !["stream"] = r] /\ r.at = "live"
    BY <1>1, <1>2, GoesTo DEF Places
  <2>2. r.at # "have" /\ r.at # "drop" /\ r.at \in {"idle", "live", "drop", "error", "close", "closed", "have"}
    BY <2>1
  <2> QED BY <1>1, <1>2, <2>1, <2>2, PlainStep
<1>3. CASE ~ policy.restart /\ Goes("stream", "error") /\ procs' = procs
  <2>1. PICK r \in ActorRecord : actor' = [actor EXCEPT !["stream"] = r] /\ r.at = "error"
    BY <1>1, <1>3, GoesTo DEF Places
  <2>2. r.at # "have" /\ r.at # "drop" /\ r.at \in {"idle", "live", "drop", "error", "close", "closed", "have"}
    BY <2>1
  <2> QED BY <1>1, <1>3, <2>1, <2>2, PlainStep
<1>4. CASE /\ ~ policy.restart
           /\ procs' = [procs EXCEPT ![1].inited = TRUE, ![1].next = sup.state + 1]
           /\ actor' = [actor EXCEPT !["stream"].at = "have", !["stream"].p = 1]
  <2>1. PICK q : q = [procs[1] EXCEPT !.inited = TRUE, !.next = sup.state + 1]
    OBVIOUS
  <2>2. procs[1] \in [up : BOOLEAN, broken : BOOLEAN, inited : BOOLEAN, next : Nat \ {0}] /\ sup.state \in Nat /\ 1 \in 1..Len(procs)
    BY PluginFields DEF ProcessRecord, PluginTypes
  <2>3. q = [up |-> procs[1].up, broken |-> procs[1].broken, inited |-> TRUE, next |-> sup.state + 1]
    BY <2>1, <2>2
  <2>4. q \in ProcessRecord /\ q.up = procs[1].up /\ q.inited = TRUE /\ q.next = sup.state + 1
    BY <2>2, <2>3 DEF ProcessRecord
  <2>5. procs' = [procs EXCEPT ![1] = q]
    BY <1>4, <2>1, <2>2, PluginFields
  <2>6. procs' \in Seq(ProcessRecord) /\ Len(procs') = Len(procs) /\ procs'[1] = q
        /\ \A k \in 1..Len(procs) : k # 1 => procs'[k] = procs[k]
    BY <2>2, <2>4, <2>5, ProcessSet
  <2>7. PICK r : r = [actor["stream"] EXCEPT !.at = "have", !.p = 1]
    OBVIOUS
  <2>8. r \in ActorRecord /\ r.at = "have" /\ r.p = 1
    <3>1. actor["stream"] \in [at : Places, p : Nat, inits : Nat, again : BOOLEAN]
      BY <1>1, PluginFields DEF ActorRecord
    <3>2. r = [at |-> "have", p |-> 1, inits |-> actor["stream"].inits, again |-> actor["stream"].again]
      BY <2>7, <3>1
    <3> QED BY <3>1, <3>2 DEF ActorRecord, Places
  <2>9. actor' = [actor EXCEPT !["stream"] = r]
    BY <1>1, <1>4, <2>7 DEF PluginTypes
  <2>10. \A k \in 1..Len(procs) : /\ procs[k].inited => procs'[k].inited
                                  /\ procs'[k].up => procs[k].up
                                  /\ procs'[k].next = 1 \/ procs'[k].next = procs[k].next \/ procs'[k].next = sup.state + 1
    BY <2>4, <2>6
  <2>11. mu # "stream" /\ r.at \notin {"init", "drop", "live", "backoff", "spawn"} /\ procs'[r.p].inited /\ r.p \in 1..Len(procs)
    BY <1>1, <2>2, <2>4, <2>6, <2>8 DEF Held
  <2>12. sup' \in [proc : Nat, inited : Nat, state : Nat, attempt : Nat, closed : BOOLEAN]
         /\ sup'.proc = sup.proc /\ (sup'.closed => mu' = "none") /\ sup'.state = sup.state /\ sup'.inited = sup.inited
         /\ sup'.closed = sup.closed
    BY <1>1 DEF PluginTypes, Held
  <2>13. ~ policy.restart
    BY <1>4
  <2> QED BY <1>1, <2>6, <2>8, <2>9, <2>10, <2>11, <2>12, <2>13, ProcessStep
<1>5. policy.restart \in BOOLEAN
  BY PluginFields
<1> QED BY <1>2, <1>3, <1>4, <1>5 DEF StreamStart

\* A call begins.
LEMMA CallStep ==
  ASSUME PluginInv, CallStart \/ SinkInitFails
  PROVE  PluginInv'
<1> USE DEF PluginInv
<1>1. /\ UNCHANGED <<policy, sup, mu, taken, frontier, persisted, canceled, restarts>>
      /\ "call" \in Actors /\ actor["call"].at = "idle" /\ canceled \in BOOLEAN
      /\ tried' \in {tried, frontier} /\ faults' \in {faults, faults + 1}
  BY DEF CallStart, SinkInitFails, Engine, At, Actors, PluginTypes, Faulty
<1>2. 1 \in 1..Len(procs) /\ procs[1] \in [up : BOOLEAN, broken : BOOLEAN, inited : BOOLEAN, next : Nat \ {0}]
      /\ actor["call"] \in [at : Places, p : Nat, inits : Nat, again : BOOLEAN] /\ mu # "call"
  BY <1>1, PluginFields DEF PluginTypes, ProcessRecord, ActorRecord, Held
<1>3. sup' \in [proc : Nat, inited : Nat, state : Nat, attempt : Nat, closed : BOOLEAN]
      /\ sup'.proc = sup.proc /\ (sup'.closed => mu' = "none") /\ sup'.state = sup.state /\ sup'.inited = sup.inited
      /\ sup'.closed = sup.closed
  BY <1>1 DEF PluginTypes, Held
<1>4. ASSUME NEW q \in ProcessRecord, procs' = [procs EXCEPT ![1] = q], q.up = procs[1].up, q.next = procs[1].next,
             procs[1].inited => q.inited, ~ policy.restart,
             NEW r \in ActorRecord, actor' = [actor EXCEPT !["call"] = r], r.at \in {"have", "error"},
             r.at = "have" => r.p = 1 /\ q.inited
      PROVE  PluginInv'
  <2>1. procs' \in Seq(ProcessRecord) /\ Len(procs') = Len(procs) /\ procs'[1] = q
        /\ \A k \in 1..Len(procs) : k # 1 => procs'[k] = procs[k]
    <3>1. q \in ProcessRecord /\ procs' = [procs EXCEPT ![1] = q] /\ 1 \in 1..Len(procs) /\ PluginTypes
      BY <1>2, <1>4
    <3> QED BY <3>1, ProcessSet
  <2>2. \A k \in 1..Len(procs) : /\ procs[k].inited => procs'[k].inited
                                 /\ procs'[k].up => procs[k].up
                                 /\ procs'[k].next = 1 \/ procs'[k].next = procs[k].next \/ procs'[k].next = sup.state + 1
    BY <1>4, <2>1
  <2>3. r.at \notin {"init", "drop", "live", "backoff", "spawn"} /\ (r.at = "have" => procs'[r.p].inited /\ r.p \in 1..Len(procs))
    BY <1>2, <1>4, <2>1
  <2>4. r \in ActorRecord /\ actor' = [actor EXCEPT !["call"] = r] /\ ~ policy.restart
    BY <1>4
  <2> QED BY <1>1, <1>2, <1>3, <2>1, <2>2, <2>3, <2>4, ProcessStep
<1>5. CASE SinkInitFails
  <2>1. ~ policy.restart /\ procs' = [procs EXCEPT ![1].broken = TRUE] /\ Goes("call", "error")
    BY <1>5 DEF SinkInitFails
  <2>2. PICK r \in ActorRecord : actor' = [actor EXCEPT !["call"] = r] /\ r.at = "error"
    BY <1>1, <2>1, GoesTo DEF Places
  <2>3. PICK q : q = [procs[1] EXCEPT !.broken = TRUE]
    OBVIOUS
  <2>4. q \in ProcessRecord /\ q.inited = procs[1].inited /\ q.next = procs[1].next /\ q.up = procs[1].up
    BY <1>2, <2>3 DEF ProcessRecord
  <2>5. procs' = [procs EXCEPT ![1] = q]
    BY <2>1, <2>3
  <2> QED BY <1>4, <2>1, <2>2, <2>4, <2>5
<1>6. CASE CallStart /\ policy.restart
  <2>1. PICK r : r = [NoCall EXCEPT !.at = "live", !.inits = IF policy.kind = "sink" THEN 1 ELSE 0]
    OBVIOUS
  <2>2. r \in ActorRecord /\ r.at = "live"
    <3>1. r = [at |-> "live", p |-> NoProc, inits |-> IF policy.kind = "sink" THEN 1 ELSE 0, again |-> FALSE]
      BY <2>1 DEF NoCall
    <3> QED BY <3>1 DEF ActorRecord, Places, NoProc
  <2>3. actor' = [actor EXCEPT !["call"] = r] /\ procs' = procs
    BY <1>6, <2>1 DEF CallStart
  <2>4. r.at # "have" /\ r.at # "drop" /\ r.at \in {"idle", "live", "drop", "error", "close", "closed", "have"} /\ policy.restart
    BY <1>6, <2>2
  <2> QED BY <1>1, <2>2, <2>3, <2>4, PlainStep
<1>7. CASE CallStart /\ ~ policy.restart
  <2>1. PICK place \in {"error", "have"} :
          /\ place = IF policy.kind = "sink" /\ ~ procs[1].inited /\ ~ Answers(1) THEN "error" ELSE "have"
    OBVIOUS
  <2>2. PICK r : r = [actor["call"] EXCEPT !.at = place, !.p = 1]
    OBVIOUS
  <2>3. r \in ActorRecord /\ r.at = place /\ r.p = 1
    <3>1. r = [at |-> place, p |-> 1, inits |-> actor["call"].inits, again |-> actor["call"].again]
      BY <1>2, <2>2
    <3> QED BY <1>2, <2>1, <3>1 DEF ActorRecord, Places
  <2>4. actor' = [actor EXCEPT !["call"] = r]
    BY <1>1, <1>7, <2>1, <2>2 DEF CallStart, PluginTypes
  <2>5. CASE policy.kind = "sink" /\ Answers(1)
    <3>1. procs' = [procs EXCEPT ![1].inited = TRUE]
      BY <1>7, <2>5 DEF CallStart
    <3>2. PICK q : q = [procs[1] EXCEPT !.inited = TRUE]
      OBVIOUS
    <3>3. q \in ProcessRecord /\ q.inited = TRUE /\ q.next = procs[1].next /\ q.up = procs[1].up
      BY <1>2, <3>2 DEF ProcessRecord
    <3>4. procs' = [procs EXCEPT ![1] = q]
      BY <3>1, <3>2
    <3> QED BY <1>4, <1>7, <2>1, <2>3, <2>4, <3>3, <3>4
  <2>6. CASE ~ (policy.kind = "sink" /\ Answers(1))
    <3>1. procs' = procs
      BY <1>7, <2>6 DEF CallStart
    <3>2. place = "have" => procs[1].inited
      <4>1. CASE policy.kind = "sink"
        BY <2>1, <2>6, <4>1
      <4>2. CASE policy.kind = "source"
        <5> SUFFICES ASSUME ~ procs[1].inited PROVE FALSE
          OBVIOUS
        <5>1. tried = frontier /\ persisted = frontier /\ frontier \in Nat
          BY <1>7, <4>2 DEF OneProcess, PluginTypes
        <5>2. frontier > tried \/ frontier > persisted
          BY <1>7, <4>2 DEF CallStart, Wanted, Flush
        <5> QED BY <5>1, <5>2
      <4> QED BY <4>1, <4>2, PluginFields
    <3>3. r.at = "have" => r.p \in 1..Len(procs) /\ procs[r.p].inited
      BY <1>2, <2>3, <3>2
    <3>4. r.at \in {"have", "error"}
      BY <2>1, <2>3
    <3>5. r.at # "drop" /\ r.at # "live"
      BY <3>4
    <3> QED BY <1>1, <2>3, <2>4, <3>1, <3>3, <3>4, <3>5, PlainStep
  <2> QED BY <2>5, <2>6
<1>8. policy.restart \in BOOLEAN
  BY PluginFields
<1> QED BY <1>5, <1>6, <1>7, <1>8

\* An event of the plugin is accepted.
LEMMA ReceiveStep ==
  ASSUME PluginInv, Receive
  PROVE  PluginInv'
<1> USE DEF PluginInv
<1>1. PICK p : p = Reader
  OBVIOUS
<1>2. /\ "stream" \in Actors /\ actor["stream"].at = "have" /\ p = actor["stream"].p /\ p \in 1..Len(procs) /\ procs[p].inited
      /\ UNCHANGED <<policy, sup, mu, actor, frontier, tried, persisted, canceled, faults, restarts>>
      /\ taken' = taken \cup {procs[p].next}
  BY <1>1 DEF Receive, At, Actors, Reader, Named, ConfiguredBeforeUse
<1>3. procs[p] \in [up : BOOLEAN, broken : BOOLEAN, inited : BOOLEAN, next : Nat \ {0}]
  BY <1>2, PluginFields DEF ProcessRecord
<1>4. PICK q : q = [procs[p] EXCEPT !.next = procs[p].next + 1]
  OBVIOUS
<1>5. q \in ProcessRecord /\ q.up = procs[p].up /\ q.broken = procs[p].broken /\ q.inited = procs[p].inited /\ q.next = procs[p].next + 1
  BY <1>3, <1>4 DEF ProcessRecord
<1>6. procs' = [procs EXCEPT ![p] = q]
  BY <1>1, <1>4 DEF Receive
<1>7. procs' \in Seq(ProcessRecord) /\ Len(procs') = Len(procs) /\ procs'[p] = q
      /\ \A k \in 1..Len(procs) : k # p => procs'[k] = procs[k]
  BY <1>2, <1>5, <1>6, ProcessSet
<1>8. \A k \in 1..Len(procs) : procs'[k].up = procs[k].up /\ procs'[k].broken = procs[k].broken /\ procs'[k].inited = procs[k].inited
  BY <1>5, <1>7
<1>9. PluginTypes'
  BY <1>2, <1>7 DEF PluginTypes
<1>10. Named' /\ ConfiguredBeforeUse'
  BY <1>2, <1>7, <1>8 DEF Named, ConfiguredBeforeUse, At
<1>11. Up(sup.proc)' = Up(sup.proc) /\ (Up(sup.proc) => sup.proc \in 1..Len(procs))
  BY <1>2, <1>8, PluginFields DEF Up, Named, NoProc
<1>12. Held'
  BY <1>2, <1>11 DEF Held
<1>13. OneProcess'
  BY <1>2, <1>7, <1>8 DEF OneProcess
<1>14. Due'
  <2>1. Doomed' => Doomed
    BY <1>2, <1>8, <1>11 DEF Doomed
  <2> QED BY <1>2, <2>1 DEF Due
<1>15. Supervised'
  <2>1. DOMAIN procs' = 1..Len(procs) /\ DOMAIN procs = 1..Len(procs)
    BY <1>7, PluginFields
  <2> QED BY <1>2, <1>8, <2>1 DEF Supervised
<1>16. Behind'
  <2> SUFFICES ASSUME policy.kind = "source" PROVE Behind'
    BY <1>2 DEF Behind
  <2>1. procs[p].next \in Nat /\ procs[p].next > 0 /\ 1..(procs[p].next - 1) \subseteq taken /\ taken \subseteq Nat
    BY <1>2, <1>3 DEF Behind
  <2>2. 1..procs[p].next = (1..(procs[p].next - 1)) \cup {procs[p].next}
    BY <2>1
  <2>3. 1..procs[p].next \subseteq taken' /\ taken' \subseteq Nat
    BY <1>2, <2>1, <2>2
  <2>4. (procs[p].next + 1) - 1 = procs[p].next
    BY <2>1
  <2>5. \A k \in 1..Len(procs) : 1..(procs'[k].next - 1) \subseteq taken'
    BY <1>2, <1>5, <1>7, <2>3, <2>4 DEF Behind
  <2>6. \A i \in taken' : 1..i \subseteq taken'
    BY <1>2, <2>3 DEF Behind
  <2> QED BY <1>2, <1>7, <2>3, <2>5, <2>6 DEF Behind
<1> QED BY <1>9, <1>10, <1>12, <1>13, <1>14, <1>15, <1>16

\* Commit answers with the state of the frontier it was given; a batch is written.
LEMMA AnswerStep ==
  ASSUME PluginInv, CallAnswered
  PROVE  PluginInv'
<1> USE DEF PluginInv
<1>1. /\ UNCHANGED <<policy, procs, mu, frontier, tried, canceled, faults, restarts>>
      /\ "call" \in Actors /\ actor["call"].at = "have" /\ Returns
  BY DEF CallAnswered, At, Actors
<1>2. PICK r \in ActorRecord : actor' = [actor EXCEPT !["call"] = r] /\ r.at = "idle"
  BY <1>1, ReturnsTo
<1>3. actor' \in [Actors -> ActorRecord] /\ actor'["call"] = r /\ \A b \in Actors : b # "call" => actor'[b] = actor[b]
  BY <1>1, <1>2 DEF PluginTypes
<1>4. /\ sup' \in [proc : Nat, inited : Nat, state : Nat, attempt : Nat, closed : BOOLEAN]
      /\ sup'.proc = sup.proc /\ sup'.closed = sup.closed /\ sup'.inited = sup.inited
      /\ policy.kind = "source" => sup'.state = tried /\ persisted' = tried /\ taken' = taken
      /\ persisted' \in Nat
  BY PluginFields DEF CallAnswered, PluginTypes
<1>5. PluginTypes'
  BY <1>1, <1>3, <1>4 DEF PluginTypes
<1>6. Named' /\ ConfiguredBeforeUse'
  BY <1>1, <1>2, <1>3, <1>4 DEF Named, ConfiguredBeforeUse, At
<1>7. Held'
  <2>1. Up(sup.proc)' = Up(sup.proc)
    BY <1>1, <1>4 DEF Up
  <2>2. mu # "call"
    BY <1>1 DEF Held
  <2>3. \A b \in Actors : actor'[b].at \in {"backoff", "spawn", "init"} <=> mu' = b
    BY <1>1, <1>2, <1>3, <2>2 DEF Held
  <2> QED BY <1>1, <1>2, <1>3, <1>4, <2>1, <2>3 DEF Held
<1>8. OneProcess'
  <2> SUFFICES ASSUME ~ policy.restart, policy.kind = "source", ~ procs[1].inited PROVE FALSE
    BY <1>1 DEF OneProcess
  <2>1. actor["call"].p = 1
    <3>1. actor["call"].p \in 1..Len(procs) /\ Len(procs) = 1
      BY <1>1 DEF OneProcess, Named
    <3> QED BY <3>1
  <2> QED BY <1>1, <2>1 DEF ConfiguredBeforeUse, At
<1>9. Due'
  <2>1. Doomed' => Doomed
    BY <1>1, <1>2, <1>3, <1>4 DEF Doomed, Up
  <2> QED BY <1>1, <1>4, <2>1 DEF Due
<1>10. Behind'
  BY <1>1, <1>4 DEF Behind
<1>11. Supervised'
  BY <1>1, <1>4 DEF Supervised
<1> QED BY <1>5, <1>6, <1>7, <1>8, <1>9, <1>10, <1>11

\* The engine's frontier, its context and the clock.
LEMMA EngineStep ==
  ASSUME PluginInv, Advance \/ Cancel \/ LongUp \/ UNCHANGED pluginVars
  PROVE  PluginInv'
<1> USE DEF PluginInv
<1>1. /\ UNCHANGED <<policy, procs, sup, mu, actor, taken, tried, persisted, faults, restarts>>
      /\ canceled' \in BOOLEAN /\ (canceled => canceled')
      /\ frontier' = frontier \/ (frontier' = frontier + 1 /\ frontier + 1 \in taken /\ policy.kind = "source")
  BY DEF Advance, Cancel, LongUp, Engine, Clock, pluginVars, PluginTypes
<1>2. PluginTypes'
  BY <1>1 DEF PluginTypes
<1>3. OneProcess'
  <2> SUFFICES ASSUME ~ policy.restart, policy.kind = "source", ~ procs[1].inited
               PROVE  taken = 1..frontier' /\ tried = frontier' /\ persisted = frontier'
    BY <1>1 DEF OneProcess
  <2>1. taken = 1..frontier /\ tried = frontier /\ persisted = frontier /\ frontier \in Nat
    BY DEF OneProcess, PluginTypes
  <2>2. frontier + 1 \notin taken
    BY <2>1
  <2> QED BY <1>1, <2>1, <2>2
<1>4. Behind'
  <2>1. policy.kind = "source" => 1..frontier' \subseteq taken
    BY <1>1 DEF Behind
  <2> QED BY <1>1, <2>1 DEF Behind
<1>5. Up(sup.proc)' = Up(sup.proc) /\ Doomed' = Doomed
  BY <1>1 DEF Up, Doomed
<1> QED BY <1>1, <1>2, <1>3, <1>4, <1>5 DEF Named, Held, Due, ConfiguredBeforeUse, At, Supervised

\* Every step preserves the invariant.
LEMMA PluginStepHolds == PluginInv /\ [PluginNext]_pluginVars => PluginInv'
<1> SUFFICES ASSUME PluginInv, [PluginNext]_pluginVars PROVE PluginInv'
  OBVIOUS
<1>1. "stream" \in Actors /\ "call" \in Actors
  BY DEF Actors
<1>2. ASSUME NEW a \in Actors, Live(a) PROVE PluginInv'
  BY <1>2, LockStep, WaitStep, RespawnStep, ReinitStep, DropStep DEF Live
<1>3. CASE Stream
  BY <1>1, <1>2, <1>3, StartStep, StreamQuiet, ReceiveStep, CloseStep DEF Stream
<1>4. CASE Call
  BY <1>1, <1>2, <1>4, CallStep, CallQuiet, AnswerStep, CloseStep DEF Call
<1>5. CASE Crash \/ Wedge
  BY <1>5, OutsideStep
<1>6. CASE Advance \/ Cancel \/ LongUp \/ UNCHANGED pluginVars
  BY <1>6, EngineStep
<1> QED BY <1>3, <1>4, <1>5, <1>6 DEF PluginNext

\* Max of FiniteSetsExt on two naturals.
LEMMA MaxOfTwo ==
  ASSUME NEW m \in Nat, NEW n \in Nat
  PROVE  Max({m, n}) \in {m, n}
<1>1. \E x \in {m, n} : \A y \in {m, n} : x >= y
  <2>1. CASE m >= n
    BY <2>1
  <2>2. CASE n >= m
    BY <2>2
  <2> QED BY <2>1, <2>2
<1> QED BY <1>1 DEF Max

\* Whatever crashes, wedges, refuses or is replaced, and however stream and Commit
\* interleave: no item of an external source is left out before one the engine
\* accepted, and the state a new process is given covers accepted items only.
THEOREM PluginNothingSkipped == PluginSpec => []NothingSkipped
<1>1. PluginInv => NothingSkipped
  <2> SUFFICES ASSUME PluginInv, policy.kind = "source"
               PROVE  (\A i \in taken : 1..i \subseteq taken) /\ 1..Max({sup.state, persisted}) \subseteq taken
    BY DEF NothingSkipped
  <2>1. Max({sup.state, persisted}) \in {sup.state, persisted}
    BY MaxOfTwo, PluginFields DEF PluginInv, PluginTypes
  <2> QED BY <2>1 DEF PluginInv, Behind
<1> QED BY <1>1, PluginFirst, PluginStepHolds, PTL DEF PluginSpec

\* The two goroutines that share a supervised process make every call on a configured
\* one, leave none running unseen, and cost one restart for a failure both notice.
THEOREM PluginSupervised == PluginSpec => []SupervisionSound
<1>1. PluginInv => SupervisionSound
  BY DEF PluginInv, SupervisionSound, Due, RestartsAreDue
<1> QED BY <1>1, PluginFirst, PluginStepHolds, PTL DEF PluginSpec

=============================================================================
