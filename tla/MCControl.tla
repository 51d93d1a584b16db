----------------------------- MODULE MCControl ------------------------------
(***************************************************************************)
(* The instances TLC checks of the operations service, of dead letters and *)
(* their replay, and of two parts of the job manager: the catch-up of      *)
(* missed ticks and the admission pool.  A behaviour is one of the four;   *)
(* part says which.                                                        *)
(***************************************************************************)
EXTENDS Daemon, Catchup, JobAdmission, DeadLetters

VARIABLE part

\* All letters or the newest one, by id or not; the younger ones of one branch.
MCFilters ==
  [ids : {{}, {1, 2}}, since : {0}, where : {Branches}, limit : {0, 1}]
    \cup [ids : {{}}, since : {2}, where : {{b} : b \in Branches}, limit : {0}]

Init ==
  /\ DaemonInit /\ PoolInit /\ LettersInit
  /\ \/ part \in {"daemon", "pool", "letters"} /\ CatchupInit /\ ticks = {Second} /\ last = Second /\ now = Second
     \/ part = "catchup" /\ CatchupInit

Next ==
  \/ part = "daemon" /\ DaemonNext /\ UNCHANGED <<part, catchupVars, poolVars, letterVars>>
  \/ part = "catchup" /\ CatchupNext /\ UNCHANGED <<part, daemonVars, poolVars, letterVars>>
  \/ part = "pool" /\ PoolNext /\ UNCHANGED <<part, daemonVars, catchupVars, letterVars>>
  \/ part = "letters" /\ LettersNext /\ UNCHANGED <<part, daemonVars, catchupVars, poolVars>>

vars == <<part, daemonVars, catchupVars, poolVars, letterVars>>
Spec == Init /\ [][Next]_vars /\ DaemonFairness
=============================================================================
