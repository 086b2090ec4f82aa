---------------------------- MODULE JobLifecycle ----------------------------
(***************************************************************************)
(* What the collection of boundaries promises about its jobs, without the  *)
(* threads, the rows and the transactions: a job is created once, is run   *)
(* at most once, ends at most once, and a restart ends whatever is         *)
(* unfinished, possibly putting one new job in its place.  This is the     *)
(* durability the project documents as RISK-003 (docs/TODO.MD).            *)
(***************************************************************************)
EXTENDS GeomJobs

VARIABLES status,   \* the status of each job
          created   \* how many jobs there are

lifecycleVars == <<status, created>>

LInit ==
    /\ status = [j \in JobId |-> "absent"]
    /\ created = 0

Create ==
    /\ created' = created + 1
    /\ status' = [status EXCEPT ![created'] = "pending"]

Begin(j) ==
    /\ status[j] = "pending"
    /\ status' = [status EXCEPT ![j] = "running"]
    /\ UNCHANGED created

End(j, outcome) ==
    /\ status[j] = "running"
    /\ status' = [status EXCEPT ![j] = outcome]
    /\ UNCHANGED created

Ended == [j \in JobId |->
             IF status[j] \in ActiveStatus THEN "failed" ELSE status[j]]

(* A restart: one new job, only in the place of interrupted ones. *)
Restart ==
    \/ /\ status' = Ended
       /\ UNCHANGED created
    \/ /\ \E j \in JobId : status[j] \in ActiveStatus
       /\ created' = created + 1
       /\ status' = [Ended EXCEPT ![created'] = "pending"]

LNext ==
    \/ Create
    \/ Restart
    \/ \E j \in JobId :
          \/ Begin(j)
          \/ \E outcome \in TerminalStatus : End(j, outcome)

LSpec == LInit /\ [][LNext]_lifecycleVars
=============================================================================
