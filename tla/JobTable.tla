------------------------------- MODULE JobTable -------------------------------
(***************************************************************************)
(* The geom_update_jobs table of app/repositories/job_repository.py.  Rows *)
(* are never deleted and ids are AUTOINCREMENT, so the table is a function *)
(* from ids.  The error message and the time stamps are left out.          *)
(***************************************************************************)
EXTENDS GeomJobs, FiniteSets

JobRow == [status : JobStatus, attempts : Nat, updated : Nat, failed : Nat]

AbsentJob == [status |-> "absent", attempts |-> 0, updated |-> 0, failed |-> 0]

ActiveJobs(jobs) == {j \in JobId : jobs[j].status \in ActiveStatus}

-----------------------------------------------------------------------------
CreateJob(jobs, id) == [jobs EXCEPT ![id].status = "pending"]

MarkJobRunning(jobs, id) ==
    [jobs EXCEPT ![id].status = "running",
                 ![id].attempts = jobs[id].attempts + 1]

(* mark_geom_job_done and mark_geom_job_failed *)
FinishJob(jobs, id, status, updated, failed) ==
    [jobs EXCEPT ![id].status = status, ![id].updated = updated,
                 ![id].failed = failed]

(* Variant: no WHERE clause. *)
MarkAllInterrupted(jobs) ==
    [j \in JobId |->
        IF jobs[j].status # "absent"
        THEN [jobs[j] EXCEPT !.status = "failed"]
        ELSE jobs[j]]

MarkStaleInterrupted(jobs) ==
    [j \in JobId |->
        IF jobs[j].status \in ActiveStatus
        THEN [jobs[j] EXCEPT !.status = "failed"]
        ELSE jobs[j]]
=============================================================================
