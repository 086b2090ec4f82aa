------------------------------- MODULE GeomJobs -------------------------------
(***************************************************************************)
(* The jobs that collect boundaries, as far as everybody sees them: their  *)
(* ids and the status of a job (column status of geom_update_jobs).        *)
(***************************************************************************)
EXTENDS Naturals

CONSTANT MaxJobs   \* bound on the number of jobs

ASSUME MaxJobsIsPositive == MaxJobs \in Nat \ {0}

JobId == 1 .. MaxJobs

ActiveStatus == {"pending", "running"}
TerminalStatus == {"done", "failed"}

(* A row that was not inserted yet is "absent". *)
JobStatus == {"absent"} \cup ActiveStatus \cup TerminalStatus
=============================================================================
