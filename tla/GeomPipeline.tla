---------------------------- MODULE GeomPipeline ----------------------------
(***************************************************************************)
(* The collection of parcel boundaries: Excel uploads that replace the     *)
(* land table, the background jobs that ask VWorld for the boundary of     *)
(* every row that has none, the manual refresh, and the recovery at        *)
(* start-up of what a stopped process left behind.                         *)
(*                                                                         *)
(*   app/services/upload_service.py   handle_excel_upload                  *)
(*   app/services/geo_service.py      enqueue, recover, run, update, start *)
(*   app/services/seed_service.py     seed_lands_if_empty                  *)
(*   app/routers/admin.py             upload_excel, start_land_geom_refresh*)
(*   app/main.py                      lifespan                             *)
(*                                                                         *)
(* Every step is one SQLite transaction (or one autocommitted SELECT) or   *)
(* one call of VWorld: nothing holds a lock between two of them, so steps  *)
(* of the request threads and of the job threads interleave freely.  A     *)
(* crash loses all threads; the two tables survive it.                     *)
(***************************************************************************)
EXTENDS LandTable, JobTable

CONSTANTS Threads,      \* request threads of the admin API
          Sheets,       \* the validated sheets an admin may upload
          SeedRows,     \* seed/lands.json; empty when seeding is off
          BatchSize,    \* GEOM_BATCH_SIZE
          MaxRetries,   \* max_retries of run_geom_update_job
          MaxRequests,  \* bound: admin requests that change something
          MaxCrashes,   \* bound: crashes of the process
          MaxFaults     \* bound: database errors and unusable answers

ASSUME PipelineAssumption ==
    /\ Sheets \subseteq Seq(Address)
    /\ SeedRows \in Seq({r \in NewRow : r.geom \in {NoGeom, r.addr}})
    /\ BatchSize \in Nat \ {0}
    /\ MaxRetries \in Nat \ {0}
    /\ MaxRequests \in Nat
    /\ MaxCrashes \in Nat
    /\ MaxFaults \in Nat
    /\ MaxJobs >= MaxRequests + MaxCrashes

VARIABLES
    land,      \* the poi table
    nextLand,  \* its AUTOINCREMENT counter
    jobs,      \* the geom_update_jobs table
    nextJob,   \* its AUTOINCREMENT counter
    boot,      \* how far the process has started
    req,       \* the request each admin thread is serving
    worker,    \* the thread that runs each job
    asked,     \* history: the rows VWorld was ever asked about
    spent      \* what is used up of the bounds

vars == <<land, nextLand, jobs, nextJob, boot, req, worker, asked, spent>>

-----------------------------------------------------------------------------
(* An idle thread, and the local variables of a request being served. *)
IdleReq ==
    [pc |-> "idle", op |-> "upload", sheet |-> <<>>,
     known |-> [a \in Address |-> NoGeom], job |-> 0]

ReqPc == {"idle", "replace", "enqueue", "schedule"}

Request ==
    [pc : ReqPc, op : {"upload", "refresh"}, sheet : Seq(Address),
     known : [Address -> Boundary], job : Nat]

(* No thread runs the job, and the local variables of one that does.  tried *)
(* is a history variable: the rows asked about in the current pass.         *)
NoWorker ==
    [pc |-> "off", attempt |-> 0, afterId |-> 0, batch |-> {},
     updated |-> 0, failed |-> 0, tried |-> {}]

InPass == {"fetch", "call", "write"}

Collecting == InPass \cup {"check", "total"}

WorkerPc == {"off", "scheduled", "finish", "abort"} \cup Collecting

Worker ==
    [pc : WorkerPc, attempt : Nat, afterId : Nat, batch : SUBSET LandItem,
     updated : Nat, failed : Nat, tried : SUBSET Nat]

Up == boot = "up"

Init ==
    /\ land = {}
    /\ nextLand = 1
    /\ jobs = [j \in JobId |-> AbsentJob]
    /\ nextJob = 1
    /\ boot = "seed"
    /\ req = [t \in Threads |-> IdleReq]
    /\ worker = [j \in JobId |-> NoWorker]
    /\ asked = {}
    /\ spent = [requests |-> 0, crashes |-> 0, faults |-> 0]

-----------------------------------------------------------------------------
(* Start-up: lifespan runs these before the first request is served. *)

Seed ==
    /\ boot = "seed"
    /\ boot' = "recover"
    /\ IF land = {}
       THEN /\ land' = InsertLands(SeedRows, nextLand)
            /\ nextLand' = nextLand + Len(SeedRows)
       ELSE UNCHANGED <<land, nextLand>>
    /\ UNCHANGED <<jobs, nextJob, req, worker, asked, spent>>

(* Variant: stale jobs are only touched when there is work left. *)
RecoverOnlyIfMissing ==
    /\ boot = "recover"
    /\ boot' = "up"
    /\ IF ActiveJobs(jobs) # {} /\ CountMissingGeom(land) > 0
       THEN /\ nextJob \in JobId
            /\ jobs' = CreateJob(MarkStaleInterrupted(jobs), nextJob)
            /\ nextJob' = nextJob + 1
            /\ worker' = [worker EXCEPT ![nextJob].pc = "scheduled"]
       ELSE UNCHANGED <<jobs, nextJob, worker>>
    /\ UNCHANGED <<land, nextLand, req, asked, spent>>

(* recover_interrupted_geom_jobs, and lifespan starting the job it made. *)
Recover ==
    /\ boot = "recover"
    /\ boot' = "up"
    /\ IF ActiveJobs(jobs) # {} /\ CountMissingGeom(land) > 0
       THEN /\ nextJob \in JobId
            /\ jobs' = CreateJob(MarkStaleInterrupted(jobs), nextJob)
            /\ nextJob' = nextJob + 1
            /\ worker' = [worker EXCEPT ![nextJob].pc = "scheduled"]
       ELSE /\ jobs' = MarkStaleInterrupted(jobs)
            /\ UNCHANGED <<nextJob, worker>>
    /\ UNCHANGED <<land, nextLand, req, asked, spent>>

Crash ==
    /\ boot # "seed"
    /\ spent.crashes < MaxCrashes
    /\ spent' = [spent EXCEPT !.crashes = @ + 1]
    /\ boot' = "seed"
    /\ req' = [t \in Threads |-> IdleReq]
    /\ worker' = [j \in JobId |-> NoWorker]
    /\ UNCHANGED <<land, nextLand, jobs, nextJob, asked>>

-----------------------------------------------------------------------------
(* Requests of the admin. *)

MayRequest(t) ==
    /\ Up
    /\ req[t].pc = "idle"
    /\ spent.requests < MaxRequests

SpendRequest == spent' = [spent EXCEPT !.requests = @ + 1]

(* _replace_land_data reads the known boundaries outside its transaction. *)
UploadRead(t, sheet) ==
    /\ MayRequest(t)
    /\ SpendRequest
    /\ req' = [req EXCEPT ![t] = [IdleReq EXCEPT !.pc = "replace",
                                                 !.sheet = sheet,
                                                 !.known = FetchGeomByAddress(land)]]
    /\ UNCHANGED <<land, nextLand, jobs, nextJob, boot, worker, asked>>

(* ... and deletes and inserts in one. *)
UploadReplace(t) ==
    /\ req[t].pc = "replace"
    /\ LET sheet == req[t].sheet
           rows  == [i \in DOMAIN sheet |->
                        [addr |-> sheet[i], geom |-> req[t].known[sheet[i]]]]
       IN  /\ land' = InsertLands(rows, nextLand)
           /\ nextLand' = nextLand + Len(sheet)
    /\ req' = [req EXCEPT ![t] = [IdleReq EXCEPT !.pc = "enqueue"]]
    /\ UNCHANGED <<jobs, nextJob, boot, worker, asked, spent>>

(* start_geom_refresh_job: the job that is active answers the request, and  *)
(* nothing changes; otherwise a job is enqueued by a second connection.     *)
RefreshCheck(t) ==
    /\ MayRequest(t)
    /\ ActiveJobs(jobs) = {}
    /\ SpendRequest
    /\ req' = [req EXCEPT ![t] = [IdleReq EXCEPT !.pc = "enqueue", !.op = "refresh"]]
    /\ UNCHANGED <<land, nextLand, jobs, nextJob, boot, worker, asked>>

(* Variants: a job that is active is taken for the new one; the jobs that   *)
(* are active are interrupted first.                                        *)
EnqueueUnlessActive(t) ==
    /\ req[t].pc = "enqueue"
    /\ IF ActiveJobs(jobs) = {}
       THEN /\ jobs' = CreateJob(jobs, nextJob)
            /\ nextJob' = nextJob + 1
            /\ req' = [req EXCEPT ![t].pc = "schedule", ![t].job = nextJob]
       ELSE /\ req' = [req EXCEPT ![t] = IdleReq]
            /\ UNCHANGED <<jobs, nextJob>>
    /\ UNCHANGED <<land, nextLand, boot, worker, asked, spent>>

EnqueueInterrupting(t) ==
    /\ req[t].pc = "enqueue"
    /\ nextJob \in JobId
    /\ jobs' = CreateJob(MarkStaleInterrupted(jobs), nextJob)
    /\ nextJob' = nextJob + 1
    /\ req' = [req EXCEPT ![t].pc = "schedule", ![t].job = nextJob]
    /\ UNCHANGED <<land, nextLand, boot, worker, asked, spent>>

(* enqueue_geom_update_job, of an upload or of a refresh *)
Enqueue(t) ==
    /\ req[t].pc = "enqueue"
    /\ nextJob \in JobId
    /\ jobs' = CreateJob(jobs, nextJob)
    /\ nextJob' = nextJob + 1
    /\ req' = [req EXCEPT ![t].pc = "schedule", ![t].job = nextJob]
    /\ UNCHANGED <<land, nextLand, boot, worker, asked, spent>>

(* The response is sent, and the background task of the request starts. *)
Schedule(t) ==
    /\ req[t].pc = "schedule"
    /\ worker' = [worker EXCEPT ![req[t].job].pc = "scheduled"]
    /\ req' = [req EXCEPT ![t] = IdleReq]
    /\ UNCHANGED <<land, nextLand, jobs, nextJob, boot, asked, spent>>

MayFail == spent.faults < MaxFaults

SpendFault == spent' = [spent EXCEPT !.faults = @ + 1]

(* A statement of the request raises: the answer is a 500, and what was     *)
(* committed before stays.                                                  *)
RequestFails(t) ==
    /\ req[t].pc \in {"replace", "enqueue"}
    /\ MayFail /\ SpendFault
    /\ req' = [req EXCEPT ![t] = IdleReq]
    /\ UNCHANGED <<land, nextLand, jobs, nextJob, boot, worker, asked>>

-----------------------------------------------------------------------------
(* The thread of job j: run_geom_update_job and update_geoms. *)

OnlyWorker(j, w) ==
    /\ worker' = [worker EXCEPT ![j] = w]
    /\ UNCHANGED <<nextLand, nextJob, boot, req>>

MarkRunning(j) ==
    /\ worker[j].pc = "scheduled"
    /\ jobs' = MarkJobRunning(jobs, j)
    /\ OnlyWorker(j, [NoWorker EXCEPT !.pc = "fetch", !.attempt = 1])
    /\ UNCHANGED <<land, asked, spent>>

FetchBatch(j) ==
    /\ worker[j].pc = "fetch"
    /\ LET batch == FetchMissingGeom(land, BatchSize, worker[j].afterId)
       IN  OnlyWorker(j, [worker[j] EXCEPT
                            !.batch = batch,
                            !.pc = IF batch = {} THEN "check" ELSE "call"])
    /\ UNCHANGED <<land, jobs, asked, spent>>

(* The item of the batch the for loop is at. *)
IsNext(batch, item) ==
    /\ item \in batch
    /\ \A other \in batch : item.id <= other.id

(* What the loop goes on with once item is dealt with. *)
AfterItem(w, item) ==
    [w EXCEPT !.batch = @ \ {item},
              !.pc = IF w.batch = {item} THEN "fetch" ELSE "call"]

Asked(w, item) ==
    [w EXCEPT !.afterId = item.id, !.tried = @ \cup {item.id}]

CallFinds(j) ==
    /\ worker[j].pc = "call"
    /\ \E item \in worker[j].batch :
          /\ IsNext(worker[j].batch, item)
          /\ OnlyWorker(j, [Asked(worker[j], item) EXCEPT !.pc = "write"])
          /\ asked' = asked \cup {item.id}
    /\ UNCHANGED <<land, jobs, spent>>

(* Variant: the result is written even when there is none. *)
CallWritesNull(j) ==
    /\ worker[j].pc = "call"
    /\ \E item \in worker[j].batch :
          /\ IsNext(worker[j].batch, item)
          /\ OnlyWorker(j, AfterItem(Asked(worker[j], item), item))
          /\ asked' = asked \cup {item.id}
          /\ land' = UpdateGeom(land, item.id, NoGeom)
    /\ UNCHANGED <<jobs, spent>>

CallFindsNothing(j) ==
    /\ worker[j].pc = "call"
    /\ \E item \in worker[j].batch :
          /\ IsNext(worker[j].batch, item)
          /\ OnlyWorker(j, AfterItem(Asked(worker[j], item), item))
          /\ asked' = asked \cup {item.id}
    /\ UNCHANGED <<land, jobs, spent>>

(* UPDATE and COMMIT; the count grows even if no row has the id any more. *)
WriteGeom(j) ==
    /\ worker[j].pc = "write"
    /\ \E item \in worker[j].batch :
          /\ IsNext(worker[j].batch, item)
          /\ land' = UpdateGeom(land, item.id, item.addr)
          /\ OnlyWorker(j, [AfterItem(worker[j], item) EXCEPT !.updated = @ + 1])
    /\ UNCHANGED <<jobs, asked, spent>>

(* Variants: the cursor is not set back; the passes are not counted. *)
EndPassKeepingCursor(j) ==
    /\ worker[j].pc = "check"
    /\ OnlyWorker(j,
          IF CountMissingGeom(land) = 0 \/ worker[j].attempt = MaxRetries
          THEN [worker[j] EXCEPT !.pc = "total"]
          ELSE [worker[j] EXCEPT !.pc = "fetch", !.attempt = @ + 1, !.tried = {}])
    /\ UNCHANGED <<land, jobs, asked, spent>>

EndPassUncounted(j) ==
    /\ worker[j].pc = "check"
    /\ OnlyWorker(j,
          IF CountMissingGeom(land) = 0
          THEN [worker[j] EXCEPT !.pc = "total"]
          ELSE [worker[j] EXCEPT !.pc = "fetch", !.afterId = 0, !.tried = {}])
    /\ UNCHANGED <<land, jobs, asked, spent>>

(* The end of a pass: another one, or the last count. *)
EndPass(j) ==
    /\ worker[j].pc = "check"
    /\ OnlyWorker(j,
          IF CountMissingGeom(land) = 0 \/ worker[j].attempt = MaxRetries
          THEN [worker[j] EXCEPT !.pc = "total"]
          ELSE [worker[j] EXCEPT !.pc = "fetch", !.attempt = @ + 1,
                                 !.afterId = 0, !.tried = {}])
    /\ UNCHANGED <<land, jobs, asked, spent>>

CountFailed(j) ==
    /\ worker[j].pc = "total"
    /\ OnlyWorker(j, [worker[j] EXCEPT !.pc = "finish",
                                       !.failed = CountMissingGeom(land)])
    /\ UNCHANGED <<land, jobs, asked, spent>>

MarkDone(j) ==
    /\ worker[j].pc = "finish"
    /\ jobs' = FinishJob(jobs, j, "done", worker[j].updated, worker[j].failed)
    /\ OnlyWorker(j, NoWorker)
    /\ UNCHANGED <<land, asked, spent>>

(* update_geoms raises: the counts it would have returned are lost. *)
CollectingFails(j) ==
    /\ worker[j].pc \in Collecting
    /\ MayFail /\ SpendFault
    /\ OnlyWorker(j, [NoWorker EXCEPT !.pc = "abort"])
    /\ UNCHANGED <<land, jobs, asked>>

(* mark_geom_job_done raises: the counts are those of the whole run. *)
MarkDoneFails(j) ==
    /\ worker[j].pc = "finish"
    /\ MayFail /\ SpendFault
    /\ OnlyWorker(j, [worker[j] EXCEPT !.pc = "abort"])
    /\ UNCHANGED <<land, jobs, asked>>

MarkFailed(j) ==
    /\ worker[j].pc = "abort"
    /\ jobs' = FinishJob(jobs, j, "failed", worker[j].updated, worker[j].failed)
    /\ OnlyWorker(j, NoWorker)
    /\ UNCHANGED <<land, asked, spent>>

(* mark_geom_job_running or mark_geom_job_failed raises: the thread ends    *)
(* and the row keeps its status.                                            *)
ThreadDies(j) ==
    /\ worker[j].pc \in {"scheduled", "abort"}
    /\ MayFail /\ SpendFault
    /\ OnlyWorker(j, NoWorker)
    /\ UNCHANGED <<land, jobs, asked>>

(* Nothing runs: the process waits for a request. *)
Quiet ==
    /\ Up
    /\ \A t \in Threads : req[t].pc = "idle"
    /\ \A j \in JobId : worker[j].pc = "off"
    /\ UNCHANGED vars

-----------------------------------------------------------------------------
Start == Seed \/ Recover

Accept(t) == RefreshCheck(t) \/ \E sheet \in Sheets : UploadRead(t, sheet)

Serve(t) == UploadReplace(t) \/ Enqueue(t) \/ Schedule(t)

Run(j) ==
    \/ MarkRunning(j) \/ FetchBatch(j) \/ CallFinds(j) \/ CallFindsNothing(j)
    \/ WriteGeom(j) \/ EndPass(j) \/ CountFailed(j) \/ MarkDone(j) \/ MarkFailed(j)

Break(j) == CollectingFails(j) \/ MarkDoneFails(j) \/ ThreadDies(j)

Next ==
    \/ Start
    \/ Crash
    \/ \E t \in Threads : Accept(t) \/ Serve(t) \/ RequestFails(t)
    \/ \E j \in JobId : Run(j) \/ Break(j)
    \/ Quiet

Spec == Init /\ [][Next]_vars

(* Start-up runs by itself (the container is restarted), an accepted        *)
(* request is served to its end, and the thread of a job keeps running:     *)
(* every call of VWorld ends, by its answer or by its time-out.  Nothing    *)
(* obliges an admin to send a request or the process to crash.              *)
FairSpec ==
    /\ Spec
    /\ WF_vars(Start)
    /\ \A t \in Threads : WF_vars(Serve(t))
    /\ \A j \in JobId : WF_vars(Run(j))
-----------------------------------------------------------------------------
(* Types. *)
Spent ==
    [requests : 0 .. MaxRequests, crashes : 0 .. MaxCrashes,
     faults : 0 .. MaxFaults]

TypeOK ==
    /\ land \subseteq LandRow
    /\ nextLand \in Nat \ {0}
    /\ jobs \in [JobId -> JobRow]
    /\ nextJob \in 1 .. MaxJobs + 1
    /\ boot \in {"seed", "recover", "up"}
    /\ req \in [Threads -> Request]
    /\ worker \in [JobId -> Worker]
    /\ asked \subseteq Nat
    /\ spent \in Spent

(* No row ever carries the boundary of another parcel, although a thread    *)
(* writes by an id it selected before an upload replaced the whole table    *)
(* (update_geom after get_parcel_geometry).  It rests on ids that are never *)
(* given twice.                                                             *)
GeomMatchesAddress ==
    \A r \in land : r.geom \in {NoGeom, r.addr}

(* What the status of a job says of its thread: a job that has ended, and   *)
(* one that nobody started, has no thread that goes on writing rows; a      *)
(* thread that collects belongs to a running job.                           *)
StatusMatchesThread ==
    \A j \in JobId :
        /\ worker[j].pc = "scheduled" => jobs[j].status = "pending"
        /\ worker[j].pc \in Collecting \cup {"finish", "abort"}
              => jobs[j].status = "running"

(* As long as the database has not failed, a job that is shown as pending   *)
(* or running is going to be run or is being run: nobody polls a job that   *)
(* cannot end, and no refresh is refused for one (start_geom_refresh_job).  *)
NoOrphanJob ==
    (Up /\ spent.faults = 0) =>
        \A j \in ActiveJobs(jobs) :
            \/ worker[j].pc # "off"
            \/ \E t \in Threads : req[t].pc = "schedule" /\ req[t].job = j

(* A pass is over only when each row that has no boundary at that moment    *)
(* was asked about in that pass: rows VWorld does not know never keep the   *)
(* rows behind them from being asked (RISK-026), whatever uploads and other *)
(* jobs did to the table during the pass.                                   *)
PassAsksEveryMissingRow ==
    [][\A j \in JobId :
          (worker[j].pc = "fetch" /\ worker'[j].pc = "check") =>
              \A r \in MissingGeom(land) : r.id \in worker[j].tried]_vars

(* A boundary that was collected is neither blanked nor overwritten by a    *)
(* job, a recovery or a seed: it goes only with the whole table, when an    *)
(* upload replaces it.                                                      *)
CollectedStays ==
    [][\/ \A r \in land : r.geom # NoGeom => r \in land'
       \/ \A r \in land' : r.id >= nextLand]_vars

(* The jobs behave as the life cycle of JobLifecycle allows. *)
Lifecycle ==
    INSTANCE JobLifecycle WITH
        status <- [j \in JobId |-> jobs[j].status],
        created <- nextJob - 1

ImplementsLifecycle == Lifecycle!LSpec

Parcels == INSTANCE ParcelTable WITH rows <- land, next <- nextLand

(* The land table is what others expect of it: outside of an upload or a    *)
(* seed no row comes, goes or changes, but for one that lacks its boundary  *)
(* and receives it; ids are never used again, so that an id that was read   *)
(* from the table stands for its parcel for ever.                           *)
ImplementsParcels == Parcels!PSpec

(* Every job that is created ends, also over a restart, unless the database *)
(* failed.                                                                  *)
JobsEnd ==
    \A j \in JobId :
        jobs[j].status \in ActiveStatus
            ~> (jobs[j].status \in TerminalStatus \/ spent.faults > 0)

(* When all is quiet after uploads, VWorld was asked about every row they   *)
(* left without a boundary, also about rows inserted while another job had  *)
(* passed that point of the table, and about those whose boundary was       *)
(* collected and lost in a race with the upload.  (Rows seed_lands_if_empty *)
(* inserted wait for the next job; a crash may cut off an upload before     *)
(* its job exists.)                                                         *)
UploadedRowsWereAsked ==
    (/\ Up
     /\ ActiveJobs(jobs) = {}
     /\ \A t \in Threads : req[t].pc = "idle"
     /\ spent.faults = 0 /\ spent.crashes = 0)
    => \A r \in MissingGeom(land) : r.id > Len(SeedRows) => r.id \in asked

Located(table, addr) == \E r \in table : r.addr = addr /\ r.geom # NoGeom

(* "Keep known boundaries so a re-upload does not blank the public map."    *)
(* (upload_service.py, _replace_land_data): an address that has a boundary  *)
(* and is in the table afterwards still has one.                            *)
ReuploadKeepsBoundaries ==
    [][\A addr \in Address :
          /\ Located(land, addr)
          /\ \E r \in land' : r.addr = addr
          => Located(land', addr)]_vars
=============================================================================
