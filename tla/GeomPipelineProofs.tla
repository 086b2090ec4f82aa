------------------------- MODULE GeomPipelineProofs -------------------------
(***************************************************************************)
(* Theorems about GeomPipeline, and about the page of GeomRefreshPage, for *)
(* every value of their constants.                                         *)
(***************************************************************************)
EXTENDS GeomPipeline, GeomRefreshPage, FiniteSetTheorems, WellFoundedInduction, TLAPS

-----------------------------------------------------------------------------
(* The inductive invariant. *)

(* The primary key of the poi table, and its AUTOINCREMENT counter. *)
LandIds ==
    /\ \A r \in land : r.id < nextLand
    /\ \A r, q \in land : r.id = q.id => r = q

(* The boundaries an upload has read belong to their addresses. *)
KnownMatchesAddress ==
    \A t \in Threads : \A addr \in Address :
        req[t].known[addr] \in {NoGeom, addr}

(* A row a job has selected is gone, or still has the address the job will  *)
(* ask about: its id is never given to another row.                         *)
BatchMatchesLand ==
    \A j \in JobId : \A item \in worker[j].batch :
        /\ item.id < nextLand
        /\ \A r \in land : r.id = item.id => r.addr = item.addr

IInv ==
    /\ TypeOK
    /\ LandIds
    /\ GeomMatchesAddress
    /\ KnownMatchesAddress
    /\ BatchMatchesLand

-----------------------------------------------------------------------------
(* The statements of land_repository. *)

(* A table with a primary key below a bound is finite, so its rows can be   *)
(* counted.                                                                 *)
LEMMA LandIsFinite ==
    ASSUME TypeOK, LandIds
    PROVE  IsFiniteSet(land)
<1> DEFINE key == [r \in land |-> r.id]
<1>1. key \in [land -> 0 .. nextLand - 1]
  BY DEF TypeOK, LandIds, LandRow
<1>2. \A r, q \in land : key[r] = key[q] => r = q
  BY DEF LandIds
<1>3. key \in Injection(land, 0 .. nextLand - 1)
  BY <1>1, <1>2 DEF Injection, IsInjective
<1>4. IsFiniteSet(0 .. nextLand - 1)
  BY FS_Interval DEF TypeOK
<1> QED
  BY <1>3, <1>4, FS_Injection

(* count_missing_geom returns a number. *)
LEMMA CountType ==
    ASSUME TypeOK, LandIds
    PROVE  CountMissingGeom(land) \in Nat
<1>1. IsFiniteSet(MissingGeom(land))
  BY LandIsFinite, FS_Subset DEF MissingGeom
<1> QED
  BY <1>1, FS_CardinalityType DEF CountMissingGeom

(* A selected batch consists of rows of the table. *)
LEMMA FetchedFromTable ==
    ASSUME TypeOK, NEW limit, NEW after
    PROVE  /\ FetchMissingGeom(land, limit, after) \subseteq LandItem
           /\ \A item \in FetchMissingGeom(land, limit, after) :
                 \E r \in land : item.id = r.id /\ item.addr = r.addr
<1> DEFINE rows == FirstById({q \in MissingGeom(land) : q.id > after}, limit)
<1>1. rows \subseteq land
  BY DEF FirstById, MissingGeom
<1>2. \A r \in rows : r.id \in Nat /\ r.addr \in Address
  BY <1>1 DEF TypeOK, LandRow
<1>3. FetchMissingGeom(land, limit, after) =
          {[id |-> r.id, addr |-> r.addr] : r \in rows}
  BY DEF FetchMissingGeom
<1> HIDE DEF rows
<1> QED
  BY <1>1, <1>2, <1>3 DEF LandItem

(* The dictionary of known boundaries, when each boundary is at its place. *)
LEMMA KnownBoundaries ==
    ASSUME TypeOK, GeomMatchesAddress
    PROVE  /\ FetchGeomByAddress(land) \in [Address -> Boundary]
           /\ \A addr \in Address :
                 FetchGeomByAddress(land)[addr] \in {NoGeom, addr}
<1>1. ASSUME NEW addr \in Address
      PROVE  FetchGeomByAddress(land)[addr] \in {NoGeom, addr}
  <2> DEFINE located == {r \in land : r.addr = addr /\ r.geom # NoGeom}
  <2>1. CASE located = {}
    BY <2>1 DEF FetchGeomByAddress
  <2>2. CASE located # {}
    <3>1. (CHOOSE r \in located : TRUE) \in located
      BY <2>2
    <3>2. (CHOOSE r \in located : TRUE).geom = addr
      BY <3>1 DEF GeomMatchesAddress
    <3> QED
      BY <2>2, <3>2 DEF FetchGeomByAddress
  <2> QED
    BY <2>1, <2>2
<1>2. FetchGeomByAddress(land) \in [Address -> Boundary]
  <2>1. FetchGeomByAddress(land) =
            [addr \in Address |-> FetchGeomByAddress(land)[addr]]
    BY DEF FetchGeomByAddress
  <2> QED
    BY <1>1, <2>1 DEF Boundary
<1> QED
  BY <1>1, <1>2

(* INSERTs after the DELETE: typed rows with fresh, distinct ids. *)
LEMMA InsertedRows ==
    ASSUME NEW rows \in Seq(NewRow), NEW next \in Nat \ {0}
    PROVE  /\ InsertLands(rows, next) \subseteq LandRow
           /\ next + Len(rows) \in Nat \ {0}
           /\ \A r \in InsertLands(rows, next) :
                 /\ next <= r.id /\ r.id < next + Len(rows)
                 /\ \E i \in DOMAIN rows : r.addr = rows[i].addr /\ r.geom = rows[i].geom
           /\ \A r, q \in InsertLands(rows, next) : r.id = q.id => r = q
<1>1. DOMAIN rows = 1 .. Len(rows) /\ Len(rows) \in Nat
  OBVIOUS
<1>2. \A i \in 1 .. Len(rows) : rows[i] \in NewRow
  OBVIOUS
<1>3. InsertLands(rows, next) \subseteq LandRow
  BY <1>1, <1>2 DEF InsertLands, LandRow, NewRow
<1>4. \A r \in InsertLands(rows, next) :
          /\ next <= r.id /\ r.id < next + Len(rows)
          /\ \E i \in DOMAIN rows : r.addr = rows[i].addr /\ r.geom = rows[i].geom
  BY <1>1 DEF InsertLands
<1>5. \A r, q \in InsertLands(rows, next) : r.id = q.id => r = q
  BY <1>1 DEF InsertLands
<1> QED
  BY <1>1, <1>3, <1>4, <1>5

(* UPDATE ... WHERE id: each row keeps its id and address. *)
LEMMA UpdatedRows ==
    ASSUME NEW table, table \subseteq LandRow, NEW id, NEW geom \in Boundary
    PROVE  /\ UpdateGeom(table, id, geom) \subseteq LandRow
           /\ \A r \in UpdateGeom(table, id, geom) :
                 \E q \in table : /\ r.id = q.id /\ r.addr = q.addr
                                  /\ r = IF q.id = id THEN [q EXCEPT !.geom = geom] ELSE q
BY DEF UpdateGeom, LandRow, Boundary

-----------------------------------------------------------------------------
(* The statements of job_repository keep the table typed. *)
LEMMA JobStatements ==
    ASSUME TypeOK, NEW id \in JobId, NEW outcome \in JobStatus,
           NEW updated \in Nat, NEW failed \in Nat
    PROVE  /\ CreateJob(jobs, id) \in [JobId -> JobRow]
           /\ MarkJobRunning(jobs, id) \in [JobId -> JobRow]
           /\ FinishJob(jobs, id, outcome, updated, failed) \in [JobId -> JobRow]
           /\ MarkStaleInterrupted(jobs) \in [JobId -> JobRow]
           /\ CreateJob(MarkStaleInterrupted(jobs), id) \in [JobId -> JobRow]
<1> USE DEF TypeOK, JobRow, JobStatus, ActiveStatus, TerminalStatus
<1>1. CreateJob(jobs, id) \in [JobId -> JobRow]
  BY DEF CreateJob
<1>2. MarkJobRunning(jobs, id) \in [JobId -> JobRow]
  <2>1. jobs[id].attempts + 1 \in Nat
    OBVIOUS
  <2> QED
    BY <2>1 DEF MarkJobRunning
<1>3. FinishJob(jobs, id, outcome, updated, failed) \in [JobId -> JobRow]
  BY DEF FinishJob
<1>4. MarkStaleInterrupted(jobs) \in [JobId -> JobRow]
  BY DEF MarkStaleInterrupted
<1>5. CreateJob(MarkStaleInterrupted(jobs), id) \in [JobId -> JobRow]
  BY <1>4 DEF CreateJob
<1> QED
  BY <1>1, <1>2, <1>3, <1>4, <1>5

-----------------------------------------------------------------------------
(* Steps that leave the land table alone. *)

(* A step of a job thread whose new batch still fits the table. *)
LEMMA ThreadStep ==
    ASSUME IInv, NEW j \in JobId, NEW w \in Worker,
           OnlyWorker(j, w), UNCHANGED land,
           jobs' \in [JobId -> JobRow], asked' \subseteq Nat, spent' \in Spent,
           \A item \in w.batch :
               /\ item.id < nextLand
               /\ \A r \in land : r.id = item.id => r.addr = item.addr
    PROVE  IInv'
<1> USE DEF IInv, OnlyWorker
<1>1. TypeOK'
  BY DEF TypeOK
<1>2. LandIds' /\ GeomMatchesAddress' /\ KnownMatchesAddress'
  BY DEF LandIds, GeomMatchesAddress, KnownMatchesAddress
<1>3. BatchMatchesLand'
  BY DEF BatchMatchesLand, TypeOK
<1> QED
  BY <1>1, <1>2, <1>3

(* A step of a request thread that starts no thread but possibly schedules  *)
(* a job, and that holds boundaries of the right addresses.                 *)
LEMMA RequestStep ==
    ASSUME IInv, NEW t \in Threads, NEW r \in Request,
           req' = [req EXCEPT ![t] = r],
           \A addr \in Address : r.known[addr] \in {NoGeom, addr},
           UNCHANGED <<land, nextLand, boot, asked>>,
           jobs' \in [JobId -> JobRow], nextJob' \in 1 .. MaxJobs + 1,
           spent' \in Spent, worker' \in [JobId -> Worker],
           \A j \in JobId : worker'[j].batch = worker[j].batch
    PROVE  IInv'
<1> USE DEF IInv
<1>1. TypeOK'
  BY DEF TypeOK
<1>2. LandIds' /\ GeomMatchesAddress'
  BY DEF LandIds, GeomMatchesAddress
<1>3. KnownMatchesAddress'
  BY DEF KnownMatchesAddress, TypeOK
<1>4. BatchMatchesLand'
  BY DEF BatchMatchesLand
<1> QED
  BY <1>1, <1>2, <1>3, <1>4

(* A new table takes the place of the old one: its ids are all new, so that *)
(* no batch selected before names a row of it.                              *)
LEMMA TableReplaced ==
    ASSUME IInv, NEW rows \in Seq(NewRow),
           \A i \in DOMAIN rows : rows[i].geom \in {NoGeom, rows[i].addr},
           land' = InsertLands(rows, nextLand),
           nextLand' = nextLand + Len(rows),
           UNCHANGED worker
    PROVE  /\ land' \subseteq LandRow /\ nextLand' \in Nat \ {0}
           /\ LandIds' /\ GeomMatchesAddress' /\ BatchMatchesLand'
<1> USE DEF IInv
<1>1. nextLand \in Nat \ {0}
  BY DEF TypeOK
<1>2. /\ land' \subseteq LandRow /\ nextLand' \in Nat \ {0}
      /\ \A r \in land' :
             /\ nextLand <= r.id /\ r.id < nextLand'
             /\ \E i \in DOMAIN rows : r.addr = rows[i].addr /\ r.geom = rows[i].geom
      /\ \A r, q \in land' : r.id = q.id => r = q
  BY <1>1, InsertedRows
<1>3. LandIds'
  BY <1>2 DEF LandIds
<1>4. GeomMatchesAddress'
  BY <1>2 DEF GeomMatchesAddress
<1>5. BatchMatchesLand'
  <2> SUFFICES ASSUME NEW j \in JobId, NEW item \in worker[j].batch
               PROVE  /\ item.id < nextLand'
                      /\ \A r \in land' : r.id # item.id
    BY DEF BatchMatchesLand
  <2>1. item.id \in Nat /\ item.id < nextLand
    BY DEF BatchMatchesLand, TypeOK, Worker, LandItem
  <2>2. Len(rows) \in Nat
    OBVIOUS
  <2>3. \A r \in land' : r.id \in Nat
    BY <1>2 DEF LandRow
  <2> QED
    BY <1>1, <1>2, <2>1, <2>2, <2>3
<1> QED
  BY <1>2, <1>3, <1>4, <1>5

(* What the local variables of an idle thread and of no thread are. *)
LEMMA InitialLocals ==
    /\ IdleReq \in Request
    /\ \A addr \in Address : IdleReq.known[addr] = NoGeom
    /\ NoWorker \in Worker
    /\ NoWorker.batch = {}
BY DEF IdleReq, Request, ReqPc, Boundary, NoWorker, Worker, WorkerPc

-----------------------------------------------------------------------------
LEMMA InitIInv == Init => IInv
<1> SUFFICES ASSUME Init PROVE IInv
  OBVIOUS
<1>1. MaxRequests \in Nat /\ MaxCrashes \in Nat /\ MaxFaults \in Nat
  BY PipelineAssumption
<1>2. MaxJobs \in Nat \ {0}
  BY MaxJobsIsPositive
<1>3. AbsentJob \in JobRow
  BY DEF AbsentJob, JobRow, JobStatus
<1>4. TypeOK
  BY <1>1, <1>2, <1>3, InitialLocals DEF Init, TypeOK, Spent
<1>5. LandIds /\ GeomMatchesAddress
  BY DEF Init, LandIds, GeomMatchesAddress
<1>6. KnownMatchesAddress /\ BatchMatchesLand
  BY InitialLocals DEF Init, KnownMatchesAddress, BatchMatchesLand
<1> QED
  BY <1>4, <1>5, <1>6 DEF IInv

LEMMA StepIInv == IInv /\ [Next]_vars => IInv'
<1> SUFFICES ASSUME IInv, [Next]_vars
             PROVE  IInv'
  OBVIOUS
<1>a. TypeOK /\ LandIds /\ GeomMatchesAddress /\ KnownMatchesAddress /\ BatchMatchesLand
  BY DEF IInv
<1>b. \A j \in JobId : worker[j] \in Worker
  BY <1>a DEF TypeOK
<1>c. \A j \in JobId : \A item \in worker[j].batch :
          /\ item.id < nextLand
          /\ \A r \in land : r.id = item.id => r.addr = item.addr
  BY <1>a DEF BatchMatchesLand
<1>d. MaxJobs \in Nat \ {0} /\ JobId = 1 .. MaxJobs
  BY MaxJobsIsPositive DEF JobId
<1>e. /\ MaxRequests \in Nat /\ MaxCrashes \in Nat /\ MaxFaults \in Nat
      /\ Sheets \subseteq Seq(Address)
      /\ SeedRows \in Seq({r \in NewRow : r.geom \in {NoGeom, r.addr}})
  BY PipelineAssumption
<1>f. MayFail /\ SpendFault => spent' \in Spent
  BY <1>a, <1>e DEF MayFail, SpendFault, TypeOK, Spent
<1>1. CASE Seed
  <2> USE <1>1 DEF Seed
  <2>1. CASE land = {}
    <3>1. SeedRows \in Seq(NewRow)
      BY <1>e
    <3>2. \A i \in DOMAIN SeedRows : SeedRows[i].geom \in {NoGeom, SeedRows[i].addr}
      BY <1>e
    <3>3. /\ land' \subseteq LandRow /\ nextLand' \in Nat \ {0}
          /\ LandIds' /\ GeomMatchesAddress' /\ BatchMatchesLand'
      BY <2>1, <3>1, <3>2, TableReplaced
    <3> QED
      BY <1>a, <3>3 DEF IInv, TypeOK, KnownMatchesAddress
  <2>2. CASE land # {}
    BY <1>a, <2>2 DEF IInv, TypeOK, LandIds, GeomMatchesAddress,
                      KnownMatchesAddress, BatchMatchesLand
  <2> QED
    BY <2>1, <2>2
<1>2. CASE Recover
  <2> USE <1>2 DEF Recover
  <2>1. /\ jobs' \in [JobId -> JobRow]
        /\ nextJob' \in 1 .. MaxJobs + 1
        /\ worker' \in [JobId -> Worker]
        /\ \A j \in JobId : worker'[j].batch = worker[j].batch
    <3>1. CASE ActiveJobs(jobs) # {} /\ CountMissingGeom(land) > 0
      <4>1. nextJob \in JobId /\ nextJob + 1 \in 1 .. MaxJobs + 1
        BY <1>a, <1>d, <3>1 DEF TypeOK
      <4>2. jobs' \in [JobId -> JobRow]
        BY <1>a, <3>1, <4>1, JobStatements DEF JobStatus
      <4>3. [worker[nextJob] EXCEPT !.pc = "scheduled"] \in Worker
        BY <1>b, <4>1 DEF Worker, WorkerPc
      <4>4. worker' = [worker EXCEPT ![nextJob].pc = "scheduled"]
        BY <3>1
      <4>5. worker' \in [JobId -> Worker]
        BY <1>a, <4>1, <4>3, <4>4 DEF TypeOK
      <4>6. \A j \in JobId : worker'[j].batch = worker[j].batch
        BY <1>a, <1>b, <4>1, <4>4 DEF TypeOK, Worker
      <4>7. nextJob' \in 1 .. MaxJobs + 1
        BY <3>1, <4>1
      <4> QED
        BY <4>2, <4>5, <4>6, <4>7
    <3>2. CASE ~(ActiveJobs(jobs) # {} /\ CountMissingGeom(land) > 0)
      <4>1. jobs' \in [JobId -> JobRow]
        BY <1>a, <1>d, <3>2, JobStatements DEF JobStatus
      <4> QED
        BY <1>a, <3>2, <4>1 DEF TypeOK
    <3> QED
      BY <3>1, <3>2
  <2>2. TypeOK'
    BY <1>a, <2>1 DEF TypeOK
  <2>3. LandIds' /\ GeomMatchesAddress' /\ KnownMatchesAddress'
    BY <1>a DEF LandIds, GeomMatchesAddress, KnownMatchesAddress
  <2>4. BatchMatchesLand'
    BY <1>c, <2>1 DEF BatchMatchesLand
  <2> QED
    BY <2>2, <2>3, <2>4 DEF IInv
<1>3. CASE Crash
  <2> USE <1>3 DEF Crash
  <2>1. spent' \in Spent
    BY <1>a, <1>e DEF TypeOK, Spent
  <2>2. TypeOK'
    BY <1>a, <2>1, InitialLocals DEF TypeOK
  <2>3. LandIds' /\ GeomMatchesAddress'
    BY <1>a DEF LandIds, GeomMatchesAddress
  <2>4. KnownMatchesAddress' /\ BatchMatchesLand'
    BY InitialLocals DEF KnownMatchesAddress, BatchMatchesLand
  <2> QED
    BY <2>2, <2>3, <2>4 DEF IInv
<1>4. ASSUME NEW t \in Threads, Accept(t) \/ Serve(t) \/ RequestFails(t)
      PROVE  IInv'
  <2>a. req[t] \in Request /\ req[t].known \in [Address -> Boundary]
    BY <1>a DEF TypeOK, Request
  <2>b. spent' \in Spent \/ ~(MayRequest(t) /\ SpendRequest)
    BY <1>a, <1>e DEF MayRequest, SpendRequest, TypeOK, Spent
  <2>1. ASSUME NEW sheet \in Sheets, UploadRead(t, sheet)
        PROVE  IInv'
    <3> DEFINE r == [IdleReq EXCEPT !.pc = "replace", !.sheet = sheet,
                                    !.known = FetchGeomByAddress(land)]
    <3>1. r \in Request
      BY <1>a, <1>e, InitialLocals, KnownBoundaries DEF Request, ReqPc
    <3>2. \A addr \in Address : r.known[addr] \in {NoGeom, addr}
      BY <1>a, KnownBoundaries DEF IdleReq
    <3>3. req' = [req EXCEPT ![t] = r]
      BY <2>1 DEF UploadRead
    <3> HIDE DEF r
    <3>4. spent' \in Spent
      BY <2>1, <2>b DEF UploadRead
    <3> QED
      BY <1>a, <2>1, <3>1, <3>2, <3>3, <3>4, RequestStep DEF UploadRead, TypeOK
  <2>2. CASE RefreshCheck(t)
    <3> DEFINE r == [IdleReq EXCEPT !.pc = "enqueue", !.op = "refresh"]
    <3>1. r \in Request /\ \A addr \in Address : r.known[addr] = NoGeom
      BY InitialLocals DEF Request, ReqPc, IdleReq
    <3>2. req' = [req EXCEPT ![t] = r]
      BY <2>2 DEF RefreshCheck
    <3> HIDE DEF r
    <3>3. spent' \in Spent
      BY <2>2, <2>b DEF RefreshCheck
    <3> QED
      BY <1>a, <2>2, <3>1, <3>2, <3>3, RequestStep DEF RefreshCheck, TypeOK
  <2>3. CASE UploadReplace(t)
    <3> DEFINE sheet == req[t].sheet
               rows  == [i \in DOMAIN sheet |->
                            [addr |-> sheet[i], geom |-> req[t].known[sheet[i]]]]
               r     == [IdleReq EXCEPT !.pc = "enqueue"]
    <3>1. sheet \in Seq(Address)
      BY <2>a DEF Request
    <3>2. \A i \in DOMAIN sheet : sheet[i] \in Address
      BY <3>1
    <3>3. rows \in Seq(NewRow) /\ Len(rows) = Len(sheet) /\ DOMAIN rows = DOMAIN sheet
      <4>1. DOMAIN sheet = 1 .. Len(sheet) /\ Len(sheet) \in Nat
        BY <3>1
      <4>2. \A i \in DOMAIN sheet : rows[i] \in NewRow
        BY <2>a, <3>2 DEF NewRow
      <4> HIDE DEF sheet
      <4> QED
        BY <4>1, <4>2
    <3>4. \A i \in DOMAIN rows : rows[i].geom \in {NoGeom, rows[i].addr}
      BY <1>a, <3>2, <3>3 DEF KnownMatchesAddress
    <3>5. /\ land' = InsertLands(rows, nextLand)
          /\ nextLand' = nextLand + Len(rows)
          /\ req' = [req EXCEPT ![t] = r]
          /\ UNCHANGED <<jobs, nextJob, boot, worker, asked, spent>>
      BY <2>3, <3>3 DEF UploadReplace
    <3>6. r \in Request /\ \A addr \in Address : r.known[addr] = NoGeom
      BY InitialLocals DEF Request, ReqPc, IdleReq
    <3> HIDE DEF rows, r, sheet
    <3>7. /\ land' \subseteq LandRow /\ nextLand' \in Nat \ {0}
          /\ LandIds' /\ GeomMatchesAddress' /\ BatchMatchesLand'
      BY <3>3, <3>4, <3>5, TableReplaced
    <3>8. TypeOK'
      BY <1>a, <3>5, <3>6, <3>7 DEF TypeOK
    <3>9. KnownMatchesAddress'
      BY <1>a, <3>5, <3>6 DEF KnownMatchesAddress, TypeOK
    <3> QED
      BY <3>7, <3>8, <3>9 DEF IInv
  <2>4. CASE Enqueue(t)
    <3> DEFINE r == [req[t] EXCEPT !.pc = "schedule", !.job = nextJob]
    <3>1. nextJob \in JobId /\ nextJob \in Nat /\ nextJob + 1 \in 1 .. MaxJobs + 1
      BY <1>a, <1>d, <2>4 DEF Enqueue, TypeOK
    <3>2. r \in Request /\ r.known = req[t].known
      BY <2>a, <3>1 DEF Request, ReqPc
    <3>3. req' = [req EXCEPT ![t] = r]
      BY <2>4 DEF Enqueue
    <3>4. jobs' \in [JobId -> JobRow]
      BY <1>a, <2>4, <3>1, JobStatements DEF Enqueue, JobStatus
    <3>5. \A addr \in Address : r.known[addr] \in {NoGeom, addr}
      BY <1>a, <3>2 DEF KnownMatchesAddress
    <3> HIDE DEF r
    <3> QED
      BY <1>a, <2>4, <3>1, <3>2, <3>3, <3>4, <3>5, RequestStep DEF Enqueue, TypeOK
  <2>5. CASE Schedule(t)
    <3>1. worker' = [worker EXCEPT ![req[t].job].pc = "scheduled"]
      BY <2>5 DEF Schedule
    <3>2. worker' \in [JobId -> Worker]
      BY <1>a, <3>1 DEF TypeOK, Worker, WorkerPc
    <3>3. \A j \in JobId : worker'[j].batch = worker[j].batch
      BY <1>a, <3>1 DEF TypeOK, Worker
    <3> QED
      BY <1>a, <2>5, <3>2, <3>3, InitialLocals, RequestStep DEF Schedule, TypeOK
  <2>6. CASE RequestFails(t)
    BY <1>a, <1>f, <2>6, InitialLocals, RequestStep DEF RequestFails, TypeOK
  <2> QED
    BY <1>4, <2>1, <2>2, <2>3, <2>4, <2>5, <2>6 DEF Accept, Serve
<1>5. ASSUME NEW j \in JobId, Run(j) \/ Break(j)
      PROVE  IInv'
  <2> DEFINE w == worker[j]
  <2>a. w \in Worker /\ w.batch \subseteq LandItem
    BY <1>b DEF Worker
  <2>b. \A item \in w.batch :
            /\ item \in LandItem /\ item.id \in Nat /\ item.addr \in Address
            /\ item.id < nextLand
            /\ \A r \in land : r.id = item.id => r.addr = item.addr
    BY <1>c, <2>a DEF LandItem
  <2>c. jobs \in [JobId -> JobRow] /\ asked \subseteq Nat /\ spent \in Spent
    BY <1>a DEF TypeOK
  <2>d. ASSUME NEW item \in w.batch
        PROVE  /\ Asked(w, item) \in Worker
               /\ Asked(w, item).batch = w.batch
               /\ AfterItem(w, item) \in Worker
               /\ AfterItem(w, item).batch \subseteq w.batch
               /\ AfterItem(Asked(w, item), item) \in Worker
               /\ AfterItem(Asked(w, item), item).batch \subseteq w.batch
               /\ asked \cup {item.id} \subseteq Nat
    BY <2>a, <2>b, <2>c DEF Asked, AfterItem, Worker, WorkerPc, Collecting, InPass
  <2>1. CASE MarkRunning(j)
    <3>1. [NoWorker EXCEPT !.pc = "fetch", !.attempt = 1] \in Worker
      BY InitialLocals DEF Worker, WorkerPc, Collecting, InPass
    <3>2. [NoWorker EXCEPT !.pc = "fetch", !.attempt = 1].batch = {}
      BY DEF NoWorker
    <3>3. jobs' \in [JobId -> JobRow]
      BY <1>a, <2>1, JobStatements DEF MarkRunning, JobStatus
    <3> QED
      BY <2>1, <2>c, <3>1, <3>2, <3>3, ThreadStep DEF MarkRunning
  <2>2. CASE FetchBatch(j)
    <3> DEFINE batch == FetchMissingGeom(land, BatchSize, w.afterId)
               v == [w EXCEPT !.batch = batch,
                              !.pc = IF batch = {} THEN "check" ELSE "call"]
    <3>1. /\ batch \subseteq LandItem
          /\ \A item \in batch : \E r \in land : item.id = r.id /\ item.addr = r.addr
      BY <1>a, FetchedFromTable
    <3>2. OnlyWorker(j, v) /\ UNCHANGED <<land, jobs, asked, spent>>
      BY <2>2 DEF FetchBatch
    <3> HIDE DEF batch
    <3>3. v \in Worker /\ v.batch = batch
      BY <2>a, <3>1 DEF Worker, WorkerPc, Collecting, InPass
    <3>4. \A item \in batch :
              /\ item.id < nextLand
              /\ \A r \in land : r.id = item.id => r.addr = item.addr
      BY <1>a, <3>1 DEF LandIds
    <3> HIDE DEF v, w
    <3> QED
      BY <2>c, <3>2, <3>3, <3>4, ThreadStep
  <2>3. CASE CallFinds(j)
    <3> PICK item \in w.batch :
            /\ OnlyWorker(j, [Asked(w, item) EXCEPT !.pc = "write"])
            /\ asked' = asked \cup {item.id}
      BY <2>3 DEF CallFinds
    <3>1. /\ [Asked(w, item) EXCEPT !.pc = "write"] \in Worker
          /\ [Asked(w, item) EXCEPT !.pc = "write"].batch = w.batch
      BY <2>d DEF Worker, WorkerPc, Collecting, InPass
    <3> QED
      BY <2>3, <2>b, <2>c, <2>d, <3>1, ThreadStep DEF CallFinds
  <2>4. CASE CallFindsNothing(j)
    <3> PICK item \in w.batch :
            /\ OnlyWorker(j, AfterItem(Asked(w, item), item))
            /\ asked' = asked \cup {item.id}
      BY <2>4 DEF CallFindsNothing
    <3> QED
      BY <2>4, <2>b, <2>c, <2>d, ThreadStep DEF CallFindsNothing
  <2>5. CASE WriteGeom(j)
    <3> PICK item \in w.batch :
            /\ land' = UpdateGeom(land, item.id, item.addr)
            /\ OnlyWorker(j, [AfterItem(w, item) EXCEPT !.updated = @ + 1])
      BY <2>5 DEF WriteGeom
    <3> DEFINE v == [AfterItem(w, item) EXCEPT !.updated = @ + 1]
    <3>1. v \in Worker /\ v.batch \subseteq w.batch
      BY <2>d DEF Worker
    <3>2. OnlyWorker(j, v) /\ UNCHANGED <<jobs, asked, spent>>
      BY <2>5 DEF WriteGeom
    <3>3. /\ land' \subseteq LandRow
          /\ \A r \in land' :
                 \E q \in land :
                    /\ r.id = q.id /\ r.addr = q.addr
                    /\ r = IF q.id = item.id THEN [q EXCEPT !.geom = item.addr] ELSE q
      <4>1. land \subseteq LandRow /\ item.addr \in Boundary
        BY <1>a, <2>b DEF Boundary, TypeOK
      <4>2. land' = UpdateGeom(land, item.id, item.addr)
        OBVIOUS
      <4> QED
        BY <4>1, <4>2, UpdatedRows
    <3> HIDE DEF v, w
    <3>4. TypeOK'
      BY <1>a, <3>1, <3>2, <3>3 DEF TypeOK, OnlyWorker
    <3>5. LandIds'
      BY <1>a, <3>2, <3>3 DEF LandIds, OnlyWorker
    <3>6. GeomMatchesAddress'
      <4> SUFFICES ASSUME NEW r \in land'
                   PROVE  r.geom \in {NoGeom, r.addr}
        BY DEF GeomMatchesAddress
      <4> PICK q \in land :
              /\ r.id = q.id /\ r.addr = q.addr
              /\ r = IF q.id = item.id THEN [q EXCEPT !.geom = item.addr] ELSE q
        BY <3>3
      <4>1. CASE q.id = item.id
        <5>1. q.addr = item.addr
          BY <2>b, <4>1
        <5>2. r.geom = item.addr
          BY <1>a, <4>1 DEF TypeOK, LandRow
        <5> QED
          BY <5>1, <5>2
      <4>2. CASE q.id # item.id
        BY <1>a, <4>2 DEF GeomMatchesAddress
      <4> QED
        BY <4>1, <4>2
    <3>7. KnownMatchesAddress'
      BY <1>a, <3>2 DEF KnownMatchesAddress, OnlyWorker
    <3>8. BatchMatchesLand'
      <4> SUFFICES ASSUME NEW k \in JobId, NEW i \in worker'[k].batch
                   PROVE  /\ i.id < nextLand'
                          /\ \A r \in land' : r.id = i.id => r.addr = i.addr
        BY DEF BatchMatchesLand
      <4>1. i \in worker[k].batch
        BY <1>a, <3>1, <3>2 DEF OnlyWorker, TypeOK, w
      <4> QED
        BY <1>c, <3>2, <3>3, <4>1 DEF OnlyWorker
    <3> QED
      BY <3>4, <3>5, <3>6, <3>7, <3>8 DEF IInv
  <2>6. CASE EndPass(j)
    <3>1. /\ [w EXCEPT !.pc = "total"] \in Worker
          /\ [w EXCEPT !.pc = "total"].batch = w.batch
      BY <2>a DEF Worker, WorkerPc, Collecting
    <3>2. /\ [w EXCEPT !.pc = "fetch", !.attempt = @ + 1, !.afterId = 0, !.tried = {}]
                 \in Worker
          /\ [w EXCEPT !.pc = "fetch", !.attempt = @ + 1, !.afterId = 0,
                       !.tried = {}].batch = w.batch
      <4>1. w.attempt + 1 \in Nat
        BY <2>a DEF Worker
      <4> HIDE DEF w
      <4> QED
        BY <2>a, <4>1 DEF Worker, WorkerPc, Collecting, InPass
    <3> QED
      BY <2>6, <2>b, <2>c, <3>1, <3>2, ThreadStep DEF EndPass
  <2>7. CASE CountFailed(j)
    <3> DEFINE v == [w EXCEPT !.pc = "finish", !.failed = CountMissingGeom(land)]
    <3>1. v \in Worker /\ v.batch = w.batch
      BY <1>a, <2>a, CountType DEF Worker, WorkerPc
    <3>2. OnlyWorker(j, v) /\ UNCHANGED <<land, jobs, asked, spent>>
      BY <2>7 DEF CountFailed
    <3> HIDE DEF v
    <3> QED
      BY <2>b, <2>c, <3>1, <3>2, ThreadStep
  <2>8. CASE MarkDone(j) \/ MarkFailed(j)
    <3>1. w.updated \in Nat /\ w.failed \in Nat
      BY <2>a DEF Worker
    <3>2. jobs' \in [JobId -> JobRow]
      <4>1. "done" \in JobStatus /\ "failed" \in JobStatus
        BY DEF JobStatus, TerminalStatus
      <4>2. \/ jobs' = FinishJob(jobs, j, "done", w.updated, w.failed)
            \/ jobs' = FinishJob(jobs, j, "failed", w.updated, w.failed)
        BY <2>8 DEF MarkDone, MarkFailed
      <4> HIDE DEF w
      <4> QED
        BY <1>a, <3>1, <4>1, <4>2, JobStatements
    <3> QED
      BY <2>8, <2>c, <3>2, InitialLocals, ThreadStep DEF MarkDone, MarkFailed
  <2>9. CASE CollectingFails(j)
    <3>1. /\ [NoWorker EXCEPT !.pc = "abort"] \in Worker
          /\ [NoWorker EXCEPT !.pc = "abort"].batch = {}
      BY InitialLocals DEF NoWorker, Worker, WorkerPc
    <3> QED
      BY <1>f, <2>9, <2>c, <3>1, ThreadStep DEF CollectingFails
  <2>10. CASE MarkDoneFails(j)
    <3>1. [w EXCEPT !.pc = "abort"] \in Worker /\ [w EXCEPT !.pc = "abort"].batch = w.batch
      BY <2>a DEF Worker, WorkerPc
    <3> QED
      BY <1>f, <2>10, <2>b, <2>c, <3>1, ThreadStep DEF MarkDoneFails
  <2>11. CASE ThreadDies(j)
    BY <1>f, <2>11, <2>c, InitialLocals, ThreadStep DEF ThreadDies
  <2> QED
    BY <1>5, <2>1, <2>2, <2>3, <2>4, <2>5, <2>6, <2>7, <2>8, <2>9, <2>10, <2>11
       DEF Run, Break
<1>6. CASE Quiet
  BY <1>a, <1>6 DEF Quiet, vars, IInv, TypeOK, LandIds, GeomMatchesAddress,
                    KnownMatchesAddress, BatchMatchesLand
<1>7. CASE UNCHANGED vars
  BY <1>a, <1>7 DEF vars, IInv, TypeOK, LandIds, GeomMatchesAddress,
                    KnownMatchesAddress, BatchMatchesLand
<1> QED
  BY <1>1, <1>2, <1>3, <1>4, <1>5, <1>6, <1>7 DEF Next, Start

(* The tables, the requests and the threads are well typed in every         *)
(* reachable state.                                                         *)
THEOREM TypeCorrect == Spec => []TypeOK
<1>1. IInv => TypeOK
  BY DEF IInv
<1> QED
  BY InitIInv, StepIInv, <1>1, PTL DEF Spec

(* However many jobs run while however many uploads replace the table, no   *)
(* row is ever given the boundary of another parcel.                        *)
THEOREM NoForeignBoundary == Spec => []GeomMatchesAddress
<1>1. IInv => GeomMatchesAddress
  BY DEF IInv
<1> QED
  BY InitIInv, StepIInv, <1>1, PTL DEF Spec

-----------------------------------------------------------------------------
(* Jobs and their threads. *)

(* The id the table gives next belongs to no row and no thread. *)
UnusedJobs ==
    \A j \in JobId : j >= nextJob => jobs[j].status = "absent" /\ worker[j].pc = "off"

(* A crash ends every thread, and nothing is served before start-up ends. *)
NothingRunsUntilUp ==
    ~Up => /\ \A t \in Threads : req[t].pc = "idle"
           /\ \A j \in JobId : worker[j].pc = "off"

(* The job a response is about to start is pending, has no thread yet, and  *)
(* no other response starts it.                                             *)
ScheduledOnce ==
    \A t \in Threads : req[t].pc = "schedule" =>
        /\ req[t].job \in JobId
        /\ jobs[req[t].job].status = "pending"
        /\ worker[req[t].job].pc = "off"
        /\ \A u \in Threads :
              req[u].pc = "schedule" /\ req[u].job = req[t].job => u = t

JobInv ==
    /\ UnusedJobs
    /\ NothingRunsUntilUp
    /\ ScheduledOnce
    /\ StatusMatchesThread
    /\ NoOrphanJob

(* What a thread may be at that has marked its job running. *)
Busy == Collecting \cup {"finish", "abort"}

(* The statements of job_repository, as far as the status goes. *)
LEMMA Statuses ==
    ASSUME TypeOK, NEW id \in JobId, NEW outcome, NEW updated, NEW failed,
           NEW j \in JobId
    PROVE  /\ CreateJob(jobs, id)[j].status =
                  IF j = id THEN "pending" ELSE jobs[j].status
           /\ MarkJobRunning(jobs, id)[j].status =
                  IF j = id THEN "running" ELSE jobs[j].status
           /\ FinishJob(jobs, id, outcome, updated, failed)[j].status =
                  IF j = id THEN outcome ELSE jobs[j].status
           /\ MarkStaleInterrupted(jobs)[j].status =
                  IF jobs[j].status \in ActiveStatus THEN "failed" ELSE jobs[j].status
           /\ CreateJob(MarkStaleInterrupted(jobs), id)[j].status =
                  IF j = id THEN "pending" ELSE MarkStaleInterrupted(jobs)[j].status
<1>1. jobs \in [JobId -> JobRow]
  BY DEF TypeOK
<1>2. CreateJob(jobs, id)[j].status = IF j = id THEN "pending" ELSE jobs[j].status
  BY <1>1 DEF CreateJob, JobRow
<1>3. MarkJobRunning(jobs, id)[j].status = IF j = id THEN "running" ELSE jobs[j].status
  BY <1>1 DEF MarkJobRunning, JobRow
<1>4. FinishJob(jobs, id, outcome, updated, failed)[j].status =
          IF j = id THEN outcome ELSE jobs[j].status
  BY <1>1 DEF FinishJob, JobRow
<1>5. MarkStaleInterrupted(jobs)[j].status =
          IF jobs[j].status \in ActiveStatus THEN "failed" ELSE jobs[j].status
  BY <1>1 DEF MarkStaleInterrupted, JobRow
<1>6. MarkStaleInterrupted(jobs) \in [JobId -> JobRow]
  BY <1>1 DEF MarkStaleInterrupted, JobRow, JobStatus, TerminalStatus
<1>7. CreateJob(MarkStaleInterrupted(jobs), id)[j].status =
          IF j = id THEN "pending" ELSE MarkStaleInterrupted(jobs)[j].status
  BY <1>6 DEF CreateJob, JobRow
<1> QED
  BY <1>2, <1>3, <1>4, <1>5, <1>7

(* The number of database errors only grows, and SpendFault counts one. *)
LEMMA FaultsGrow ==
    ASSUME TypeOK
    PROVE  /\ SpendFault => spent'.faults # 0
           /\ SpendRequest => spent'.faults = spent.faults
           /\ spent' = [spent EXCEPT !.crashes = @ + 1] => spent'.faults = spent.faults
<1>1. spent \in Spent /\ spent.faults \in Nat
  BY PipelineAssumption DEF TypeOK, Spent
<1> QED
  BY <1>1 DEF SpendFault, SpendRequest, Spent

(* A thread goes on, and the table of jobs stays. *)
LEMMA ThreadGoesOn ==
    ASSUME IInv, JobInv, NEW j \in JobId, NEW w, OnlyWorker(j, w), UNCHANGED jobs,
           worker[j].pc \in Busy, w.pc \in Busy,
           spent'.faults = 0 => spent.faults = 0
    PROVE  JobInv'
<1>1. /\ worker'[j].pc = w.pc
      /\ \A k \in JobId : k # j => worker'[k] = worker[k]
      /\ UNCHANGED <<nextJob, boot, req, jobs>>
  BY DEF OnlyWorker, IInv, TypeOK
<1>2. worker[j].pc # "off" /\ worker'[j].pc # "off" /\ worker'[j].pc # "scheduled"
  BY <1>1 DEF Busy, Collecting, InPass
<1>3. jobs[j].status = "running"
  BY DEF JobInv, StatusMatchesThread, Busy
<1>4. UnusedJobs'
  BY <1>1, <1>2 DEF JobInv, UnusedJobs
<1>5. NothingRunsUntilUp'
  BY <1>1, <1>2 DEF JobInv, NothingRunsUntilUp, Up
<1>6. ScheduledOnce'
  BY <1>1, <1>2 DEF JobInv, ScheduledOnce
<1>7. StatusMatchesThread'
  BY <1>1, <1>2, <1>3 DEF JobInv, StatusMatchesThread
<1>8. NoOrphanJob'
  BY <1>1, <1>2 DEF JobInv, NoOrphanJob, Up, ActiveJobs
<1> QED
  BY <1>4, <1>5, <1>6, <1>7, <1>8 DEF JobInv

(* A thread ends: its job has ended, or the database has failed. *)
LEMMA ThreadLeaves ==
    ASSUME IInv, JobInv, NEW j \in JobId, OnlyWorker(j, NoWorker),
           worker[j].pc # "off",
           \A k \in JobId : k # j => jobs'[k].status = jobs[k].status,
           \/ jobs'[j].status \in TerminalStatus /\ UNCHANGED spent
           \/ UNCHANGED jobs /\ spent'.faults # 0
    PROVE  JobInv'
<1>1. /\ worker'[j].pc = "off"
      /\ \A k \in JobId : k # j => worker'[k] = worker[k]
      /\ UNCHANGED <<nextJob, boot, req>>
  BY DEF OnlyWorker, IInv, TypeOK, NoWorker
<1>2. ~(j >= nextJob)
  BY DEF JobInv, UnusedJobs
<1>3. UnusedJobs'
  BY <1>1, <1>2 DEF JobInv, UnusedJobs
<1>4. NothingRunsUntilUp'
  BY <1>1 DEF JobInv, NothingRunsUntilUp, Up
<1>5. ScheduledOnce'
  BY <1>1 DEF JobInv, ScheduledOnce
<1>6. StatusMatchesThread'
  BY <1>1 DEF JobInv, StatusMatchesThread, Collecting, InPass
<1>7. NoOrphanJob'
  BY <1>1 DEF JobInv, NoOrphanJob, Up, ActiveJobs, TerminalStatus, ActiveStatus
<1> QED
  BY <1>3, <1>4, <1>5, <1>6, <1>7 DEF JobInv

LEMMA InitJobInv == Init => JobInv
<1> SUFFICES ASSUME Init PROVE JobInv
  OBVIOUS
<1>1. \A j \in JobId : jobs[j].status = "absent" /\ worker[j].pc = "off"
  BY DEF Init, AbsentJob, NoWorker
<1>2. \A t \in Threads : req[t].pc = "idle"
  BY DEF Init, IdleReq
<1>3. UnusedJobs /\ NothingRunsUntilUp /\ ScheduledOnce
  BY <1>1, <1>2 DEF UnusedJobs, NothingRunsUntilUp, ScheduledOnce
<1>4. StatusMatchesThread
  BY <1>1 DEF StatusMatchesThread, Collecting, InPass
<1>5. NoOrphanJob
  BY <1>1 DEF NoOrphanJob, ActiveJobs, ActiveStatus
<1> QED
  BY <1>3, <1>4, <1>5 DEF JobInv

LEMMA StepJobInv == IInv /\ JobInv /\ [Next]_vars => JobInv'
<1> SUFFICES ASSUME IInv, JobInv, [Next]_vars
             PROVE  JobInv'
  OBVIOUS
<1>a. TypeOK
  BY DEF IInv
<1>b. /\ jobs \in [JobId -> JobRow] /\ worker \in [JobId -> Worker]
      /\ req \in [Threads -> Request] /\ nextJob \in Nat /\ JobId \subseteq Nat
  BY <1>a, MaxJobsIsPositive DEF TypeOK, JobId
<1>c. UnusedJobs /\ NothingRunsUntilUp /\ ScheduledOnce /\ StatusMatchesThread /\ NoOrphanJob
  BY DEF JobInv
<1>1. CASE Seed
  <2>1. boot = "seed" /\ boot' = "recover" /\ UNCHANGED <<jobs, nextJob, req, worker, spent>>
    BY <1>1 DEF Seed
  <2> QED
    BY <1>c, <2>1 DEF JobInv, UnusedJobs, NothingRunsUntilUp, ScheduledOnce,
                      StatusMatchesThread, NoOrphanJob, Up
<1>2. CASE Recover
  <2>1. boot' = "up" /\ UNCHANGED <<req, spent>>
    BY <1>2 DEF Recover
  <2>2. /\ \A t \in Threads : req[t].pc = "idle" /\ req'[t].pc = "idle"
        /\ \A j \in JobId : worker[j].pc = "off"
    BY <1>c, <1>2 DEF Recover, NothingRunsUntilUp, Up
  <2>3. CASE ActiveJobs(jobs) # {} /\ CountMissingGeom(land) > 0
    <3>1. /\ nextJob \in JobId /\ nextJob' = nextJob + 1
          /\ jobs' = CreateJob(MarkStaleInterrupted(jobs), nextJob)
          /\ worker' = [worker EXCEPT ![nextJob].pc = "scheduled"]
      BY <1>2, <2>3 DEF Recover
    <3>2. \A j \in JobId : worker'[j].pc = IF j = nextJob THEN "scheduled" ELSE "off"
      BY <1>b, <2>2, <3>1 DEF Worker
    <3>3. \A j \in JobId :
              jobs'[j].status = IF j = nextJob THEN "pending"
                                ELSE IF jobs[j].status \in ActiveStatus THEN "failed"
                                ELSE jobs[j].status
      BY <1>a, <3>1, Statuses
    <3>4. UnusedJobs'
      BY <1>b, <1>c, <3>1, <3>2, <3>3 DEF UnusedJobs, ActiveStatus
    <3>5. NothingRunsUntilUp' /\ ScheduledOnce'
      BY <2>1, <2>2 DEF NothingRunsUntilUp, ScheduledOnce, Up
    <3>6. StatusMatchesThread'
      BY <3>2, <3>3 DEF StatusMatchesThread, Collecting, InPass
    <3>7. NoOrphanJob'
      BY <3>2, <3>3 DEF NoOrphanJob, ActiveJobs, ActiveStatus
    <3> QED
      BY <3>4, <3>5, <3>6, <3>7 DEF JobInv
  <2>4. CASE ~(ActiveJobs(jobs) # {} /\ CountMissingGeom(land) > 0)
    <3>1. jobs' = MarkStaleInterrupted(jobs) /\ UNCHANGED <<nextJob, worker>>
      BY <1>2, <2>4 DEF Recover
    <3>2. \A j \in JobId : jobs'[j].status = IF jobs[j].status \in ActiveStatus
                                            THEN "failed" ELSE jobs[j].status
      BY <1>a, <3>1, Statuses
    <3>3. UnusedJobs'
      BY <1>c, <3>1, <3>2 DEF UnusedJobs, ActiveStatus
    <3>4. NothingRunsUntilUp' /\ ScheduledOnce'
      BY <2>1, <2>2 DEF NothingRunsUntilUp, ScheduledOnce, Up
    <3>5. StatusMatchesThread'
      BY <2>2, <3>1 DEF StatusMatchesThread, Collecting, InPass
    <3>6. NoOrphanJob'
      BY <3>2 DEF NoOrphanJob, ActiveJobs, ActiveStatus
    <3> QED
      BY <3>3, <3>4, <3>5, <3>6 DEF JobInv
  <2> QED
    BY <2>3, <2>4
<1>3. CASE Crash
  <2>1. /\ boot' = "seed" /\ UNCHANGED <<jobs, nextJob>>
        /\ \A t \in Threads : req'[t].pc = "idle"
        /\ \A j \in JobId : worker'[j].pc = "off"
    BY <1>3 DEF Crash, IdleReq, NoWorker
  <2> QED
    BY <1>c, <2>1 DEF JobInv, UnusedJobs, NothingRunsUntilUp, ScheduledOnce,
                      StatusMatchesThread, NoOrphanJob, Up, Collecting, InPass
<1>4. ASSUME NEW t \in Threads, Accept(t) \/ Serve(t) \/ RequestFails(t)
      PROVE  JobInv'
  <2>1. ASSUME Accept(t) \/ UploadReplace(t) \/ RequestFails(t)
        PROVE  JobInv'
    <3>1. /\ UNCHANGED <<jobs, nextJob, boot, worker>>
          /\ spent'.faults = 0 => spent.faults = 0
      BY <1>a, <2>1, FaultsGrow
         DEF Accept, RefreshCheck, UploadRead, UploadReplace, RequestFails, SpendRequest
    <3>2. \E r : req' = [req EXCEPT ![t] = r] /\ r.pc # "schedule"
      <4>1. IdleReq.pc = "idle" /\ [IdleReq EXCEPT !.pc = "enqueue"].pc = "enqueue"
        BY DEF IdleReq
      <4>2. [IdleReq EXCEPT !.pc = "enqueue", !.op = "refresh"].pc = "enqueue"
        BY DEF IdleReq
      <4>3. \A sheet, known : [IdleReq EXCEPT !.pc = "replace", !.sheet = sheet,
                                             !.known = known].pc = "replace"
        BY DEF IdleReq
      <4>4. CASE RefreshCheck(t)
        BY <4>2, <4>4 DEF RefreshCheck
      <4>5. ASSUME NEW sheet \in Sheets, UploadRead(t, sheet)
            PROVE  \E r : req' = [req EXCEPT ![t] = r] /\ r.pc # "schedule"
        BY <4>3, <4>5 DEF UploadRead
      <4>6. CASE UploadReplace(t) \/ RequestFails(t)
        BY <4>1, <4>6 DEF UploadReplace, RequestFails
      <4> QED
        BY <2>1, <4>4, <4>5, <4>6 DEF Accept
    <3>3. req[t].pc # "schedule"
      BY <2>1 DEF Accept, RefreshCheck, UploadRead, UploadReplace, RequestFails, MayRequest
    <3>4. Up
      BY <1>c, <2>1 DEF Accept, RefreshCheck, UploadRead, UploadReplace, RequestFails,
                        MayRequest, NothingRunsUntilUp
    <3>5. /\ req'[t].pc # "schedule"
          /\ \A u \in Threads : u # t => req'[u] = req[u]
      BY <1>b, <3>2
    <3>6. UnusedJobs' /\ NothingRunsUntilUp' /\ StatusMatchesThread'
      BY <1>c, <3>1, <3>4 DEF UnusedJobs, NothingRunsUntilUp, StatusMatchesThread, Up
    <3>7. ScheduledOnce'
      BY <1>c, <3>1, <3>5 DEF ScheduledOnce
    <3>8. NoOrphanJob'
      BY <1>c, <3>1, <3>3, <3>5 DEF NoOrphanJob, Up, ActiveJobs
    <3> QED
      BY <3>6, <3>7, <3>8 DEF JobInv
  <2>2. CASE Enqueue(t)
    <3>1. /\ nextJob \in JobId /\ nextJob' = nextJob + 1
          /\ UNCHANGED <<boot, worker, spent>>
      BY <2>2 DEF Enqueue
    <3>2. \A j \in JobId :
              jobs'[j].status = IF j = nextJob THEN "pending" ELSE jobs[j].status
      BY <1>a, <2>2, <3>1, Statuses DEF Enqueue
    <3>3. /\ req'[t].pc = "schedule" /\ req'[t].job = nextJob
          /\ \A u \in Threads : u # t => req'[u] = req[u]
          /\ req[t].pc = "enqueue"
      BY <1>b, <2>2 DEF Enqueue, Request
    <3>4. jobs[nextJob].status = "absent" /\ worker[nextJob].pc = "off"
      BY <1>b, <1>c, <3>1 DEF UnusedJobs
    <3>5. UnusedJobs'
      <4> SUFFICES ASSUME NEW j \in JobId, j >= nextJob + 1
                   PROVE  jobs'[j].status = "absent" /\ worker[j].pc = "off"
        BY <3>1 DEF UnusedJobs
      <4>1. j >= nextJob /\ j # nextJob
        BY <1>b
      <4> QED
        BY <1>c, <3>2, <4>1 DEF UnusedJobs
    <3>6. NothingRunsUntilUp'
      BY <1>c, <3>1, <3>3 DEF NothingRunsUntilUp, Up
    <3>7. ScheduledOnce'
      BY <1>c, <3>1, <3>2, <3>3, <3>4 DEF ScheduledOnce
    <3>8. StatusMatchesThread'
      BY <1>c, <3>1, <3>2, <3>4 DEF StatusMatchesThread, Collecting, InPass
    <3>9. NoOrphanJob'
      BY <1>c, <3>1, <3>2, <3>3 DEF NoOrphanJob, Up, ActiveJobs
    <3> QED
      BY <3>5, <3>6, <3>7, <3>8, <3>9 DEF JobInv
  <2>3. CASE Schedule(t)
    <3> DEFINE k == req[t].job
    <3>1. /\ req[t].pc = "schedule" /\ UNCHANGED <<jobs, nextJob, boot, spent>>
          /\ worker' = [worker EXCEPT ![k].pc = "scheduled"]
          /\ req' = [req EXCEPT ![t] = IdleReq]
      BY <2>3 DEF Schedule
    <3>2. /\ k \in JobId /\ jobs[k].status = "pending" /\ worker[k].pc = "off"
          /\ \A u \in Threads : req[u].pc = "schedule" /\ req[u].job = k => u = t
      BY <1>c, <3>1 DEF ScheduledOnce
    <3>3. /\ req'[t].pc = "idle"
          /\ \A u \in Threads : u # t => req'[u] = req[u]
      BY <1>b, <3>1 DEF IdleReq
    <3> HIDE DEF k
    <3>4. \A j \in JobId : worker'[j].pc = IF j = k THEN "scheduled" ELSE worker[j].pc
      BY <1>b, <3>1, <3>2 DEF Worker
    <3>5. UnusedJobs'
      BY <1>c, <3>1, <3>2, <3>4 DEF UnusedJobs
    <3>6. NothingRunsUntilUp'
      BY <1>c, <3>1 DEF NothingRunsUntilUp, Up
    <3>7. ScheduledOnce'
      BY <1>c, <3>1, <3>2, <3>3, <3>4 DEF ScheduledOnce
    <3>8. StatusMatchesThread'
      BY <1>c, <3>1, <3>2, <3>4 DEF StatusMatchesThread, Collecting, InPass
    <3>9. NoOrphanJob'
      BY <1>c, <3>1, <3>3, <3>4 DEF NoOrphanJob, Up, ActiveJobs, k
    <3> QED
      BY <3>5, <3>6, <3>7, <3>8, <3>9 DEF JobInv
  <2> QED
    BY <1>4, <2>1, <2>2, <2>3 DEF Serve
<1>5. ASSUME NEW j \in JobId, Run(j) \/ Break(j)
      PROVE  JobInv'
  <2> DEFINE w == worker[j]
  <2>a. w \in Worker
    BY <1>b
  <2>1. CASE MarkRunning(j)
    <3>1. /\ worker[j].pc = "scheduled" /\ UNCHANGED <<nextJob, boot, req, spent>>
          /\ worker'[j].pc = "fetch"
          /\ \A k \in JobId : k # j => worker'[k] = worker[k]
      BY <1>b, <2>1 DEF MarkRunning, OnlyWorker, NoWorker
    <3>2. \A k \in JobId : jobs'[k].status = IF k = j THEN "running" ELSE jobs[k].status
      BY <1>a, <2>1, Statuses DEF MarkRunning
    <3>3. ~(j >= nextJob) /\ Up
      BY <1>c, <3>1 DEF UnusedJobs, NothingRunsUntilUp
    <3>4. UnusedJobs'
      BY <1>c, <3>1, <3>2, <3>3 DEF UnusedJobs
    <3>5. NothingRunsUntilUp'
      BY <3>1, <3>3 DEF NothingRunsUntilUp, Up
    <3>6. ScheduledOnce'
      BY <1>c, <3>1, <3>2 DEF ScheduledOnce
    <3>7. StatusMatchesThread'
      BY <1>c, <3>1, <3>2 DEF StatusMatchesThread
    <3>8. NoOrphanJob'
      BY <1>c, <3>1, <3>2 DEF NoOrphanJob, Up, ActiveJobs
    <3> QED
      BY <3>4, <3>5, <3>6, <3>7, <3>8 DEF JobInv
  <2>2. ASSUME NEW v, OnlyWorker(j, v), UNCHANGED <<jobs, spent>>,
               w.pc \in Busy, v.pc \in Busy
        PROVE  JobInv'
    BY <2>2, ThreadGoesOn
  <2>3. CASE FetchBatch(j)
    <3> DEFINE batch == FetchMissingGeom(land, BatchSize, w.afterId)
               v == [w EXCEPT !.batch = batch,
                              !.pc = IF batch = {} THEN "check" ELSE "call"]
    <3>1. OnlyWorker(j, v) /\ UNCHANGED <<jobs, spent>> /\ w.pc \in Busy
      BY <2>3 DEF FetchBatch, Busy, Collecting, InPass
    <3> HIDE DEF batch
    <3>2. v.pc \in Busy
      BY <2>a DEF Worker, Busy, Collecting, InPass
    <3> QED
      BY <2>2, <3>1, <3>2
  <2>4. CASE CallFinds(j) \/ CallFindsNothing(j) \/ WriteGeom(j)
    <3>1. \A item : /\ AfterItem(w, item).pc \in Busy
                    /\ AfterItem(Asked(w, item), item).pc \in Busy
                    /\ [Asked(w, item) EXCEPT !.pc = "write"].pc \in Busy
                    /\ [AfterItem(w, item) EXCEPT !.updated = @ + 1].pc \in Busy
      BY <2>a DEF AfterItem, Asked, Worker, Busy, Collecting, InPass
    <3>2. /\ w.pc \in Busy /\ UNCHANGED <<jobs, spent>>
          /\ \E v : OnlyWorker(j, v) /\ v.pc \in Busy
      BY <2>4, <3>1 DEF CallFinds, CallFindsNothing, WriteGeom, Busy, Collecting, InPass
    <3> QED
      BY <2>2, <3>2
  <2>5. CASE EndPass(j) \/ CountFailed(j)
    <3>1. /\ w.pc \in Busy /\ UNCHANGED <<jobs, spent>>
          /\ \E v : OnlyWorker(j, v) /\ v.pc \in Busy
      <4> DEFINE next  == [w EXCEPT !.pc = "fetch", !.attempt = @ + 1,
                                    !.afterId = 0, !.tried = {}]
                 total == [w EXCEPT !.pc = "total"]
                 end   == [w EXCEPT !.pc = "finish", !.failed = CountMissingGeom(land)]
      <4>1. next.pc \in Busy /\ total.pc \in Busy /\ end.pc \in Busy
        BY <2>a DEF Worker, Busy, Collecting, InPass
      <4>2. OnlyWorker(j, next) \/ OnlyWorker(j, total) \/ OnlyWorker(j, end)
        BY <2>5 DEF EndPass, CountFailed
      <4>3. w.pc \in Busy /\ UNCHANGED <<jobs, spent>>
        BY <2>5 DEF EndPass, CountFailed, Busy, Collecting
      <4> HIDE DEF next, total, end
      <4> QED
        BY <4>1, <4>2, <4>3
    <3> QED
      BY <2>2, <3>1
  <2>6. CASE MarkDone(j) \/ MarkFailed(j)
    <3>1. OnlyWorker(j, NoWorker) /\ worker[j].pc # "off" /\ UNCHANGED spent
      BY <2>6 DEF MarkDone, MarkFailed
    <3>2. /\ jobs'[j].status \in TerminalStatus
          /\ \A k \in JobId : k # j => jobs'[k].status = jobs[k].status
      BY <1>a, <2>6, Statuses DEF MarkDone, MarkFailed, TerminalStatus
    <3> QED
      BY <3>1, <3>2, ThreadLeaves
  <2>7. CASE CollectingFails(j) \/ MarkDoneFails(j)
    <3>1. /\ w.pc \in Busy /\ UNCHANGED jobs /\ SpendFault
          /\ \E v : OnlyWorker(j, v) /\ v.pc \in Busy
      BY <2>a, <2>7 DEF CollectingFails, MarkDoneFails, Worker, NoWorker, Busy
    <3> QED
      BY <1>a, <3>1, FaultsGrow, ThreadGoesOn
  <2>8. CASE ThreadDies(j)
    <3>1. /\ OnlyWorker(j, NoWorker) /\ worker[j].pc # "off"
          /\ UNCHANGED jobs /\ SpendFault
      BY <2>8 DEF ThreadDies
    <3> QED
      BY <1>a, <3>1, FaultsGrow, ThreadLeaves
  <2> QED
    BY <1>5, <2>1, <2>3, <2>4, <2>5, <2>6, <2>7, <2>8 DEF Run, Break
<1>6. CASE Quiet \/ UNCHANGED vars
  BY <1>c, <1>6 DEF Quiet, vars, JobInv, UnusedJobs, NothingRunsUntilUp, ScheduledOnce,
                    StatusMatchesThread, NoOrphanJob, Up
<1> QED
  BY <1>1, <1>2, <1>3, <1>4, <1>5, <1>6 DEF Next, Start

(* The status of a job never lies about its thread: whatever the schedule,  *)
(* a crash or a database error, a job shown as ended has no thread left     *)
(* that would go on writing rows (run_geom_update_job).                     *)
THEOREM StatusIsHonest == Spec => []StatusMatchesThread
<1>1. JobInv => StatusMatchesThread
  BY DEF JobInv
<1> QED
  BY InitIInv, StepIInv, InitJobInv, StepJobInv, <1>1, PTL DEF Spec

(* Without database errors no job is left that nobody runs: a crash between *)
(* the commit of a job and the start of its thread is healed by             *)
(* recover_interrupted_geom_jobs.                                           *)
THEOREM NoJobIsOrphaned == Spec => []NoOrphanJob
<1>1. JobInv => NoOrphanJob
  BY DEF JobInv
<1> QED
  BY InitIInv, StepIInv, InitJobInv, StepJobInv, <1>1, PTL DEF Spec

-----------------------------------------------------------------------------
(* The refinement: what each step does to the life cycle of the jobs. *)

LEMMA InitLifecycle == Init => Lifecycle!LInit
BY DEF Init, AbsentJob, Lifecycle!LInit, JobId, Lifecycle!JobId

LEMMA StepLifecycle ==
    IInv /\ JobInv /\ [Next]_vars => [Lifecycle!LNext]_(Lifecycle!lifecycleVars)
<1> SUFFICES ASSUME IInv, JobInv, [Next]_vars
             PROVE  \/ Lifecycle!LNext
                    \/ UNCHANGED Lifecycle!lifecycleVars
  OBVIOUS
<1> DEFINE statuses == [j \in JobId |-> jobs[j].status]
           count    == nextJob - 1
<1>a. TypeOK /\ nextJob \in Nat \ {0} /\ JobId = 1 .. MaxJobs
  BY DEF IInv, TypeOK, JobId
<1>c. TypeOK
  BY DEF IInv
<1>b. StatusMatchesThread
  BY DEF JobInv
<1>d. /\ Lifecycle!JobId = JobId
      /\ Lifecycle!ActiveStatus = ActiveStatus /\ Lifecycle!TerminalStatus = TerminalStatus
  BY DEF JobId, Lifecycle!JobId, ActiveStatus, Lifecycle!ActiveStatus,
         TerminalStatus, Lifecycle!TerminalStatus
<1>1. ASSUME UNCHANGED <<jobs, nextJob>>
      PROVE  UNCHANGED Lifecycle!lifecycleVars
  BY <1>1 DEF Lifecycle!lifecycleVars
<1>2. CASE Recover
  <2>1. \A j \in JobId : MarkStaleInterrupted(jobs)[j].status =
                          IF statuses[j] \in ActiveStatus THEN "failed" ELSE statuses[j]
    BY <1>c, Statuses
  <2>2. CASE ActiveJobs(jobs) # {} /\ CountMissingGeom(land) > 0
    <3>1. /\ nextJob \in JobId /\ nextJob' = nextJob + 1
          /\ jobs' = CreateJob(MarkStaleInterrupted(jobs), nextJob)
      BY <1>2, <2>2 DEF Recover
    <3>2. \A j \in JobId : jobs'[j].status =
              IF j = nextJob THEN "pending"
              ELSE IF statuses[j] \in ActiveStatus THEN "failed" ELSE statuses[j]
      BY <1>c, <2>1, <3>1, Statuses
    <3>3. count' = count + 1 /\ count' = nextJob
      BY <1>a, <3>1
    <3>4. statuses' = [Lifecycle!Ended EXCEPT ![count'] = "pending"]
      BY <1>d, <3>2, <3>3 DEF Lifecycle!Ended
    <3>5. \E j \in JobId : statuses[j] \in ActiveStatus
      BY <2>2 DEF ActiveJobs
    <3> QED
      BY <1>d, <3>3, <3>4, <3>5 DEF Lifecycle!LNext, Lifecycle!Restart
  <2>3. CASE ~(ActiveJobs(jobs) # {} /\ CountMissingGeom(land) > 0)
    <3>1. jobs' = MarkStaleInterrupted(jobs) /\ count' = count
      BY <1>2, <2>3 DEF Recover
    <3>2. statuses' = Lifecycle!Ended
      BY <1>d, <2>1, <3>1 DEF Lifecycle!Ended
    <3> QED
      BY <3>1, <3>2 DEF Lifecycle!LNext, Lifecycle!Restart
  <2> QED
    BY <2>2, <2>3
<1>3. ASSUME NEW t \in Threads, Enqueue(t)
      PROVE  Lifecycle!LNext
  <2>1. nextJob \in JobId /\ count' = count + 1 /\ count' = nextJob
    BY <1>a, <1>3 DEF Enqueue
  <2>2. \A j \in JobId :
            jobs'[j].status = IF j = nextJob THEN "pending" ELSE jobs[j].status
    BY <1>c, <1>3, <2>1, Statuses DEF Enqueue
  <2>3. statuses' = [statuses EXCEPT ![count'] = "pending"]
    BY <2>1, <2>2
  <2> QED
    BY <2>1, <2>3 DEF Lifecycle!LNext, Lifecycle!Create
<1>4. ASSUME NEW j \in JobId, MarkRunning(j)
      PROVE  Lifecycle!LNext
  <2>1. statuses[j] = "pending"
    BY <1>b, <1>4 DEF MarkRunning, StatusMatchesThread
  <2>2. count' = count
    BY <1>4 DEF MarkRunning, OnlyWorker
  <2>3. statuses' = [statuses EXCEPT ![j] = "running"]
    BY <1>c, <1>4, Statuses DEF MarkRunning
  <2> QED
    BY <1>d, <2>1, <2>2, <2>3 DEF Lifecycle!LNext, Lifecycle!Begin
<1>5. ASSUME NEW j \in JobId, MarkDone(j) \/ MarkFailed(j)
      PROVE  Lifecycle!LNext
  <2>1. statuses[j] = "running"
    BY <1>b, <1>5 DEF MarkDone, MarkFailed, StatusMatchesThread
  <2>2. count' = count
    BY <1>5 DEF MarkDone, MarkFailed, OnlyWorker
  <2>3. \E outcome \in TerminalStatus : statuses' = [statuses EXCEPT ![j] = outcome]
    <3>1. PICK outcome \in TerminalStatus :
              jobs' = FinishJob(jobs, j, outcome, worker[j].updated, worker[j].failed)
      BY <1>5 DEF MarkDone, MarkFailed, TerminalStatus
    <3>2. \A k \in JobId : jobs'[k].status = IF k = j THEN outcome ELSE jobs[k].status
      BY <1>c, <3>1, Statuses
    <3>3. statuses' = [statuses EXCEPT ![j] = outcome]
      BY <3>2
    <3> QED
      BY <3>3
  <2> QED
    BY <1>d, <2>1, <2>2, <2>3 DEF Lifecycle!LNext, Lifecycle!End
<1>6. ASSUME NEW t \in Threads,
             Accept(t) \/ UploadReplace(t) \/ Schedule(t) \/ RequestFails(t)
      PROVE  UNCHANGED <<jobs, nextJob>>
  BY <1>6 DEF Accept, RefreshCheck, UploadRead, UploadReplace, Schedule, RequestFails
<1>7. ASSUME NEW j \in JobId,
             \/ FetchBatch(j) \/ CallFinds(j) \/ CallFindsNothing(j)
             \/ WriteGeom(j) \/ EndPass(j) \/ CountFailed(j) \/ Break(j)
      PROVE  UNCHANGED <<jobs, nextJob>>
  BY <1>7 DEF FetchBatch, CallFinds, CallFindsNothing, WriteGeom, EndPass, CountFailed,
              Break, CollectingFails, MarkDoneFails, ThreadDies, OnlyWorker
<1>8. CASE Seed \/ Crash \/ Quiet \/ UNCHANGED vars
  BY <1>1, <1>8 DEF Seed, Crash, Quiet, vars
<1> QED
  BY <1>1, <1>2, <1>3, <1>4, <1>5, <1>6, <1>7, <1>8 DEF Next, Start, Serve, Run

(* The jobs of the program, their threads, transactions and crashes left    *)
(* out, behave as RISK-003 promises: every job is begun once, ends once,    *)
(* and a restart ends what was unfinished.                                  *)
THEOREM RefinesLifecycle == Spec => ImplementsLifecycle
<1>1. Spec => [](IInv /\ JobInv)
  BY InitIInv, StepIInv, InitJobInv, StepJobInv, PTL DEF Spec
<1> QED
  BY <1>1, InitLifecycle, StepLifecycle, PTL
     DEF Spec, ImplementsLifecycle, Lifecycle!LSpec

-----------------------------------------------------------------------------
(* What is collected stays. *)

LEMMA StepCollectedStays ==
    ASSUME IInv, [Next]_vars
    PROVE  \/ \A r \in land : r.geom # NoGeom => r \in land'
           \/ \A r \in land' : r.id >= nextLand
<1>a. TypeOK /\ GeomMatchesAddress /\ BatchMatchesLand
  BY DEF IInv
<1>1. CASE UNCHANGED land
  BY <1>1
<1>2. CASE Seed
  BY <1>1, <1>2 DEF Seed
<1>3. ASSUME NEW t \in Threads, UploadReplace(t)
      PROVE  \A r \in land' : r.id >= nextLand
  <2> DEFINE sheet == req[t].sheet
             rows  == [i \in DOMAIN sheet |->
                          [addr |-> sheet[i], geom |-> req[t].known[sheet[i]]]]
  <2>1. land' = InsertLands(rows, nextLand)
    BY <1>3 DEF UploadReplace
  <2>2. DOMAIN rows \subseteq Nat \ {0} /\ nextLand \in Nat
    <3>1. sheet \in Seq(Address)
      BY <1>a DEF TypeOK, Request
    <3>2. DOMAIN sheet = 1 .. Len(sheet)
      BY <3>1
    <3> QED
      BY <1>a, <3>2 DEF TypeOK
  <2> HIDE DEF rows
  <2> QED
    BY <2>1, <2>2 DEF InsertLands
<1>4. ASSUME NEW j \in JobId, WriteGeom(j)
      PROVE  \A r \in land : r.geom # NoGeom => r \in land'
  <2> PICK item \in worker[j].batch : land' = UpdateGeom(land, item.id, item.addr)
    BY <1>4 DEF WriteGeom
  <2> SUFFICES ASSUME NEW r \in land, r.geom # NoGeom
               PROVE  r \in land'
    OBVIOUS
  <2>1. (IF r.id = item.id THEN [r EXCEPT !.geom = item.addr] ELSE r) \in land'
    BY DEF UpdateGeom
  <2>2. CASE r.id = item.id
    <3>1. r.geom = item.addr
      BY <1>a, <2>2 DEF GeomMatchesAddress, BatchMatchesLand
    <3>2. [r EXCEPT !.geom = item.addr] = r
      BY <1>a, <3>1 DEF TypeOK, LandRow
    <3> QED
      BY <2>1, <2>2, <3>2
  <2> QED
    BY <2>1, <2>2
<1>5. ASSUME NEW t \in Threads, Accept(t) \/ Enqueue(t) \/ Schedule(t) \/ RequestFails(t)
      PROVE  UNCHANGED land
  BY <1>5 DEF Accept, RefreshCheck, UploadRead, Enqueue, Schedule, RequestFails
<1>6. ASSUME NEW j \in JobId,
             \/ MarkRunning(j) \/ FetchBatch(j) \/ CallFinds(j) \/ CallFindsNothing(j)
             \/ EndPass(j) \/ CountFailed(j) \/ MarkDone(j) \/ MarkFailed(j) \/ Break(j)
      PROVE  UNCHANGED land
  BY <1>6 DEF MarkRunning, FetchBatch, CallFinds, CallFindsNothing, EndPass, CountFailed,
              MarkDone, MarkFailed, Break, CollectingFails, MarkDoneFails, ThreadDies
<1>7. CASE Recover \/ Crash \/ Quiet \/ UNCHANGED vars
  BY <1>1, <1>7 DEF Recover, Crash, Quiet, vars
<1> QED
  BY <1>1, <1>2, <1>3, <1>4, <1>5, <1>6, <1>7 DEF Next, Start, Serve, Run

(* No job, recovery or seed blanks or changes a boundary that was collected *)
(* (update_geom, seed_lands_if_empty).                                      *)
THEOREM CollectedIsKept == Spec => CollectedStays
<1>1. IInv /\ [Next]_vars =>
          [\/ \A r \in land : r.geom # NoGeom => r \in land'
           \/ \A r \in land' : r.id >= nextLand]_vars
  BY StepCollectedStays
<1> QED
  BY InitIInv, StepIInv, <1>1, PTL DEF Spec, CollectedStays

-----------------------------------------------------------------------------
(* The land table as others see it: GeomPipeline implements ParcelTable. *)

(* The ids of inserted rows are the next ones, without a gap. *)
LEMMA InsertedIds ==
    ASSUME NEW rows \in Seq(NewRow), NEW next \in Nat \ {0}
    PROVE  {r.id : r \in InsertLands(rows, next)} = next .. next + Len(rows) - 1
<1>1. DOMAIN rows = 1 .. Len(rows) /\ Len(rows) \in Nat
  OBVIOUS
<1>2. ASSUME NEW r \in InsertLands(rows, next)
      PROVE  r.id \in next .. next + Len(rows) - 1
  <2>1. PICK i \in 1 .. Len(rows) :
            r = [id |-> next + i - 1, addr |-> rows[i].addr, geom |-> rows[i].geom]
    BY <1>1 DEF InsertLands
  <2>2. r.id = next + i - 1
    BY <2>1
  <2> QED
    BY <1>1, <2>2
<1>3. ASSUME NEW id \in next .. next + Len(rows) - 1
      PROVE  \E r \in InsertLands(rows, next) : r.id = id
  <2> DEFINE i == id - next + 1
             r == [id |-> next + i - 1, addr |-> rows[i].addr, geom |-> rows[i].geom]
  <2>1. i \in 1 .. Len(rows) /\ id = next + i - 1
    BY <1>1
  <2>2. r \in InsertLands(rows, next) /\ r.id = id
    <3> HIDE DEF i
    <3> QED
      BY <1>1, <2>1 DEF InsertLands
  <2> HIDE DEF r
  <2> QED
    BY <2>2
<1> QED
  BY <1>2, <1>3

(* A job writes a boundary: to the row that lacks it, or nothing changes.   *)
LEMMA WriteLocates ==
    ASSUME IInv, NEW j \in JobId, WriteGeom(j)
    PROVE  Parcels!PNext \/ UNCHANGED Parcels!tableVars
<1> PICK item \in worker[j].batch : land' = UpdateGeom(land, item.id, item.addr)
  BY DEF WriteGeom
<1>1. nextLand' = nextLand
  BY DEF WriteGeom, OnlyWorker
<1>2. /\ land \subseteq LandRow /\ GeomMatchesAddress
      /\ \A r, q \in land : r.id = q.id => r = q
      /\ \A r \in land : r.id = item.id => r.addr = item.addr
  BY DEF IInv, TypeOK, LandIds, BatchMatchesLand
<1>3. CASE \E r \in MissingGeom(land) : r.id = item.id
  <2> PICK r \in MissingGeom(land) : r.id = item.id
    BY <1>3
  <2>1. r \in land /\ r.addr = item.addr
    BY <1>2 DEF MissingGeom
  <2>2. land' = (land \ {r}) \cup {[r EXCEPT !.geom = r.addr]}
    <3>1. \A q \in land : q.id = item.id <=> q = r
      BY <1>2, <2>1
    <3>2. land' = {IF q = r THEN [r EXCEPT !.geom = r.addr] ELSE q : q \in land}
      BY <2>1, <3>1 DEF UpdateGeom
    <3> QED
      BY <2>1, <3>2
  <2> QED
    BY <1>1, <2>2 DEF Parcels!PNext, Parcels!Locate, Parcels!MissingGeom, MissingGeom
<1>4. CASE ~ \E r \in MissingGeom(land) : r.id = item.id
  <2>1. ASSUME NEW r \in land
        PROVE  (IF r.id = item.id THEN [r EXCEPT !.geom = item.addr] ELSE r) = r
    <3>1. CASE r.id = item.id
      <4>1. r.geom = item.addr
        BY <1>2, <1>4, <3>1 DEF MissingGeom, GeomMatchesAddress
      <4> QED
        BY <1>2, <3>1, <4>1 DEF LandRow
    <3> QED
      BY <3>1
  <2>2. land' = land
    BY <2>1 DEF UpdateGeom
  <2> QED
    BY <1>1, <2>2 DEF Parcels!tableVars
<1> QED
  BY <1>3, <1>4

LEMMA StepParcels ==
    ASSUME IInv, IInv', [Next]_vars
    PROVE  Parcels!PNext \/ UNCHANGED Parcels!tableVars
<1>a. TypeOK /\ nextLand \in Nat \ {0}
  BY DEF IInv, TypeOK
<1>1. ASSUME UNCHANGED <<land, nextLand>>
      PROVE  UNCHANGED Parcels!tableVars
  BY <1>1 DEF Parcels!tableVars
<1>2. ASSUME NEW rows \in Seq(NewRow),
             land' = InsertLands(rows, nextLand), nextLand' = nextLand + Len(rows)
      PROVE  Parcels!PNext
  <2>1. nextLand' >= nextLand /\ {r.id : r \in land'} = nextLand .. nextLand' - 1
    <3>1. Len(rows) \in Nat
      OBVIOUS
    <3> QED
      BY <1>a, <1>2, <3>1, InsertedIds
  <2>2. /\ \A r, q \in land' : r.id = q.id => r = q
        /\ \A r \in land' : r.geom \in {NoGeom, r.addr}
        /\ land' \subseteq LandRow /\ nextLand' \in Nat
    BY DEF IInv, TypeOK, LandIds, GeomMatchesAddress
  <2> QED
    BY <2>1, <2>2 DEF Parcels!PNext, Parcels!Replace, Parcels!LandRow, LandRow, Parcels!Boundary, Boundary
<1>3. CASE Seed
  <2>1. SeedRows \in Seq(NewRow)
    BY PipelineAssumption
  <2> QED
    BY <1>1, <1>2, <1>3, <2>1 DEF Seed
<1>4. ASSUME NEW t \in Threads, UploadReplace(t)
      PROVE  Parcels!PNext
  <2> DEFINE sheet == req[t].sheet
             rows  == [i \in DOMAIN sheet |->
                          [addr |-> sheet[i], geom |-> req[t].known[sheet[i]]]]
  <2>1. /\ land' = InsertLands(rows, nextLand) /\ nextLand' = nextLand + Len(sheet)
        /\ sheet \in Seq(Address) /\ req[t].known \in [Address -> Boundary]
    BY <1>a, <1>4 DEF UploadReplace, TypeOK, Request
  <2>2. rows \in Seq(NewRow) /\ Len(rows) = Len(sheet)
    <3> HIDE DEF sheet
    <3>1. DOMAIN sheet = 1 .. Len(sheet) /\ Len(sheet) \in Nat
      BY <2>1
    <3>2. \A i \in 1 .. Len(sheet) : rows[i] \in NewRow
      BY <2>1, <3>1 DEF NewRow
    <3> QED
      BY <3>1, <3>2
  <2> HIDE DEF rows, sheet
  <2> QED
    BY <1>2, <2>1, <2>2
<1>5. ASSUME NEW t \in Threads, Accept(t) \/ Enqueue(t) \/ Schedule(t) \/ RequestFails(t)
      PROVE  UNCHANGED <<land, nextLand>>
  BY <1>5 DEF Accept, RefreshCheck, UploadRead, Enqueue, Schedule, RequestFails
<1>6. ASSUME NEW j \in JobId,
             \/ MarkRunning(j) \/ FetchBatch(j) \/ CallFinds(j) \/ CallFindsNothing(j)
             \/ EndPass(j) \/ CountFailed(j) \/ MarkDone(j) \/ MarkFailed(j) \/ Break(j)
      PROVE  UNCHANGED <<land, nextLand>>
  BY <1>6 DEF MarkRunning, FetchBatch, CallFinds, CallFindsNothing, EndPass, CountFailed,
              MarkDone, MarkFailed, Break, CollectingFails, MarkDoneFails, ThreadDies,
              OnlyWorker
<1>7. CASE Recover \/ Crash \/ Quiet \/ UNCHANGED vars
  BY <1>1, <1>7 DEF Recover, Crash, Quiet, vars
<1> QED
  BY WriteLocates, <1>1, <1>3, <1>4, <1>5, <1>6, <1>7 DEF Next, Start, Serve, Run

(* Whatever uploads, jobs and restarts do, a row keeps its id and address   *)
(* until the table is replaced, and changes only by receiving the boundary  *)
(* that it lacks; no id is given twice.                                     *)
THEOREM KeepsParcels == Spec => ImplementsParcels
<1>1. Init => Parcels!PInit
  BY DEF Init, Parcels!PInit
<1>2. IInv /\ IInv' /\ [Next]_vars => [Parcels!PNext]_(Parcels!tableVars)
  BY StepParcels
<1> QED
  BY InitIInv, StepIInv, <1>1, <1>2, PTL DEF Spec, ImplementsParcels, Parcels!PSpec

-----------------------------------------------------------------------------
(* ORDER BY id LIMIT n. *)

IsFirst(m, rows) == m \in rows /\ \A q \in rows : m.id <= q.id

(* A finite table has a first row: the one with the fewest rows up to it. *)
LEMMA FirstRow ==
    ASSUME NEW rows, IsFiniteSet(rows), rows # {}, \A r \in rows : r.id \in Nat
    PROVE  \E m : IsFirst(m, rows)
<1> DEFINE upTo(r) == {q \in rows : q.id <= r.id}
           family == {upTo(r) : r \in rows}
           R == StrictSubsetOrdering(rows)
<1>1. IsWellFoundedOn(R, SUBSET rows)
  BY FS_StrictSubsetOrderingWellFounded, FS_FiniteSubsetsOfFinite
<1>2. family \subseteq SUBSET rows /\ family # {}
  OBVIOUS
<1>3. PICK T \in family : \A U \in family : ~(<<U, T>> \in R)
  <2> HIDE DEF R, family
  <2> QED
    BY <1>1, <1>2, WFMin
<1>4. PICK m \in rows : T = upTo(m)
  OBVIOUS
<1>5. ASSUME NEW q \in rows, q.id < m.id
      PROVE  FALSE
  <2>1. upTo(q) \in family
    OBVIOUS
  <2>2. upTo(q) \subseteq T
    BY <1>4, <1>5
  <2>3. m \in T /\ m \notin upTo(q)
    BY <1>4, <1>5
  <2>4. <<upTo(q), T>> \in R
    BY <1>2, <2>1, <2>2, <2>3 DEF StrictSubsetOrdering
  <2> QED
    BY <1>3, <2>1, <2>4
<1>6. \A q \in rows : m.id <= q.id
  BY <1>5
<1> QED
  BY <1>6 DEF IsFirst

(* The rows of a page have no row outside the page between them, and a page *)
(* is empty only when there is nothing left to select.                      *)
LEMMA PageIsInitial ==
    ASSUME NEW rows, IsFiniteSet(rows), \A r \in rows : r.id \in Nat,
           NEW n \in Nat \ {0}
    PROVE  /\ \A p \in FirstById(rows, n) : \A r \in rows :
                 r.id <= p.id => r \in FirstById(rows, n)
           /\ FirstById(rows, n) = {} => rows = {}
<1> DEFINE below(r) == {q \in rows : q.id < r.id}
<1>1. \A r \in rows : IsFiniteSet(below(r)) /\ Cardinality(below(r)) \in Nat
  <2> TAKE r \in rows
  <2>1. below(r) \subseteq rows
    OBVIOUS
  <2>2. IsFiniteSet(below(r))
    BY <2>1, FS_Subset
  <2> HIDE DEF below
  <2> QED
    BY <2>2, FS_CardinalityType
<1>2. ASSUME NEW p \in FirstById(rows, n), NEW r \in rows, r.id <= p.id
      PROVE  r \in FirstById(rows, n)
  <2>1. p \in rows /\ Cardinality(below(p)) < n
    BY DEF FirstById
  <2>2. below(r) \subseteq below(p)
    BY <1>2, <2>1
  <2>3. Cardinality(below(r)) <= Cardinality(below(p))
    <3> HIDE DEF below
    <3> QED
      BY <1>1, <2>1, <2>2, FS_Subset
  <2>4. Cardinality(below(r)) < n
    <3> HIDE DEF below
    <3> QED
      BY <1>1, <2>1, <2>3
  <2> QED
    BY <2>4 DEF FirstById
<1>3. ASSUME rows # {}
      PROVE  FirstById(rows, n) # {}
  <2>1. PICK m : IsFirst(m, rows)
    BY <1>3, FirstRow
  <2>2. m \in rows /\ below(m) = {}
    BY <2>1 DEF IsFirst
  <2>3. Cardinality(below(m)) = 0
    BY <2>2, FS_EmptySet
  <2> QED
    BY <2>2, <2>3 DEF FirstById
<1> QED
  BY <1>2, <1>3

(* The same of fetch_missing_geom. *)
LEMMA FetchedInOrder ==
    ASSUME TypeOK, LandIds, NEW after \in Nat
    PROVE  LET batch == FetchMissingGeom(land, BatchSize, after)
           IN  /\ \A item \in batch : after < item.id
               /\ \A item \in batch : \A r \in MissingGeom(land) :
                     after < r.id /\ r.id <= item.id => \E i \in batch : i.id = r.id
               /\ batch = {} => \A r \in MissingGeom(land) : r.id <= after
<1> DEFINE rows == {q \in MissingGeom(land) : q.id > after}
           part == FirstById(rows, BatchSize)
           batch == FetchMissingGeom(land, BatchSize, after)
<1>1. IsFiniteSet(rows)
  <2>1. rows \subseteq land
    BY DEF MissingGeom
  <2> QED
    BY <2>1, LandIsFinite, FS_Subset
<1>2. \A r \in MissingGeom(land) : r.id \in Nat
  BY DEF MissingGeom, TypeOK, LandRow
<1>3. /\ \A p \in part : \A r \in rows : r.id <= p.id => r \in part
      /\ part = {} => rows = {}
  <2>1. \A r \in rows : r.id \in Nat
    BY <1>2
  <2> HIDE DEF rows
  <2> QED
    BY <1>1, <2>1, PageIsInitial, PipelineAssumption
<1>4. batch = {[id |-> r.id, addr |-> r.addr] : r \in part}
  BY DEF FetchMissingGeom
<1>5. part \subseteq rows
  BY DEF FirstById
<1>6. ASSUME NEW item \in batch
      PROVE  after < item.id
  <2>1. PICK r \in part : item.id = r.id
    BY <1>4
  <2>2. r \in MissingGeom(land) /\ r.id > after
    BY <1>5, <2>1
  <2> QED
    BY <1>2, <2>1, <2>2
<1>7. ASSUME NEW item \in batch, NEW r \in MissingGeom(land),
             after < r.id, r.id <= item.id
      PROVE  \E i \in batch : i.id = r.id
  <2>1. PICK p \in part : item.id = p.id
    BY <1>4
  <2>2. r \in rows
    BY <1>2, <1>7
  <2>3. r \in part
    BY <1>3, <1>7, <2>1, <2>2
  <2>4. [id |-> r.id, addr |-> r.addr] \in batch
    BY <1>4, <2>3
  <2> QED
    BY <2>4
<1>8. batch = {} => \A r \in MissingGeom(land) : r.id <= after
  <2>1. part # {} => batch # {}
    <3> HIDE DEF batch
    <3> QED
      BY <1>4
  <2>2. batch = {} => rows = {}
    BY <1>3, <2>1
  <2>3. rows = {} => \A r \in MissingGeom(land) : r.id <= after
    BY <1>2
  <2> QED
    BY <2>2, <2>3
<1> QED
  BY <1>6, <1>7, <1>8

-----------------------------------------------------------------------------
(* The cursor of a pass. *)

PositiveIds == \A r \in land : r.id > 0

(* A pass has asked about each row it has left behind. *)
PassedRowsWereTried(w, table, next) ==
    w.pc \in InPass =>
        /\ w.afterId < next
        /\ \A r \in MissingGeom(table) : r.id <= w.afterId => r.id \in w.tried

(* The batch holds every row that comes next. *)
BatchIsNext(w, table) ==
    w.pc \in {"call", "write"} =>
        \A item \in w.batch :
            /\ w.afterId <= item.id
            /\ \A r \in MissingGeom(table) :
                  w.afterId < r.id /\ r.id <= item.id => \E i \in w.batch : i.id = r.id

(* The row that is written is the one the cursor is at. *)
WritesAtCursor(w) ==
    w.pc = "write" =>
        \A item \in w.batch : IsNext(w.batch, item) => item.id = w.afterId

PassOf(w, table, next) ==
    /\ PassedRowsWereTried(w, table, next)
    /\ BatchIsNext(w, table)
    /\ WritesAtCursor(w)

PassInv ==
    /\ PositiveIds
    /\ \A j \in JobId : PassOf(worker[j], land, nextLand)

(* Every step keeps rows, which lack a boundary no more than before, or     *)
(* inserts rows with new ids.                                               *)
KeptOrNew(table, next, table2) ==
    \A r \in table2 :
        \/ r.id >= next
        \/ \E q \in table : q.id = r.id /\ (r.geom = NoGeom => q.geom = NoGeom)

LEMMA RowsKeptOrNew ==
    ASSUME IInv, [Next]_vars
    PROVE  nextLand <= nextLand' /\ KeptOrNew(land, nextLand, land')
<1>a. TypeOK /\ nextLand \in Nat \ {0}
  BY DEF IInv, TypeOK
<1>1. ASSUME UNCHANGED <<land, nextLand>>
      PROVE  nextLand <= nextLand' /\ KeptOrNew(land, nextLand, land')
  BY <1>a, <1>1 DEF KeptOrNew
<1>2. ASSUME NEW rows, Len(rows) \in Nat, DOMAIN rows \subseteq Nat \ {0},
             land' = InsertLands(rows, nextLand), nextLand' = nextLand + Len(rows)
      PROVE  nextLand <= nextLand' /\ KeptOrNew(land, nextLand, land')
  BY <1>a, <1>2 DEF InsertLands, KeptOrNew
<1>3. CASE Seed
  <2>1. CASE land = {}
    <3>1. Len(SeedRows) \in Nat /\ DOMAIN SeedRows \subseteq Nat \ {0}
      BY PipelineAssumption
    <3> QED
      BY <1>2, <1>3, <2>1, <3>1 DEF Seed
  <2>2. CASE land # {}
    BY <1>1, <1>3, <2>2 DEF Seed
  <2> QED
    BY <2>1, <2>2
<1>4. ASSUME NEW t \in Threads, UploadReplace(t)
      PROVE  nextLand <= nextLand' /\ KeptOrNew(land, nextLand, land')
  <2> DEFINE sheet == req[t].sheet
             rows  == [i \in DOMAIN sheet |->
                          [addr |-> sheet[i], geom |-> req[t].known[sheet[i]]]]
  <2>1. sheet \in Seq(Address)
    BY <1>a DEF TypeOK, Request
  <2>2. DOMAIN sheet = 1 .. Len(sheet) /\ Len(sheet) \in Nat
    BY <2>1
  <2>3. land' = InsertLands(rows, nextLand) /\ nextLand' = nextLand + Len(sheet)
    BY <1>4 DEF UploadReplace
  <2>4. DOMAIN rows = DOMAIN sheet /\ Len(rows) = Len(sheet)
    <3> HIDE DEF sheet
    <3> QED
      BY <2>2
  <2> HIDE DEF rows, sheet
  <2> QED
    BY <1>2, <2>2, <2>3, <2>4
<1>5. ASSUME NEW j \in JobId, WriteGeom(j)
      PROVE  nextLand <= nextLand' /\ KeptOrNew(land, nextLand, land')
  <2> PICK item \in worker[j].batch : land' = UpdateGeom(land, item.id, item.addr)
    BY <1>5 DEF WriteGeom
  <2>1. nextLand' = nextLand
    BY <1>5 DEF WriteGeom, OnlyWorker
  <2>2. land \subseteq LandRow /\ item.addr \in Address /\ item.addr # NoGeom
    BY <1>a, NoGeomIsNoAddress DEF TypeOK, Worker, LandItem
  <2>3. ASSUME NEW r \in land'
        PROVE  \E q \in land : q.id = r.id /\ (r.geom = NoGeom => q.geom = NoGeom)
    <3>1. PICK q \in land :
              r = IF q.id = item.id THEN [q EXCEPT !.geom = item.addr] ELSE q
      BY <2>3 DEF UpdateGeom
    <3>2. q \in LandRow
      BY <2>2
    <3>3. CASE q.id = item.id
      BY <2>2, <3>1, <3>2, <3>3 DEF LandRow
    <3>4. CASE q.id # item.id
      BY <3>1, <3>4
    <3> QED
      BY <3>3, <3>4
  <2> QED
    BY <1>a, <2>1, <2>3 DEF KeptOrNew
<1>6. ASSUME NEW t \in Threads, Accept(t) \/ Enqueue(t) \/ Schedule(t) \/ RequestFails(t)
      PROVE  UNCHANGED <<land, nextLand>>
  BY <1>6 DEF Accept, RefreshCheck, UploadRead, Enqueue, Schedule, RequestFails
<1>7. ASSUME NEW j \in JobId,
             \/ MarkRunning(j) \/ FetchBatch(j) \/ CallFinds(j) \/ CallFindsNothing(j)
             \/ EndPass(j) \/ CountFailed(j) \/ MarkDone(j) \/ MarkFailed(j) \/ Break(j)
      PROVE  UNCHANGED <<land, nextLand>>
  BY <1>7 DEF MarkRunning, FetchBatch, CallFinds, CallFindsNothing, EndPass, CountFailed,
              MarkDone, MarkFailed, Break, CollectingFails, MarkDoneFails, ThreadDies,
              OnlyWorker
<1>8. CASE Recover \/ Crash \/ Quiet \/ UNCHANGED vars
  BY <1>1, <1>8 DEF Recover, Crash, Quiet, vars
<1> QED
  BY <1>1, <1>3, <1>4, <1>5, <1>6, <1>7, <1>8 DEF Next, Start, Serve, Run

(* What a thread knows of the table stays true of the next one. *)
LEMMA PassStays ==
    ASSUME NEW w \in Worker, NEW table \in SUBSET LandRow, NEW table2 \in SUBSET LandRow,
           NEW next \in Nat, NEW next2 \in Nat, next <= next2,
           KeptOrNew(table, next, table2),
           \A item \in w.batch : item.id < next,
           PassOf(w, table, next)
    PROVE  PassOf(w, table2, next2)
<1>a. w.afterId \in Nat /\ \A item \in w.batch : item.id \in Nat
  BY DEF Worker, LandItem
<1>b. \A r \in MissingGeom(table2) :
          /\ r.id \in Nat
          /\ r.id >= next \/ \E q \in MissingGeom(table) : q.id = r.id
  BY DEF KeptOrNew, MissingGeom, LandRow
<1>1. PassedRowsWereTried(w, table2, next2)
  <2> SUFFICES ASSUME w.pc \in InPass
               PROVE  /\ w.afterId < next2
                      /\ \A r \in MissingGeom(table2) :
                            r.id <= w.afterId => r.id \in w.tried
    BY DEF PassedRowsWereTried
  <2>1. /\ w.afterId < next
        /\ \A r \in MissingGeom(table) : r.id <= w.afterId => r.id \in w.tried
    BY DEF PassOf, PassedRowsWereTried
  <2> QED
    BY <1>a, <1>b, <2>1
<1>2. BatchIsNext(w, table2)
  <2> SUFFICES ASSUME w.pc \in {"call", "write"}, NEW item \in w.batch
               PROVE  /\ w.afterId <= item.id
                      /\ \A r \in MissingGeom(table2) :
                            w.afterId < r.id /\ r.id <= item.id
                                => \E i \in w.batch : i.id = r.id
    BY DEF BatchIsNext
  <2>1. /\ w.afterId <= item.id
        /\ \A r \in MissingGeom(table) :
              w.afterId < r.id /\ r.id <= item.id => \E i \in w.batch : i.id = r.id
    BY DEF PassOf, BatchIsNext
  <2> QED
    BY <1>a, <1>b, <2>1
<1>3. WritesAtCursor(w)
  BY DEF PassOf
<1> QED
  BY <1>1, <1>2, <1>3 DEF PassOf

(* A thread that is in no pass has nothing to know. *)
LEMMA OutsidePass ==
    ASSUME NEW w, w.pc \notin InPass, NEW table, NEW next
    PROVE  PassOf(w, table, next)
BY DEF PassOf, PassedRowsWereTried, BatchIsNext, WritesAtCursor, InPass

(* The steps of a pass. *)
LEMMA PassAdvances ==
    ASSUME IInv, PassInv, NEW j \in JobId,
           Run(j) \/ Break(j)
    PROVE  \A k \in JobId : PassOf(worker'[k], land, nextLand)
<1> DEFINE w == worker[j]
<1>a. TypeOK /\ LandIds /\ BatchMatchesLand
  BY DEF IInv
<1>b. PositiveIds /\ PassOf(w, land, nextLand)
  BY DEF PassInv
<1>c. /\ w \in Worker /\ w.afterId \in Nat /\ w.tried \in SUBSET Nat
      /\ nextLand \in Nat \ {0}
  BY <1>a DEF TypeOK, Worker
<1>d. \A r \in MissingGeom(land) : r.id \in Nat /\ r.id > 0
  BY <1>a, <1>b DEF TypeOK, MissingGeom, LandRow, PositiveIds
<1>e. \A item \in w.batch : item.id \in Nat /\ item.id < nextLand
  BY <1>a, <1>c DEF Worker, LandItem, BatchMatchesLand
<1>1. ASSUME NEW v, OnlyWorker(j, v), PassOf(v, land, nextLand)
      PROVE  \A k \in JobId : PassOf(worker'[k], land, nextLand)
  <2>1. worker'[j] = v /\ \A k \in JobId : k # j => worker'[k] = worker[k]
    BY <1>1, <1>a DEF OnlyWorker, TypeOK
  <2> QED
    BY <1>1, <2>1 DEF PassInv
<1>2. ASSUME NEW v, OnlyWorker(j, v), v.pc \notin InPass
      PROVE  \A k \in JobId : PassOf(worker'[k], land, nextLand)
  BY <1>1, <1>2, OutsidePass
<1>3. ASSUME NEW v, OnlyWorker(j, v), v.pc = "fetch", v.afterId = 0
      PROVE  \A k \in JobId : PassOf(worker'[k], land, nextLand)
  <2>1. PassOf(v, land, nextLand)
    BY <1>3, <1>c, <1>d DEF PassOf, PassedRowsWereTried, BatchIsNext, WritesAtCursor
  <2> QED
    BY <1>1, <1>3, <2>1
<1>4. CASE MarkRunning(j)
  <2> DEFINE v == [NoWorker EXCEPT !.pc = "fetch", !.attempt = 1]
  <2>1. v.pc = "fetch" /\ v.afterId = 0
    BY DEF NoWorker
  <2>2. OnlyWorker(j, v)
    BY <1>4 DEF MarkRunning
  <2> HIDE DEF v
  <2> QED
    BY <1>3, <2>1, <2>2
<1>5. CASE FetchBatch(j)
  <2> DEFINE batch == FetchMissingGeom(land, BatchSize, w.afterId)
             v == [w EXCEPT !.batch = batch,
                            !.pc = IF batch = {} THEN "check" ELSE "call"]
  <2>1. OnlyWorker(j, v) /\ w.pc = "fetch"
    BY <1>5 DEF FetchBatch
  <2>2. /\ \A item \in batch : w.afterId < item.id /\ item.id \in Nat
        /\ \A item \in batch : \A r \in MissingGeom(land) :
              w.afterId < r.id /\ r.id <= item.id => \E i \in batch : i.id = r.id
    BY <1>a, <1>c, FetchedInOrder, FetchedFromTable DEF LandItem
  <2> HIDE DEF batch
  <2>3. /\ v.pc = IF batch = {} THEN "check" ELSE "call"
        /\ v.batch = batch /\ v.afterId = w.afterId /\ v.tried = w.tried
    BY <1>c DEF Worker
  <2> HIDE DEF v
  <2>4. PassedRowsWereTried(v, land, nextLand)
    BY <1>b, <2>1, <2>3 DEF PassOf, PassedRowsWereTried, InPass
  <2>5. BatchIsNext(v, land)
    BY <1>c, <2>2, <2>3 DEF BatchIsNext
  <2>6. WritesAtCursor(v)
    BY <2>3 DEF WritesAtCursor
  <2> QED
    BY <1>1, <2>1, <2>4, <2>5, <2>6 DEF PassOf
<1>6. CASE CallFinds(j) \/ CallFindsNothing(j)
  <2>1. PICK item \in w.batch :
            /\ IsNext(w.batch, item)
            /\ \/ OnlyWorker(j, [Asked(w, item) EXCEPT !.pc = "write"])
               \/ OnlyWorker(j, AfterItem(Asked(w, item), item))
    BY <1>6 DEF CallFinds, CallFindsNothing
  <2>2. w.pc = "call"
    BY <1>6 DEF CallFinds, CallFindsNothing
  <2>3. \A other \in w.batch : item.id <= other.id
    BY <2>1 DEF IsNext
  <2>4. \A r \in MissingGeom(land) : r.id <= item.id => r.id \in w.tried \cup {item.id}
    <3> SUFFICES ASSUME NEW r \in MissingGeom(land), r.id <= item.id
                 PROVE  r.id \in w.tried \cup {item.id}
      OBVIOUS
    <3>1. CASE r.id <= w.afterId
      BY <1>b, <2>2, <3>1 DEF PassOf, PassedRowsWereTried, InPass
    <3>2. CASE w.afterId < r.id
      <4>1. PICK i \in w.batch : i.id = r.id
        BY <1>b, <2>2, <3>2 DEF PassOf, BatchIsNext
      <4> QED
        BY <1>d, <1>e, <2>3, <4>1
    <3> QED
      BY <1>c, <1>d, <3>1, <3>2
  <2>5. ASSUME NEW other \in w.batch, NEW r \in MissingGeom(land),
               item.id < r.id, r.id <= other.id
        PROVE  \E i \in w.batch \ {item} : i.id = r.id
    <3>1. w.afterId <= item.id
      BY <1>b, <2>2 DEF PassOf, BatchIsNext
    <3>2. w.afterId < r.id
      BY <1>c, <1>d, <1>e, <2>5, <3>1
    <3>3. PICK i \in w.batch : i.id = r.id
      BY <1>b, <2>2, <2>5, <3>2 DEF PassOf, BatchIsNext
    <3>4. i # item
      BY <1>d, <1>e, <2>5, <3>3
    <3> QED
      BY <3>3, <3>4
  <2>6. ASSUME NEW v, v.afterId = item.id, v.tried = w.tried \cup {item.id},
               \/ v.pc = "write" /\ v.batch = w.batch
               \/ v.pc \in {"fetch", "call"} /\ v.batch = w.batch \ {item}
        PROVE  PassOf(v, land, nextLand)
    <3>1. PassedRowsWereTried(v, land, nextLand)
      BY <1>e, <2>4, <2>6 DEF PassedRowsWereTried
    <3>2. BatchIsNext(v, land)
      BY <2>3, <2>5, <2>6 DEF BatchIsNext
    <3>3. WritesAtCursor(v)
      <4> SUFFICES ASSUME v.pc = "write", NEW other \in v.batch, IsNext(v.batch, other)
                   PROVE  other.id = item.id
        BY <2>6 DEF WritesAtCursor
      <4>1. other.id <= item.id /\ item.id <= other.id
        BY <2>3, <2>6 DEF IsNext
      <4> QED
        BY <1>e, <2>6, <4>1
    <3> QED
      BY <3>1, <3>2, <3>3 DEF PassOf
  <2>7. CASE OnlyWorker(j, [Asked(w, item) EXCEPT !.pc = "write"])
    <3> DEFINE v == [Asked(w, item) EXCEPT !.pc = "write"]
    <3>1. /\ v.afterId = item.id /\ v.tried = w.tried \cup {item.id}
          /\ v.pc = "write" /\ v.batch = w.batch
      BY <1>c DEF Asked, Worker
    <3>2. OnlyWorker(j, v)
      BY <2>7
    <3> HIDE DEF v
    <3> QED
      BY <1>1, <2>6, <3>1, <3>2
  <2>8. CASE OnlyWorker(j, AfterItem(Asked(w, item), item))
    <3> DEFINE v == AfterItem(Asked(w, item), item)
    <3>1. /\ v.afterId = item.id /\ v.tried = w.tried \cup {item.id}
          /\ v.pc \in {"fetch", "call"} /\ v.batch = w.batch \ {item}
      BY <1>c DEF Asked, AfterItem, Worker
    <3>2. OnlyWorker(j, v)
      BY <2>8
    <3> HIDE DEF v
    <3> QED
      BY <1>1, <2>6, <3>1, <3>2
  <2> QED
    BY <2>1, <2>7, <2>8
<1>7. CASE WriteGeom(j)
  <2>1. PICK item \in w.batch :
            /\ IsNext(w.batch, item)
            /\ OnlyWorker(j, [AfterItem(w, item) EXCEPT !.updated = @ + 1])
    BY <1>7 DEF WriteGeom
  <2> DEFINE v == [AfterItem(w, item) EXCEPT !.updated = @ + 1]
  <2>2. /\ v.afterId = w.afterId /\ v.tried = w.tried
        /\ v.pc \in {"fetch", "call"} /\ v.batch = w.batch \ {item}
    BY <1>c DEF AfterItem, Worker
  <2>3. w.pc = "write"
    BY <1>7 DEF WriteGeom
  <2>4. item.id = w.afterId
    BY <1>b, <2>1, <2>3 DEF PassOf, WritesAtCursor
  <2>5. OnlyWorker(j, v)
    BY <2>1
  <2> HIDE DEF v
  <2>6. PassedRowsWereTried(v, land, nextLand)
    BY <1>b, <2>2, <2>3 DEF PassOf, PassedRowsWereTried, InPass
  <2>7. BatchIsNext(v, land)
    <3> SUFFICES ASSUME NEW other \in w.batch
                 PROVE  /\ w.afterId <= other.id
                        /\ \A r \in MissingGeom(land) :
                              w.afterId < r.id /\ r.id <= other.id
                                  => \E i \in w.batch \ {item} : i.id = r.id
      BY <2>2 DEF BatchIsNext
    <3>1. /\ w.afterId <= other.id
          /\ \A r \in MissingGeom(land) :
                w.afterId < r.id /\ r.id <= other.id => \E i \in w.batch : i.id = r.id
      BY <1>b, <2>3 DEF PassOf, BatchIsNext
    <3>2. \A r \in MissingGeom(land) : w.afterId < r.id => r.id # item.id
      BY <1>c, <1>d, <2>4
    <3> QED
      BY <3>1, <3>2
  <2>8. WritesAtCursor(v)
    BY <2>2 DEF WritesAtCursor
  <2> QED
    BY <1>1, <2>5, <2>6, <2>7, <2>8 DEF PassOf
<1>8. CASE EndPass(j)
  <2> DEFINE next  == [w EXCEPT !.pc = "fetch", !.attempt = @ + 1,
                                !.afterId = 0, !.tried = {}]
             total == [w EXCEPT !.pc = "total"]
  <2>1. /\ next.pc = "fetch" /\ next.afterId = 0
        /\ total.pc = "total"
    BY <1>c DEF Worker
  <2>2. OnlyWorker(j, next) \/ OnlyWorker(j, total)
    BY <1>8 DEF EndPass
  <2>3. total.pc \notin InPass
    BY <2>1 DEF InPass
  <2> HIDE DEF next, total
  <2> QED
    BY <1>2, <1>3, <2>1, <2>2, <2>3
<1>9. CASE CountFailed(j) \/ MarkDone(j) \/ MarkFailed(j) \/ Break(j)
  <2> DEFINE end   == [w EXCEPT !.pc = "finish", !.failed = CountMissingGeom(land)]
             abort == [w EXCEPT !.pc = "abort"]
             lost  == [NoWorker EXCEPT !.pc = "abort"]
  <2>1. /\ end.pc \notin InPass /\ abort.pc \notin InPass
        /\ lost.pc \notin InPass /\ NoWorker.pc \notin InPass
    BY <1>c DEF Worker, NoWorker, InPass
  <2>2. \/ OnlyWorker(j, end) \/ OnlyWorker(j, abort)
        \/ OnlyWorker(j, lost) \/ OnlyWorker(j, NoWorker)
    BY <1>9 DEF CountFailed, MarkDone, MarkFailed, Break, CollectingFails, MarkDoneFails,
                ThreadDies
  <2> HIDE DEF end, abort, lost
  <2> QED
    BY <1>2, <2>1, <2>2
<1> QED
  BY <1>4, <1>5, <1>6, <1>7, <1>8, <1>9 DEF Run

LEMMA InitPassInv == Init => PassInv
BY OutsidePass DEF Init, PassInv, PositiveIds, NoWorker, InPass

LEMMA StepPassInv == IInv /\ PassInv /\ [Next]_vars => PassInv'
<1> SUFFICES ASSUME IInv, PassInv, [Next]_vars
             PROVE  PassInv'
  OBVIOUS
<1>1. IInv' /\ TypeOK /\ TypeOK' /\ BatchMatchesLand
  BY StepIInv DEF IInv
<1>2. nextLand <= nextLand' /\ KeptOrNew(land, nextLand, land')
  BY RowsKeptOrNew
<1>3. /\ \A k \in JobId : PassOf(worker'[k], land, nextLand)
      /\ \A k \in JobId : \A item \in worker'[k].batch : item.id < nextLand
  <2>1. CASE \E j \in JobId : Run(j) \/ Break(j)
    <3>1. \A k \in JobId : PassOf(worker'[k], land, nextLand)
      BY <2>1, PassAdvances
    <3>2. nextLand' = nextLand
      BY <2>1 DEF Run, Break, MarkRunning, FetchBatch, CallFinds, CallFindsNothing,
                  WriteGeom, EndPass, CountFailed, MarkDone, MarkFailed, CollectingFails,
                  MarkDoneFails, ThreadDies, OnlyWorker
    <3> QED
      BY <1>1, <3>1, <3>2 DEF IInv, BatchMatchesLand
  <2>2. CASE UNCHANGED worker
    BY <1>1, <2>2 DEF PassInv, BatchMatchesLand
  <2>3. ASSUME NEW k, worker' = [worker EXCEPT ![k].pc = "scheduled"]
        PROVE  /\ \A i \in JobId : PassOf(worker'[i], land, nextLand)
               /\ \A i \in JobId : \A item \in worker'[i].batch : item.id < nextLand
    <3> SUFFICES ASSUME NEW i \in JobId
                 PROVE  /\ PassOf(worker'[i], land, nextLand)
                        /\ \A item \in worker'[i].batch : item.id < nextLand
      OBVIOUS
    <3>1. CASE i = k
      <4>1. worker'[i].pc = "scheduled" /\ worker'[i].batch = worker[i].batch
        BY <1>1, <2>3, <3>1 DEF TypeOK, Worker
      <4>2. worker'[i].pc \notin InPass
        BY <4>1 DEF InPass
      <4> QED
        BY <1>1, <4>1, <4>2, OutsidePass DEF BatchMatchesLand
    <3>2. CASE i # k
      <4>1. worker'[i] = worker[i]
        BY <1>1, <2>3, <3>2 DEF TypeOK
      <4> QED
        BY <1>1, <4>1 DEF BatchMatchesLand, PassInv
    <3> QED
      BY <3>1, <3>2
  <2>4. CASE Crash
    BY <2>4, OutsidePass DEF Crash, NoWorker, InPass
  <2>5. CASE Recover
    BY <2>2, <2>3, <2>5 DEF Recover
  <2>6. CASE \E t \in Threads : Accept(t) \/ Serve(t) \/ RequestFails(t)
    BY <2>2, <2>3, <2>6 DEF Accept, RefreshCheck, UploadRead, Serve, UploadReplace,
                            Enqueue, Schedule, RequestFails
  <2>7. CASE Seed \/ Quiet \/ UNCHANGED vars
    BY <2>2, <2>7 DEF Seed, Quiet, vars
  <2> QED
    BY <2>1, <2>4, <2>5, <2>6, <2>7 DEF Next, Start
<1>4. \A k \in JobId : PassOf(worker'[k], land', nextLand')
  <2> TAKE k \in JobId
  <2>1. /\ worker'[k] \in Worker /\ land \in SUBSET LandRow /\ land' \in SUBSET LandRow
        /\ nextLand \in Nat /\ nextLand' \in Nat
    BY <1>1 DEF TypeOK
  <2> QED
    BY <1>2, <1>3, <2>1, PassStays
<1>5. PositiveIds'
  <2> SUFFICES ASSUME NEW r \in land'
               PROVE  r.id > 0
    BY DEF PositiveIds
  <2>1. nextLand \in Nat \ {0} /\ r.id \in Nat
    BY <1>1 DEF TypeOK, LandRow
  <2> QED
    BY <1>2, <2>1 DEF KeptOrNew, PassInv, PositiveIds
<1> QED
  BY <1>4, <1>5 DEF PassInv


LEMMA StepPassAsks ==
    ASSUME IInv, PassInv, [Next]_vars, NEW j \in JobId,
           worker[j].pc = "fetch", worker'[j].pc = "check"
    PROVE  \A r \in MissingGeom(land) : r.id \in worker[j].tried
<1>a. TypeOK /\ LandIds
  BY DEF IInv
<1>b. PassOf(worker[j], land, nextLand)
  BY DEF PassInv
<1>1. CASE FetchBatch(j)
  <2> DEFINE w == worker[j]
             batch == FetchMissingGeom(land, BatchSize, w.afterId)
             v == [w EXCEPT !.batch = batch,
                            !.pc = IF batch = {} THEN "check" ELSE "call"]
  <2>1. w \in Worker /\ w.afterId \in Nat
    BY <1>a DEF TypeOK, Worker
  <2>2. worker'[j] = v
    BY <1>1, <1>a DEF FetchBatch, OnlyWorker, TypeOK
  <2>3. v.pc = IF batch = {} THEN "check" ELSE "call"
    <3> HIDE DEF batch
    <3> QED
      BY <2>1 DEF Worker
  <2>4. batch = {}
    <3> HIDE DEF batch
    <3> QED
      BY <2>2, <2>3
  <2>5. \A r \in MissingGeom(land) : r.id <= w.afterId
    BY <1>a, <2>1, <2>4, FetchedInOrder
  <2> QED
    BY <1>b, <2>5 DEF PassOf, PassedRowsWereTried, InPass
<1>2. ASSUME NEW k \in JobId, k # j, Run(k) \/ Break(k)
      PROVE  FALSE
  <2>1. \E v : worker' = [worker EXCEPT ![k] = v]
    BY <1>2 DEF Run, Break, MarkRunning, FetchBatch, CallFinds, CallFindsNothing,
                WriteGeom, EndPass, CountFailed, MarkDone, MarkFailed, CollectingFails,
                MarkDoneFails, ThreadDies, OnlyWorker
  <2>2. worker'[j] = worker[j]
    BY <1>2, <1>a, <2>1 DEF TypeOK
  <2> QED
    BY <2>2
<1>3. CASE Run(j) \/ Break(j)
  <2>1. CASE FetchBatch(j)
    BY <1>1, <2>1
  <2>2. CASE ~FetchBatch(j)
    <3>1. CollectingFails(j)
      BY <1>3, <2>2 DEF Run, Break, MarkRunning, CallFinds, CallFindsNothing, WriteGeom,
                        EndPass, CountFailed, MarkDone, MarkFailed, MarkDoneFails,
                        ThreadDies
    <3>2. worker'[j].pc = "abort"
      BY <1>a, <3>1 DEF CollectingFails, OnlyWorker, NoWorker, TypeOK
    <3> QED
      BY <3>2
  <2> QED
    BY <2>1, <2>2
<1>4. ASSUME NEW k, worker' = [worker EXCEPT ![k].pc = "scheduled"]
      PROVE  FALSE
  <2>1. worker'[j].pc \in {worker[j].pc, "scheduled"}
    BY <1>4, <1>a DEF TypeOK, Worker
  <2> QED
    BY <2>1
<1>5. CASE Recover
  BY <1>4, <1>5 DEF Recover
<1>6. ASSUME NEW t \in Threads, Accept(t) \/ Serve(t) \/ RequestFails(t)
      PROVE  FALSE
  BY <1>4, <1>6 DEF Accept, RefreshCheck, UploadRead, Serve, UploadReplace, Enqueue,
                    Schedule, RequestFails
<1>7. CASE Seed \/ Crash \/ Quiet \/ UNCHANGED vars
  BY <1>7 DEF Seed, Crash, Quiet, vars, NoWorker
<1> QED
  BY <1>2, <1>3, <1>5, <1>6, <1>7 DEF Next, Start

(* A pass ends only when it has asked about each row that lacks a boundary  *)
(* at that moment, for every batch size (RISK-026, update_geoms).           *)
THEOREM PassIsComplete == Spec => PassAsksEveryMissingRow
<1>1. IInv /\ PassInv /\ [Next]_vars =>
          [\A j \in JobId :
              (worker[j].pc = "fetch" /\ worker'[j].pc = "check") =>
                  \A r \in MissingGeom(land) : r.id \in worker[j].tried]_vars
  BY StepPassAsks
<1> QED
  BY InitIInv, StepIInv, InitPassInv, StepPassInv, <1>1, PTL
     DEF Spec, PassAsksEveryMissingRow

-----------------------------------------------------------------------------
(* No row is forgotten. *)

(* The thread of a job is going to ask about a row that still has no        *)
(* boundary then.                                                           *)
Asks(w, id) ==
    \/ w.pc = "scheduled"
    \/ w.pc \in InPass /\ w.afterId < id

WillBeAsked(requests, workers, id) ==
    \/ \E t \in Threads : requests[t].pc \in {"enqueue", "schedule"}
    \/ \E j \in JobId : Asks(workers[j], id)

NoRowForgotten ==
    spent.faults = 0 /\ spent.crashes = 0 =>
        /\ boot = "seed" => nextLand = 1
        /\ \A r \in MissingGeom(land) :
              r.id > Len(SeedRows) => r.id \in asked \/ WillBeAsked(req, worker, r.id)

LEMMA InitNoRowForgotten == Init => NoRowForgotten
BY DEF Init, NoRowForgotten, MissingGeom

(* A step of a thread, which has asked about a row or still asks about it. *)
LEMMA ThreadForgetsNothing ==
    ASSUME IInv, NoRowForgotten, [Next]_vars, NEW j \in JobId, NEW w, OnlyWorker(j, w),
           UNCHANGED spent, asked \subseteq asked',
           \A r \in MissingGeom(land) :
               r.id > Len(SeedRows) /\ Asks(worker[j], r.id)
                   => Asks(w, r.id) \/ r.id \in asked'
    PROVE  NoRowForgotten'
<1>1. UNCHANGED <<nextLand, boot, req>>
  BY DEF OnlyWorker
<1>2. worker'[j] = w /\ \A k \in JobId : k # j => worker'[k] = worker[k]
  BY DEF OnlyWorker, IInv, TypeOK
<1>3. \A r \in MissingGeom(land') : \E q \in MissingGeom(land) : q.id = r.id
  <2>1. IInv' /\ KeptOrNew(land, nextLand, land')
    BY StepIInv, RowsKeptOrNew
  <2>2. \A r \in land' : r.id \in Nat /\ r.id < nextLand /\ nextLand \in Nat
    BY <1>1, <2>1 DEF IInv, TypeOK, LandRow, LandIds
  <2> QED
    BY <2>1, <2>2 DEF KeptOrNew, MissingGeom
<1>4. ASSUME spent.faults = 0, spent.crashes = 0, NEW r \in MissingGeom(land),
             r.id > Len(SeedRows)
      PROVE  r.id \in asked' \/ WillBeAsked(req, worker', r.id)
  <2>1. r.id \in asked \/ WillBeAsked(req, worker, r.id)
    BY <1>4 DEF NoRowForgotten
  <2> QED
    BY <1>2, <1>4, <2>1 DEF WillBeAsked
<1> QED
  BY <1>1, <1>3, <1>4 DEF NoRowForgotten

LEMMA StepNoRowForgotten ==
    IInv /\ JobInv /\ PassInv /\ NoRowForgotten /\ [Next]_vars => NoRowForgotten'
<1> SUFFICES ASSUME IInv, JobInv, PassInv, NoRowForgotten, [Next]_vars
             PROVE  NoRowForgotten'
  OBVIOUS
<1>a. TypeOK /\ LandIds
  BY DEF IInv
<1>1. ASSUME boot' # "seed",
             \/ \E t \in Threads : req'[t].pc \in {"enqueue", "schedule"}
             \/ \E j \in JobId : worker'[j].pc = "scheduled"
      PROVE  NoRowForgotten'
  BY <1>1 DEF NoRowForgotten, WillBeAsked, Asks
<1>2. ASSUME spent'.faults # 0 \/ spent'.crashes # 0
      PROVE  NoRowForgotten'
  BY <1>2 DEF NoRowForgotten
<1>3. ASSUME UNCHANGED <<land, nextLand, boot, worker, asked>>,
             spent'.faults = 0 => spent.faults = 0,
             spent'.crashes = 0 => spent.crashes = 0,
             \A t \in Threads : req[t].pc \in {"enqueue", "schedule"} =>
                                 req'[t].pc \in {"enqueue", "schedule"}
      PROVE  NoRowForgotten'
  BY <1>3 DEF NoRowForgotten, WillBeAsked
<1>4. CASE Seed
  <2>1. CASE land = {}
    <3>1. /\ boot = "seed" /\ boot' = "recover" /\ UNCHANGED spent
          /\ land' = InsertLands(SeedRows, nextLand)
      BY <1>4, <2>1 DEF Seed
    <3>2. Len(SeedRows) \in Nat /\ DOMAIN SeedRows = 1 .. Len(SeedRows)
      BY PipelineAssumption
    <3>3. spent.faults = 0 /\ spent.crashes = 0 => \A r \in land' : r.id <= Len(SeedRows)
      <4>1. ASSUME spent.faults = 0, spent.crashes = 0
            PROVE  nextLand = 1
        BY <3>1, <4>1 DEF NoRowForgotten
      <4>2. nextLand = 1 => \A r \in land' : r.id <= Len(SeedRows)
        BY <3>1, <3>2 DEF InsertLands
      <4> QED
        BY <4>1, <4>2
    <3>4. \A r \in land' : r.id \in Nat
      BY StepIInv DEF IInv, TypeOK, LandRow
    <3> QED
      BY <3>1, <3>2, <3>3, <3>4 DEF NoRowForgotten, MissingGeom
  <2>2. CASE land # {}
    BY <1>4, <2>2 DEF Seed, NoRowForgotten
  <2> QED
    BY <2>1, <2>2
<1>5. CASE Recover
  <2>1. CASE ActiveJobs(jobs) # {} /\ CountMissingGeom(land) > 0
    <3>1. /\ nextJob \in JobId /\ boot' = "up"
          /\ worker' = [worker EXCEPT ![nextJob].pc = "scheduled"]
      BY <1>5, <2>1 DEF Recover
    <3>2. worker'[nextJob].pc = "scheduled"
      BY <1>a, <3>1 DEF TypeOK, Worker
    <3> QED
      BY <1>1, <3>1, <3>2
  <2>2. CASE ~(ActiveJobs(jobs) # {} /\ CountMissingGeom(land) > 0)
    BY <1>5, <2>2 DEF Recover, NoRowForgotten
  <2> QED
    BY <2>1, <2>2
<1>6. CASE Crash
  <2>1. spent'.crashes # 0
    <3>1. spent \in Spent /\ spent.crashes \in Nat
      BY <1>a, PipelineAssumption DEF TypeOK, Spent
    <3> QED
      BY <1>6, <3>1 DEF Crash, Spent
  <2> QED
    BY <1>2, <2>1
<1>7. ASSUME NEW t \in Threads, Accept(t) \/ Serve(t) \/ RequestFails(t)
      PROVE  NoRowForgotten'
  <2>1. CASE Accept(t)
    <3>1. /\ UNCHANGED <<land, nextLand, boot, worker, asked>> /\ SpendRequest
          /\ req[t].pc = "idle" /\ \E r : req' = [req EXCEPT ![t] = r]
      BY <2>1 DEF Accept, RefreshCheck, UploadRead, MayRequest
    <3>2. \A u \in Threads : u # t => req'[u] = req[u]
      BY <1>a, <3>1 DEF TypeOK
    <3>3. spent'.faults = spent.faults /\ spent'.crashes = spent.crashes
      BY <1>a, <3>1 DEF SpendRequest, TypeOK, Spent
    <3> QED
      BY <1>3, <3>1, <3>2, <3>3
  <2>2. CASE UploadReplace(t) \/ Enqueue(t)
    <3>1. req'[t].pc \in {"enqueue", "schedule"}
      BY <1>a, <2>2 DEF UploadReplace, Enqueue, IdleReq, TypeOK, Request
    <3>2. boot' # "seed"
      BY <2>2 DEF UploadReplace, Enqueue, JobInv, NothingRunsUntilUp, Up
    <3> QED
      BY <1>1, <3>1, <3>2
  <2>3. CASE Schedule(t)
    <3>1. req[t].job \in JobId
      BY <2>3 DEF Schedule, JobInv, ScheduledOnce
    <3>2. worker'[req[t].job].pc = "scheduled"
      BY <1>a, <2>3, <3>1 DEF Schedule, TypeOK, Worker
    <3>3. boot' # "seed"
      BY <2>3 DEF Schedule, JobInv, NothingRunsUntilUp, Up
    <3> QED
      BY <1>1, <3>1, <3>2, <3>3
  <2>4. CASE RequestFails(t)
    BY <1>a, <1>2, <2>4, FaultsGrow DEF RequestFails
  <2> QED
    BY <1>7, <2>1, <2>2, <2>3, <2>4 DEF Serve
<1>8. ASSUME NEW j \in JobId, Run(j) \/ Break(j)
      PROVE  NoRowForgotten'
  <2> DEFINE w == worker[j]
  <2>a. w \in Worker /\ w.afterId \in Nat
    BY <1>a DEF TypeOK, Worker
  <2>b. \A r \in MissingGeom(land) : r.id \in Nat /\ r.id > 0
    BY <1>a DEF PassInv, PositiveIds, MissingGeom, TypeOK, LandRow
  <2>c. PassOf(w, land, nextLand)
    BY DEF PassInv
  <2>1. CASE MarkRunning(j)
    <3> DEFINE v == [NoWorker EXCEPT !.pc = "fetch", !.attempt = 1]
    <3>1. OnlyWorker(j, v) /\ UNCHANGED <<spent, asked>>
      BY <2>1 DEF MarkRunning
    <3>2. v.pc = "fetch" /\ v.afterId = 0
      BY DEF NoWorker
    <3> HIDE DEF v
    <3>3. \A r \in MissingGeom(land) : Asks(v, r.id)
      BY <2>b, <3>2 DEF Asks, InPass
    <3> QED
      BY <3>1, <3>3, ThreadForgetsNothing
  <2>2. CASE FetchBatch(j)
    <3> DEFINE batch == FetchMissingGeom(land, BatchSize, w.afterId)
               v == [w EXCEPT !.batch = batch,
                              !.pc = IF batch = {} THEN "check" ELSE "call"]
    <3>1. OnlyWorker(j, v) /\ UNCHANGED <<spent, asked>> /\ w.pc = "fetch"
      BY <2>2 DEF FetchBatch
    <3>2. batch = {} => \A r \in MissingGeom(land) : r.id <= w.afterId
      BY <1>a, <2>a, FetchedInOrder
    <3> HIDE DEF batch
    <3>3. v.pc = (IF batch = {} THEN "check" ELSE "call") /\ v.afterId = w.afterId
      BY <2>a DEF Worker
    <3> HIDE DEF v
    <3>4. \A r \in MissingGeom(land) : Asks(w, r.id) => Asks(v, r.id)
      BY <2>a, <2>b, <3>1, <3>2, <3>3 DEF Asks, InPass
    <3> QED
      BY <3>1, <3>4, ThreadForgetsNothing
  <2>3. CASE CallFinds(j) \/ CallFindsNothing(j)
    <3>1. PICK item \in w.batch :
              /\ IsNext(w.batch, item) /\ asked' = asked \cup {item.id}
              /\ \/ OnlyWorker(j, [Asked(w, item) EXCEPT !.pc = "write"])
                 \/ OnlyWorker(j, AfterItem(Asked(w, item), item))
      BY <2>3 DEF CallFinds, CallFindsNothing
    <3>2. w.pc = "call" /\ UNCHANGED spent
      BY <2>3 DEF CallFinds, CallFindsNothing
    <3>3. ASSUME NEW v, OnlyWorker(j, v), v.pc \in InPass, v.afterId = item.id
          PROVE  NoRowForgotten'
      <4>1. ASSUME NEW r \in MissingGeom(land), Asks(w, r.id)
            PROVE  Asks(v, r.id) \/ r.id \in asked'
        <5>1. w.afterId < r.id
          BY <3>2, <4>1 DEF Asks
        <5>2. item.id \in Nat /\ \A i \in w.batch : i.id \in Nat /\ item.id <= i.id
          BY <2>a, <3>1 DEF Worker, LandItem, IsNext
        <5>3. CASE r.id <= item.id
          <6>1. PICK i \in w.batch : i.id = r.id
            BY <2>c, <3>2, <5>1, <5>3 DEF PassOf, BatchIsNext
          <6>2. r.id = item.id
            BY <2>b, <5>2, <5>3, <6>1
          <6> QED
            BY <3>1, <6>2
        <5>4. CASE item.id < r.id
          BY <3>3, <5>4 DEF Asks
        <5> QED
          BY <2>b, <5>2, <5>3, <5>4
      <4>2. asked \subseteq asked'
        BY <3>1
      <4> QED
        BY <3>2, <3>3, <4>1, <4>2, ThreadForgetsNothing
    <3>4. /\ [Asked(w, item) EXCEPT !.pc = "write"].pc = "write"
          /\ [Asked(w, item) EXCEPT !.pc = "write"].afterId = item.id
          /\ AfterItem(Asked(w, item), item).pc \in {"fetch", "call"}
          /\ AfterItem(Asked(w, item), item).afterId = item.id
      BY <2>a DEF Asked, AfterItem, Worker
    <3> QED
      BY <3>1, <3>3, <3>4 DEF InPass
  <2>4. CASE WriteGeom(j)
    <3>1. PICK item \in w.batch : OnlyWorker(j, [AfterItem(w, item) EXCEPT !.updated = @ + 1])
      BY <2>4 DEF WriteGeom
    <3> DEFINE v == [AfterItem(w, item) EXCEPT !.updated = @ + 1]
    <3>2. v.pc \in {"fetch", "call"} /\ v.afterId = w.afterId
      BY <2>a DEF AfterItem, Worker
    <3>3. OnlyWorker(j, v) /\ w.pc = "write" /\ UNCHANGED <<spent, asked>>
      BY <2>4, <3>1 DEF WriteGeom
    <3> HIDE DEF v
    <3>4. \A r \in MissingGeom(land) : Asks(w, r.id) => Asks(v, r.id)
      BY <3>2, <3>3 DEF Asks, InPass
    <3> QED
      BY <3>3, <3>4, ThreadForgetsNothing
  <2>5. CASE EndPass(j) \/ CountFailed(j) \/ MarkDone(j) \/ MarkFailed(j)
    <3>1. /\ w.pc \notin InPass /\ w.pc # "scheduled" /\ UNCHANGED <<spent, asked>>
          /\ \E v : OnlyWorker(j, v)
      BY <2>5 DEF EndPass, CountFailed, MarkDone, MarkFailed, InPass
    <3> QED
      BY <3>1, ThreadForgetsNothing DEF Asks
  <2>6. CASE Break(j)
    BY <1>a, <1>2, <2>6, FaultsGrow DEF Break, CollectingFails, MarkDoneFails, ThreadDies
  <2> QED
    BY <1>8, <2>1, <2>2, <2>3, <2>4, <2>5, <2>6 DEF Run
<1>9. CASE Quiet \/ UNCHANGED vars
  BY <1>3, <1>9 DEF Quiet, vars
<1> QED
  BY <1>4, <1>5, <1>6, <1>7, <1>8, <1>9 DEF Next, Start

(* When all is quiet, VWorld was asked about every uploaded row that has no *)
(* boundary, however many uploads and jobs ran over each other.             *)
THEOREM NoUploadedRowIsForgotten == Spec => []UploadedRowsWereAsked
<1>1. ASSUME JobInv, NoRowForgotten
      PROVE  UploadedRowsWereAsked
  <2> SUFFICES ASSUME ActiveJobs(jobs) = {},
                      \A t \in Threads : req[t].pc = "idle",
                      spent.faults = 0, spent.crashes = 0,
                      NEW r \in MissingGeom(land), r.id > Len(SeedRows)
               PROVE  r.id \in asked
    BY DEF UploadedRowsWereAsked
  <2>1. \A j \in JobId : jobs[j].status \notin {"pending", "running"}
    BY DEF ActiveJobs, ActiveStatus
  <2>2. \A j \in JobId : ~Asks(worker[j], r.id)
    BY <1>1, <2>1 DEF JobInv, StatusMatchesThread, Asks, Collecting, InPass
  <2> QED
    BY <1>1, <2>2 DEF NoRowForgotten, WillBeAsked
<1> QED
  BY InitIInv, StepIInv, InitJobInv, StepJobInv, InitPassInv, StepPassInv,
     InitNoRowForgotten, StepNoRowForgotten, <1>1, PTL DEF Spec

-----------------------------------------------------------------------------
(* The page of GeomRefreshPage, over any table whose jobs live as           *)
(* JobLifecycle says: those of this module do, by RefinesLifecycle.         *)

PagePc ==
    {"idle", "start", "create", "started", "ask", "answer", "sleep", "reload"}

PageState == [pc : PagePc, job : 0 .. MaxJobs, polls : Nat, seen : JobStatus]

(* Rows above the counter are unused: a new job never takes the id of an    *)
(* old one.                                                                 *)
PageTypes ==
    /\ created \in 0 .. MaxJobs
    /\ status \in [JobId -> JobStatus]
    /\ \A j \in JobId : j > created => status[j] = "absent"
    /\ page \in PageState

(* The page asks about a job that it was told of; what an answer under way  *)
(* or the page says of its end is what the table says.                      *)
AsksAboutItsJob ==
    page.pc \in {"started", "ask", "answer", "sleep", "reload"} => page.job \in JobId

Tells(job, says) ==
    says \in TerminalStatus => job \in JobId /\ status[job] = says

PageInv ==
    /\ PageTypes
    /\ AsksAboutItsJob
    /\ page.pc = "answer" => Tells(page.job, page.seen)
    /\ Tells(message.job, message.says)

(* The library's maximum of a set of jobs is one of them. *)
LEMMA LatestJob ==
    ASSUME NEW S \in SUBSET JobId, S # {}
    PROVE  Max(S) \in S
<1> DEFINE above == {n \in Nat : MaxJobs - n \in S}
<1>1. above # {} /\ above \subseteq Nat
  <2>1. PICK j \in S : TRUE
    OBVIOUS
  <2>2. j \in 1 .. MaxJobs /\ MaxJobs \in Nat
    BY MaxJobsIsPositive DEF JobId
  <2>3. MaxJobs - j \in Nat /\ MaxJobs - (MaxJobs - j) = j
    BY <2>2
  <2> QED
    BY <2>1, <2>3
<1>2. PICK n \in above : \A m \in above : ~(m < n)
  <2>1. PICK n \in above : \A m \in above : ~(<<m, n>> \in OpToRel(<, Nat))
    BY <1>1, NatLessThanWellFounded, WFMin
  <2> QED
    BY <2>1 DEF OpToRel
<1>3. \A y \in S : MaxJobs - n >= y
  <2> TAKE y \in S
  <2>1. y \in 1 .. MaxJobs /\ MaxJobs \in Nat /\ n \in Nat
    BY MaxJobsIsPositive DEF JobId
  <2>2. MaxJobs - y \in Nat /\ MaxJobs - (MaxJobs - y) = y
    BY <2>1
  <2>3. ~(MaxJobs - y < n)
    BY <1>2, <2>2
  <2> QED
    BY <2>1, <2>3
<1>4. MaxJobs - n \in S
  OBVIOUS
<1> QED
  BY <1>3, <1>4 DEF Max

LEMMA IdleType == Idle \in PageState /\ Idle.pc = "idle"
BY MaxJobsIsPositive DEF Idle, PageState, PagePc, JobStatus

LEMMA InitPage == PageInit => PageInv
<1> SUFFICES ASSUME PageInit
             PROVE  PageInv
  OBVIOUS
<1>1. /\ status = [j \in JobId |-> "absent"] /\ created = 0
      /\ page = Idle /\ message = [says |-> "nothing", job |-> 0]
  BY DEF PageInit, LInit, JobId
<1>2. PageTypes
  BY <1>1, IdleType, MaxJobsIsPositive DEF PageTypes, JobStatus
<1> QED
  BY <1>1, <1>2, IdleType DEF PageInv, AsksAboutItsJob, Tells, TerminalStatus

(* What a step does to the table: jobs go on, and an ended one stays as it  *)
(* is.                                                                      *)
TableGoesOn ==
    /\ created' \in 0 .. MaxJobs
    /\ status' \in [JobId -> JobStatus]
    /\ \A j \in JobId : j > created' => status'[j] = "absent"
    /\ \A j \in JobId : status[j] \in TerminalStatus => status'[j] = status[j]

LEMMA NewJob ==
    ASSUME PageTypes, created < MaxJobs, Create
    PROVE  TableGoesOn /\ created + 1 \in JobId
<1>1. /\ created \in Nat /\ MaxJobs \in Nat
      /\ created' = created + 1 /\ status' = [status EXCEPT ![created + 1] = "pending"]
  BY MaxJobsIsPositive DEF PageTypes, Create
<1>2. created + 1 \in JobId /\ created + 1 > created
  BY <1>1 DEF JobId
<1>3. status[created + 1] \notin TerminalStatus
  BY <1>2 DEF PageTypes, TerminalStatus
<1>4. \A j \in JobId : status'[j] = IF j = created + 1 THEN "pending" ELSE status[j]
  BY <1>1 DEF PageTypes
<1>5. status' \in [JobId -> JobStatus]
  BY <1>1 DEF PageTypes, JobStatus, ActiveStatus
<1>6. \A j \in JobId : j > created' => j > created /\ j # created + 1
  BY <1>1 DEF JobId
<1> QED
  BY <1>1, <1>2, <1>3, <1>4, <1>5, <1>6 DEF TableGoesOn, PageTypes

LEMMA JobGoesOn ==
    ASSUME PageTypes, NEW j \in JobId,
           \/ Begin(j)
           \/ \E outcome \in TerminalStatus : End(j, outcome)
    PROVE  TableGoesOn
<1>1. PICK to \in JobStatus : status' = [status EXCEPT ![j] = to] /\ created' = created
  BY DEF Begin, End, JobStatus, ActiveStatus, TerminalStatus
<1>2. status[j] \in ActiveStatus
  BY DEF Begin, End, ActiveStatus
<1>3. ~(j > created) /\ status[j] \notin TerminalStatus
  BY <1>2 DEF PageTypes, ActiveStatus, TerminalStatus
<1>4. \A k \in JobId : status'[k] = IF k = j THEN to ELSE status[k]
  BY <1>1 DEF PageTypes
<1>5. status' \in [JobId -> JobStatus]
  BY <1>1 DEF PageTypes
<1> QED
  BY <1>1, <1>3, <1>4, <1>5 DEF TableGoesOn, PageTypes

LEMMA RestartGoesOn ==
    ASSUME PageTypes, Restart, created' <= MaxJobs
    PROVE  TableGoesOn
<1>1. /\ Ended \in [JobId -> JobStatus]
      /\ \A j \in JobId : status[j] \in TerminalStatus => Ended[j] = status[j]
      /\ \A j \in JobId : j > created => Ended[j] = "absent"
  BY DEF PageTypes, Ended, JobId, JobStatus, ActiveStatus, TerminalStatus
<1>2. CASE status' = Ended /\ created' = created
  BY <1>1, <1>2 DEF TableGoesOn, PageTypes
<1>3. CASE created' = created + 1 /\ status' = [Ended EXCEPT ![created + 1] = "pending"]
  <2>1. created \in Nat /\ MaxJobs \in Nat
    BY MaxJobsIsPositive DEF PageTypes
  <2>2. created + 1 \in JobId /\ created + 1 > created /\ created' \in 0 .. MaxJobs
    BY <1>3, <2>1 DEF JobId
  <2>3. status[created + 1] \notin TerminalStatus
    BY <2>2 DEF PageTypes, TerminalStatus
  <2>4. \A j \in JobId : status'[j] = IF j = created + 1 THEN "pending" ELSE Ended[j]
    BY <1>1, <1>3
  <2>5. status' \in [JobId -> JobStatus]
    BY <1>1, <1>3 DEF JobStatus, ActiveStatus
  <2>6. \A j \in JobId : j > created' => j > created /\ j # created + 1
    BY <1>3, <2>1 DEF JobId
  <2> QED
    BY <1>1, <2>2, <2>3, <2>4, <2>5, <2>6 DEF TableGoesOn
<1> QED
  BY <1>2, <1>3 DEF Restart

(* What a step has to establish: it changes no ended job, it learns only    *)
(* what the table says, and says of an end only what it has learnt.         *)
LEMMA PageGoesOn ==
    ASSUME PageInv, TableGoesOn,
           page' \in PageState, AsksAboutItsJob',
           page'.pc = "answer" =>
              \/ page.pc = "answer" /\ page'.job = page.job /\ page'.seen = page.seen
              \/ /\ status' = status
                 /\ page'.job \in JobId /\ page'.seen = status[page'.job],
           \/ message' = message
           \/ message'.says \notin TerminalStatus
           \/ /\ page.pc = "answer"
              /\ message'.job = page.job /\ message'.says = page.seen
    PROVE  PageInv'
<1> USE DEF PageInv
<1>1. PageTypes'
  BY DEF PageTypes, TableGoesOn
<1>2. page'.pc = "answer" => Tells(page.job, page.seen)'
  BY DEF Tells, TableGoesOn
<1>3. Tells(message.job, message.says)'
  BY DEF Tells, TableGoesOn
<1> QED
  BY <1>1, <1>2, <1>3

LEMMA StepPage == PageInv /\ [PageNext]_(pageVars) => PageInv'
<1> SUFFICES ASSUME PageInv, PageNext \/ UNCHANGED pageVars
             PROVE  PageInv'
  OBVIOUS
<1>1. /\ PageTypes /\ page \in PageState
      /\ AsksAboutItsJob
      /\ page.pc = "answer" => Tells(page.job, page.seen)
  BY DEF PageInv, PageTypes
<1>2. UNCHANGED <<status, created>> => TableGoesOn
  BY <1>1 DEF PageTypes, TableGoesOn
<1>4. CASE Click
  <2>1. page' = [Idle EXCEPT !.pc = "start"] /\ message'.says = "progress"
    BY <1>4 DEF Click, Says
  <2>2. page' \in PageState /\ page'.pc = "start"
    BY <2>1, MaxJobsIsPositive DEF Idle, PageState, PagePc, JobStatus
  <2> QED
    BY <1>2, <1>4, <2>1, <2>2, PageGoesOn DEF Click, AsksAboutItsJob, TerminalStatus
<1>5. CASE FindActive
  <2> DEFINE active == {j \in JobId : status[j] \in ActiveStatus}
  <2>1. active \in SUBSET JobId
    OBVIOUS
  <2>2. UNCHANGED <<status, created, message>>
    BY <1>5 DEF FindActive
  <2>3. page' = IF active = {} THEN [page EXCEPT !.pc = "create"]
                ELSE [page EXCEPT !.pc = "started", !.job = Max(active)]
    BY <1>5 DEF FindActive, Goes
  <2> HIDE DEF active
  <2>4. active # {} => Max(active) \in JobId
    BY <2>1, LatestJob
  <2>5. /\ page' \in PageState /\ page'.pc \in {"create", "started"}
        /\ page'.pc = "started" => page'.job \in JobId
    <3>1. CASE active = {}
      BY <1>1, <2>3, <3>1 DEF PageState, PagePc
    <3>2. CASE active # {}
      <4> DEFINE job == Max(active)
      <4>1. /\ page' = [page EXCEPT !.pc = "started", !.job = job]
            /\ job \in JobId /\ job \in 0 .. MaxJobs
        BY <2>3, <2>4, <3>2, MaxJobsIsPositive DEF JobId
      <4> HIDE DEF job
      <4> QED
        BY <1>1, <4>1 DEF PageState, PagePc
    <3> QED
      BY <3>1, <3>2
  <2> QED
    BY <1>2, <2>2, <2>5, PageGoesOn DEF AsksAboutItsJob
<1>6. CASE CreateNew
  <2>1. /\ created < MaxJobs /\ Create /\ message' = message
        /\ page' = [page EXCEPT !.pc = "started", !.job = created + 1]
    BY <1>6 DEF CreateNew, Goes
  <2>2. TableGoesOn /\ created + 1 \in JobId
    BY <1>1, <2>1, NewJob
  <2>3. page' \in PageState /\ page'.pc = "started" /\ page'.job \in JobId
    <3>1. created + 1 \in 0 .. MaxJobs
      BY <2>2, MaxJobsIsPositive DEF JobId
    <3> QED
      BY <1>1, <2>1, <2>2, <3>1 DEF PageState, PagePc
  <2> QED
    BY <2>1, <2>2, <2>3, PageGoesOn DEF AsksAboutItsJob
<1>7. CASE Started
  <2>1. /\ UNCHANGED <<status, created, message>>
        /\ page.pc = "started" /\ page' = [page EXCEPT !.pc = "ask"]
    BY <1>7 DEF Started, Goes
  <2>2. page' \in PageState /\ page'.pc = "ask" /\ page'.job = page.job
    BY <1>1, <2>1 DEF PageState, PagePc
  <2> QED
    BY <1>1, <1>2, <2>1, <2>2, PageGoesOn DEF AsksAboutItsJob
<1>8. CASE ReadStatus
  <2>1. /\ UNCHANGED <<status, created, message>>
        /\ page.pc = "ask"
        /\ page' = [page EXCEPT !.pc = "answer", !.seen = status[page.job]]
    BY <1>8 DEF ReadStatus, Goes
  <2>2. page.job \in JobId /\ status[page.job] \in JobStatus
    BY <1>1, <2>1 DEF AsksAboutItsJob, PageTypes
  <2>3. /\ page' \in PageState /\ page'.pc = "answer"
        /\ page'.job = page.job /\ page'.seen = status[page.job]
    BY <1>1, <2>1, <2>2 DEF PageState, PagePc
  <2> QED
    BY <1>2, <2>1, <2>2, <2>3, PageGoesOn DEF AsksAboutItsJob
<1>9. CASE StillActive
  <2>1. /\ UNCHANGED <<status, created>> /\ message'.says = "progress"
        /\ page.pc = "answer"
        /\ page' = [page EXCEPT !.pc = "sleep", !.polls = page.polls + 1]
    BY <1>9 DEF StillActive, Goes, Says
  <2>2. page' \in PageState /\ page'.pc = "sleep" /\ page'.job = page.job
    <3>1. page.polls + 1 \in Nat
      BY <1>1 DEF PageState
    <3> QED
      BY <1>1, <2>1, <3>1 DEF PageState, PagePc
  <2> QED
    BY <1>1, <1>2, <2>1, <2>2, PageGoesOn DEF AsksAboutItsJob, TerminalStatus
<1>10. CASE Wake
  <2>1. /\ UNCHANGED <<status, created>> /\ page.pc = "sleep"
        /\ \/ page' = [page EXCEPT !.pc = "ask"] /\ message' = message
           \/ page' = Idle /\ message'.says = "gave up"
    <3>1. CASE page.polls < MaxPolls /\ Goes("sleep", [page EXCEPT !.pc = "ask"])
               /\ UNCHANGED message
      BY <1>10, <3>1 DEF Wake, Goes
    <3>2. CASE Goes("sleep", Idle) /\ Says("gave up")
      <4>1. message'.says = "gave up"
        BY <3>2 DEF Says
      <4> QED
        BY <1>10, <3>2, <4>1 DEF Wake, Goes
    <3> QED
      BY <1>10, <3>1, <3>2 DEF Wake
  <2>2. /\ page' \in PageState
        /\ \/ page'.pc = "ask" /\ page'.job = page.job
           \/ page'.pc = "idle"
    <3>1. CASE page' = [page EXCEPT !.pc = "ask"]
      BY <1>1, <3>1 DEF PageState, PagePc
    <3>2. CASE page' = Idle
      BY <3>2, IdleType
    <3> QED
      BY <2>1, <3>1, <3>2
  <2> QED
    BY <1>1, <1>2, <2>1, <2>2, PageGoesOn DEF AsksAboutItsJob, TerminalStatus
<1>11. CASE JobEnded
  <2>1. /\ UNCHANGED <<status, created>> /\ page.pc = "answer"
        /\ page' = [page EXCEPT !.pc = "reload"]
        /\ message'.job = page.job /\ message'.says = page.seen
    BY <1>11 DEF JobEnded, Goes, Says
  <2>2. page' \in PageState /\ page'.pc = "reload" /\ page'.job = page.job
    BY <1>1, <2>1 DEF PageState, PagePc
  <2> QED
    BY <1>1, <1>2, <2>1, <2>2, PageGoesOn DEF AsksAboutItsJob
<1>12. CASE Reloaded \/ Fails
  <2>1. /\ UNCHANGED <<status, created>> /\ page' = Idle
        /\ message' = message \/ message'.says = "error"
    BY <1>12 DEF Reloaded, Fails, Goes, Says
  <2>2. page' \in PageState /\ page'.pc = "idle"
    BY <2>1, IdleType
  <2> QED
    BY <1>2, <2>1, <2>2, PageGoesOn DEF AsksAboutItsJob, TerminalStatus
<1>13. ASSUME TableGoesOn, UNCHANGED <<page, message>>
       PROVE  PageInv'
  BY <1>1, <1>13, PageGoesOn DEF AsksAboutItsJob
<1>14. CASE JobStep
  <2>1. UNCHANGED <<page, message>>
    BY <1>14 DEF JobStep, ownVars
  <2>2. CASE created < MaxJobs /\ Create
    BY <1>1, <1>13, <2>1, <2>2, NewJob
  <2>3. CASE \E j \in JobId : Begin(j) \/ \E outcome \in TerminalStatus : End(j, outcome)
    BY <1>1, <1>13, <2>1, <2>3, JobGoesOn
  <2> QED
    BY <1>14, <2>2, <2>3 DEF JobStep
<1>15. CASE ServerRestarts
  BY <1>1, <1>13, <1>15, RestartGoesOn DEF ServerRestarts, ownVars
<1>16. CASE UNCHANGED pageVars
  BY <1>2, <1>13, <1>16 DEF pageVars, ownVars
<1> QED
  BY <1>4, <1>5, <1>6, <1>7, <1>8, <1>9, <1>10, <1>11, <1>12, <1>14, <1>15, <1>16
     DEF PageNext, PageStep

(* What the page says of an ended job is what the table says, then and      *)
(* afterwards, whatever is restarted, created or lost in between.           *)
THEOREM EndsAreTold == PageFairSpec => []EndIsTold
<1>1. PageInv => EndIsTold
  BY DEF PageInv, Tells, EndIsTold
<1> QED
  BY InitPage, StepPage, <1>1, PTL DEF PageFairSpec
=============================================================================
