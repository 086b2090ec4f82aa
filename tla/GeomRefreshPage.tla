---------------------------- MODULE GeomRefreshPage ----------------------------
(***************************************************************************)
(* The manual refresh on the admin page: a click starts a job, or joins    *)
(* the one that is active, and the page asks for its status until it ends. *)
(* The jobs are those of JobLifecycle, which GeomPipeline implements.      *)
(*                                                                         *)
(*   frontend/src/admin/geom-refresh.ts, http.ts                           *)
(*   app/services/geo_service.py   start_geom_refresh_job,                 *)
(*                                 get_geom_refresh_job_status             *)
(*                                                                         *)
(* A request of the page ends with an answer, with an error or after 10    *)
(* seconds, whether the server has handled it or not; the page outlives    *)
(* restarts of the server.                                                 *)
(***************************************************************************)
EXTENDS JobLifecycle, FiniteSets, FiniteSetsExt

CONSTANTS MaxPolls,    \* maxPollCount
          MaxClicks,   \* bound: clicks on the button
          MaxRestarts  \* bound: restarts of the server

ASSUME GeomRefreshPageAssumption ==
    /\ MaxPolls \in Nat \ {0}
    /\ MaxClicks \in Nat /\ MaxRestarts \in Nat

VARIABLES page,    \* start and poll, as far as they are
          message, \* what the page says of which job
          clicks, restarts

ownVars == <<page, message, clicks>>
pageVars == <<status, created, ownVars, restarts>>

(* job: the one that the page asks about; seen: the status in the answer    *)
Idle == [pc |-> "idle", job |-> 0, polls |-> 0, seen |-> "absent"]

PageInit ==
    /\ LInit
    /\ page = Idle /\ message = [says |-> "nothing", job |-> 0]
    /\ clicks = 0 /\ restarts = 0

-----------------------------------------------------------------------------
(* The button is disabled from the click to the end of start.               *)

Goes(pc, next) ==
    /\ page.pc = pc
    /\ page' = next
    /\ UNCHANGED <<clicks, restarts>>

Says(what) == message' = [says |-> what, job |-> page.job]

Click ==
    /\ page.pc = "idle" /\ clicks < MaxClicks
    /\ clicks' = clicks + 1
    /\ page' = [Idle EXCEPT !.pc = "start"]
    /\ Says("progress")
    /\ UNCHANGED <<status, created, restarts>>

(* start_geom_refresh_job looks for an active job, ...                      *)
FindActive ==
    LET active == {j \in JobId : status[j] \in ActiveStatus}
    IN  /\ Goes("start", IF active = {} THEN [page EXCEPT !.pc = "create"]
                         ELSE [page EXCEPT !.pc = "started", !.job = Max(active)])
        /\ UNCHANGED <<status, created, message>>

(* ... and creates one.                                                     *)
CreateNew ==
    /\ created < MaxJobs
    /\ Create
    /\ Goes("create", [page EXCEPT !.pc = "started", !.job = created + 1])
    /\ UNCHANGED message

(* The answer is there, and poll begins. *)
Started ==
    /\ Goes("started", [page EXCEPT !.pc = "ask"])
    /\ UNCHANGED <<status, created, message>>

(* Variant: the status of the latest job. *)
ReadLatestStatus ==
    /\ Goes("ask", [page EXCEPT !.pc = "answer", !.seen = status[created]])
    /\ UNCHANGED <<status, created, message>>

(* get_geom_refresh_job_status *)
ReadStatus ==
    /\ Goes("ask", [page EXCEPT !.pc = "answer", !.seen = status[page.job]])
    /\ UNCHANGED <<status, created, message>>

(* Variant: no limit to the polls. *)
StillActiveUncounted ==
    /\ page.seen \in ActiveStatus
    /\ Goes("answer", [page EXCEPT !.pc = "sleep"])
    /\ Says("progress")
    /\ UNCHANGED <<status, created>>

StillActive ==
    /\ page.seen \in ActiveStatus
    /\ Goes("answer", [page EXCEPT !.pc = "sleep", !.polls = page.polls + 1])
    /\ Says("progress")
    /\ UNCHANGED <<status, created>>

(* After the sleep that follows the last poll the page gives up. *)
Wake ==
    /\ UNCHANGED <<status, created>>
    /\ \/ /\ page.polls < MaxPolls
          /\ Goes("sleep", [page EXCEPT !.pc = "ask"])
          /\ UNCHANGED message
       \/ /\ page.polls >= MaxPolls
          /\ Goes("sleep", Idle)
          /\ Says("gave up")

(* The job has ended: the page says so and waits for the statistics.        *)
JobEnded ==
    /\ page.seen \in TerminalStatus
    /\ Goes("answer", [page EXCEPT !.pc = "reload"])
    /\ Says(page.seen)
    /\ UNCHANGED <<status, created>>

(* load(true) ends, and never with an exception. *)
Reloaded ==
    /\ Goes("reload", Idle)
    /\ UNCHANGED <<status, created, message>>

(* A request fails or takes too long. *)
Fails ==
    /\ page.pc \in {"start", "create", "started", "ask", "answer"}
    /\ Goes(page.pc, Idle)
    /\ Says("error")
    /\ UNCHANGED <<status, created>>

PageStep ==
    \/ FindActive \/ CreateNew \/ Started \/ ReadStatus \/ StillActive \/ Wake
    \/ JobEnded \/ Reloaded \/ Fails

-----------------------------------------------------------------------------
(* The jobs, among them those of uploads and of other admins.               *)
JobStep ==
    /\ \/ created < MaxJobs /\ Create
       \/ \E j \in JobId : Begin(j) \/ \E outcome \in TerminalStatus : End(j, outcome)
    /\ UNCHANGED <<ownVars, restarts>>

(* The requests that are under way fail in a step of their own. *)
ServerRestarts ==
    /\ restarts < MaxRestarts
    /\ restarts' = restarts + 1
    /\ Restart /\ created' <= MaxJobs
    /\ UNCHANGED ownVars

PageNext == Click \/ PageStep \/ JobStep \/ ServerRestarts

(* The page goes on: timers fire, and fetchJson ends every request after 10 *)
(* seconds at the latest.  Nothing is assumed of the jobs.                  *)
PageFairSpec == PageInit /\ [][PageNext]_pageVars /\ WF_pageVars(PageStep)

-----------------------------------------------------------------------------
(* What the page says of an ended job is what the table says, then and      *)
(* afterwards: no restart and no other job changes it, although the page    *)
(* says it on the strength of an answer that may be old.                    *)
EndIsTold ==
    message.says \in TerminalStatus => status[message.job] = message.says

(* The button can be used again after every click, whether the job ends,    *)
(* never does (it may stay running when the database failed, GeomPipeline), *)
(* or requests fail.                                                        *)
ButtonComesBack == page.pc # "idle" ~> page.pc = "idle"
=============================================================================
