------------------------------- MODULE Dashboard -------------------------------
(***************************************************************************)
(* The statistics on the admin page, over the logs of EventLog.            *)
(*                                                                         *)
(*   frontend/src/admin/stats.ts                                           *)
(*   app/services/admin_stats_service.py, map_event_service.py             *)
(*                                     get_admin_stats                     *)
(*                                                                         *)
(* get_admin_stats reads with one SELECT after the other, and each sees    *)
(* the table as it is then.  Loads may overlap: the button starts one      *)
(* whatever is under way.  The counts of parcels and the web statistics,   *)
(* which the page loads with the rest, are left out.                       *)
(***************************************************************************)
EXTENDS EventLog

CONSTANTS StatsLimit, \* limit parameter of the statistics
          MaxLoads    \* bound: loads of the statistics

ASSUME DashboardAssumption ==
    StatsLimit \in 1 .. 50 /\ MaxLoads \in Nat

VARIABLES load,  \* requests for the statistics
          loads, \* how many there were
          shown  \* the statistics on the page

pageVars == <<load, loads, shown>>
vars == <<eventVars, pageVars>>

LoadId == 1 .. MaxLoads

(* asked: history, the searches that were acknowledged when the load began  *)
NoStats == [asked |-> 0, summary |-> [search |-> 0, click |-> 0, sessions |-> 0],
            regions |-> <<>>, buckets |-> <<>>, lands |-> <<>>,
            trend |-> [search |-> <<>>, click |-> <<>>]]

NoLoad == [pc |-> "off", stats |-> NoStats]

Init ==
    /\ EventInit
    /\ load = [l \in LoadId |-> NoLoad] /\ loads = 0
    /\ shown = [loaded |-> FALSE, stats |-> NoStats]

-----------------------------------------------------------------------------
AckedSearches == Count(mapLog, LAMBDA row : IsSearch(row) /\ row.n \in acked)

(* The tab is opened (load(false)), or the button clicked (load(true)).     *)
LoadStats(force) ==
    /\ force \/ ~shown.loaded
    /\ loads < MaxLoads
    /\ loads' = loads + 1
    /\ load' = [load EXCEPT ![loads + 1] =
                   [pc |-> "summary", stats |-> [NoStats EXCEPT !.asked = AckedSearches]]]
    /\ UNCHANGED <<eventVars, shown>>

(* One SELECT of get_admin_stats. *)
Read(l, pc, next, stats) ==
    /\ load[l].pc = pc
    /\ load' = [load EXCEPT ![l] = [pc |-> next, stats |-> stats]]
    /\ UNCHANGED <<eventVars, loads, shown>>

ReadSummary(l) ==
    Read(l, "summary", "regions",
         [load[l].stats EXCEPT !.summary = FetchEventSummary(mapLog)])
ReadRegions(l) ==
    Read(l, "regions", "buckets",
         [load[l].stats EXCEPT !.regions = FetchTopRegions(mapLog, StatsLimit)])
ReadBuckets(l) ==
    Read(l, "buckets", "lands",
         [load[l].stats EXCEPT !.buckets = FetchTopMinAreaBuckets(mapLog, StatsLimit)])
ReadLands(l) ==
    Read(l, "lands", "trend",
         [load[l].stats EXCEPT !.lands = FetchTopClickedLands(mapLog, StatsLimit)])
ReadTrend(l) ==
    Read(l, "trend", "answer",
         [load[l].stats EXCEPT !.trend = FetchDailyEventCounts(mapLog)])

Render(l) ==
    /\ load[l].pc = "answer"
    /\ shown' = [loaded |-> TRUE, stats |-> load[l].stats]
    /\ load' = [load EXCEPT ![l] = NoLoad]
    /\ UNCHANGED <<eventVars, loads>>

(* A load, or the one of the web statistics beside it, fails or takes more  *)
(* than 10 seconds: the page keeps what it has.                             *)
LoadFails(l) ==
    /\ load[l].pc # "off"
    /\ load' = [load EXCEPT ![l] = NoLoad]
    /\ UNCHANGED <<eventVars, loads, shown>>

(* The process ends, and the loads with it. *)
Restart ==
    /\ Crash
    /\ load' = [l \in LoadId |-> NoLoad]
    /\ UNCHANGED <<loads, shown>>

EventStep ==
    /\ Tick \/ \E t \in Threads : Request(t)
    /\ UNCHANGED pageVars

Load(l) ==
    \/ ReadSummary(l) \/ ReadRegions(l) \/ ReadBuckets(l) \/ ReadLands(l) \/ ReadTrend(l)
    \/ Render(l) \/ LoadFails(l)

Next ==
    \/ EventStep \/ Restart
    \/ \E force \in BOOLEAN : LoadStats(force)
    \/ \E l \in LoadId : Load(l)

Spec == Init /\ [][Next]_vars

-----------------------------------------------------------------------------
Total(counts) == MapThenSumSet(LAMBDA k : counts[k], DOMAIN counts)

(* The counts of one answer, each from a SELECT of its own, in this order:  *)
(* whatever an earlier one counted is in the later ones, in some bucket,    *)
(* nan too, and on some day.                                                *)
AddsUp(s) ==
    /\ s.asked <= s.summary.search
    /\ StatsLimit > Cardinality(Buckets) =>
          /\ s.summary.search <= Total(s.buckets)
          /\ Total(s.regions) <= Total(s.buckets)
    /\ Total(s.buckets) <= Total(s.trend.search)
    /\ s.summary.click <= Total(s.trend.click)
    /\ Total(s.lands) <= Total(s.trend.click)

(* The numbers on the page add up although rows are committed between the   *)
(* SELECTs, and every search that was acknowledged before the page asked is *)
(* in all of them.                                                          *)
ShownAddsUp == AddsUp(shown.stats)
=============================================================================
