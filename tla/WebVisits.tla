------------------------------- MODULE WebVisits -------------------------------
(***************************************************************************)
(* Web visits on the server: how an event of a page becomes a row, and what*)
(* the dashboard computes from the rows.                                   *)
(*                                                                         *)
(*   app/services/web_stats_ingest.py, web_stats_normalizers.py            *)
(*   app/repositories/web_visit_write_repository.py                        *)
(*   app/services/web_stats_queries.py, web_stats_presenter.py             *)
(*   app/repositories/web_visit_query_repository.py                        *)
(*                                                                         *)
(* Times are ticks of the server's clock; the table is a set of rows.      *)
(***************************************************************************)
EXTENDS Integers, FiniteSets, FiniteSetsExt

CONSTANTS Browsers,        \* visitors: an anon_id each
          Bots,            \* those whose user agent looks like a robot's
          FutureTolerance, \* how far a client clock may be ahead: 5 minutes
          PastLimit,       \* how old an event may be: 7 days
          Day, SeoulOffset, \* 24 and 9 hours
          DwellCap         \* 8 hours

ASSUME WebVisitsAssumption ==
    /\ Bots \subseteq Browsers /\ IsFiniteSet(Browsers)
    /\ {FutureTolerance, PastLimit, SeoulOffset, DwellCap} \subseteq Nat
    /\ Day \in Nat \ {0} /\ SeoulOffset < Day

EventTypes == {"visit_start", "heartbeat", "visit_end"}

VisitRow == [id : Nat \ {0}, anon : Browsers, session : Nat \ {0},
             type : EventTypes, at : Int, bot : BOOLEAN]

-----------------------------------------------------------------------------
(* Variant: an old event is taken for one of now, like one of the future. *)
ParseClientTsFlat(ts, now) ==
    IF ts > now + FutureTolerance \/ ts < now - PastLimit THEN now ELSE ts

(* parse_client_ts *)
ParseClientTs(ts, now) ==
    IF ts > now + FutureTolerance THEN now
    ELSE IF ts < now - PastLimit THEN now - PastLimit
    ELSE ts

(* record_web_visit_event: one row, in a transaction of its own. *)
InsertVisit(visits, event, now) ==
    visits \cup {[id      |-> Cardinality(visits) + 1,
                  anon    |-> event.anon,
                  session |-> event.session,
                  type    |-> event.type,
                  at      |-> ParseClientTs(event.ts, now),
                  bot     |-> event.anon \in Bots]}

-----------------------------------------------------------------------------
(* The queries.  Those about visitors and sessions look at the tracked      *)
(* pages only; no other page gets into the table (normalize_page_path).     *)

KstDate(at) == (at + SeoulOffset) \div Day

(* Variant: the day of the server. *)
WindowOfServer(now, days) ==
    [since |-> now - days * Day, start |-> (now \div Day) * Day,
     end |-> (now \div Day) * Day + Day]

(* build_web_stats_window: the last days, and today in Seoul *)
BuildWindow(now, days) ==
    LET start == KstDate(now) * Day - SeoulOffset
    IN  [since |-> now - days * Day, start |-> start, end |-> start + Day]

Counted(visits, since) == {v \in visits : ~v.bot /\ v.at >= since}

Visitors(rows) == Cardinality({v.anon : v \in rows})

DailyVisitors(visits, window) ==
    Visitors({v \in Counted(visits, window.start) : v.at < window.end})

(* fetch_web_daily_unique_visitors_trend: visitors by date in Seoul *)
VisitorTrend(visits, since) ==
    LET rows == Counted(visits, since)
    IN  [date \in {KstDate(v.at) : v \in rows} |->
            Visitors({v \in rows : KstDate(v.at) = date})]

(* fetch_web_session_durations_seconds, with the cap of summarize_sessions. *)
Dwell(rows) ==
    LET spent == Max({v.at : v \in rows}) - Min({v.at : v \in rows})
    IN  IF spent > DwellCap THEN DwellCap ELSE spent

SessionDwell(visits, since) ==
    LET rows == Counted(visits, since)
    IN  [session \in {v.session : v \in rows} |->
            Dwell({v \in rows : v.session = session})]

(* A breakdown over a column that every row has (device, browser, page,     *)
(* channel): its counts add up to this.                                     *)
BreakdownTotal(visits, since) == Cardinality(Counted(visits, since))
=============================================================================
