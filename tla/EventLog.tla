------------------------------- MODULE EventLog --------------------------------
(***************************************************************************)
(* What visitors search for and click, from the request that reports it to *)
(* the two logs that keep it, and what admins read from them.              *)
(*                                                                         *)
(*   app/routers/map_router.py         post_map_event                      *)
(*   app/services/public_event_commands.py, map_event_service.py           *)
(*   app/repositories/event_repository.py                                  *)
(*   app/services/raw_query_export_service.py                              *)
(*                                                                         *)
(* A request is handled by a thread of its own; its two inserts are one    *)
(* transaction of SQLite, which has one writer at a time and gives a row   *)
(* the time of its INSERT.  The id of a row is its place in the log.       *)
(***************************************************************************)
EXTENDS Integers, Sequences, FiniteSets, FiniteSetsExt

CONSTANTS Threads,
          Payloads,   \* what the requests may report
          Nothing,    \* a missing or blank field
          Garbage,    \* a minArea that is not a number
          NaN,        \* a minArea that is the number "nan"
          Day,        \* ticks of a day
          MaxRows,    \* RAW_QUERY_EXPORT_MAX_ROWS
          MaxEvents,  \* bound: requests
          MaxFails,   \* bound: crashes and errors of the database
          MaxTime     \* bound: the clock

(* A search term is a name and digits, a region is a name; names are        *)
(* numbered in their order.                                                 *)
Search == [type : {"search"}, anon : Nat \cup {Nothing}, minArea : Int \cup {Nothing, Garbage, NaN},
           term : [name : Nat \cup {Nothing}, digits : BOOLEAN]]
LandClick == [type : {"land_click"}, anon : Nat \cup {Nothing}, land : Nat \cup {Nothing}]
OtherEvent == [type : {"other"}, anon : Nat \cup {Nothing}]

ASSUME EventLogAssumption ==
    /\ Payloads \subseteq Search \cup LandClick \cup OtherEvent
    /\ Garbage \notin Int \cup {Nothing, NaN}
    /\ NaN \notin Int \cup {Nothing} /\ Nothing \notin Int
    /\ Day \in Nat \ {0} /\ MaxRows \in Nat \ {0}
    /\ {MaxEvents, MaxFails, MaxTime} \subseteq Nat

VARIABLES now, mapLog, rawLog, \* map_event_log and raw_query_log
          request,             \* the thread and the transaction of a request
          events, fails,       \* requests and faults so far
          acked                \* history: requests that were answered with success

eventVars == <<now, mapLog, rawLog, request, events, fails, acked>>

-----------------------------------------------------------------------------
(* normalize_search_map_event and normalize_land_click_map_event *)

ParseMinArea(raw) == IF raw = Nothing THEN 0 ELSE raw

(* Upper bounds of the buckets; a bucket begins where the one before ends,  *)
(* and what is in none of them, nan too, is in the last.                    *)
Buckets == {100, 200, 300, 500, 1000}
Overflow == 1001

MinAreaBucketFor(area) ==
    LET above == {upper \in Buckets : area \in Int /\ area < upper}
    IN  IF above = {} THEN Overflow ELSE Min(above)

NormalizeSearchTerm(term) == term.name

(* record_map_event refuses the others with 400. *)
Accepted(p) ==
    \/ p.type = "search" /\ p.minArea # Garbage
         /\ (p.minArea \in Int => p.minArea >= 0)
    \/ p.type = "land_click" /\ p.land # Nothing

(* The rows of a request; n, history, is its number. *)
MapRow(p, n, at) ==
    IF p.type = "search"
    THEN [n |-> n, type |-> "search", anon |-> p.anon, land |-> Nothing,
          region |-> NormalizeSearchTerm(p.term), source |-> "user_input",
          bucket |-> MinAreaBucketFor(ParseMinArea(p.minArea)), at |-> at]
    ELSE [n |-> n, type |-> "land_click", anon |-> p.anon, land |-> p.land,
          region |-> Nothing, source |-> "derived_address", bucket |-> Nothing, at |-> at]

RawRow(p, n, at) == [n |-> n, type |-> p.type, anon |-> p.anon, payload |-> p, at |-> at]

MapRows == [n : Nat, type : {"search", "land_click"}, anon : Nat \cup {Nothing},
            land : Nat \cup {Nothing}, region : Nat \cup {Nothing},
            source : {"user_input", "derived_address"},
            bucket : Buckets \cup {Overflow, Nothing}, at : Nat]

RawRows == [n : Nat, type : {"search", "land_click"}, anon : Nat \cup {Nothing},
            payload : Payloads, at : Nat]

-----------------------------------------------------------------------------
Idle == [pc |-> "idle", n |-> 0]

EventInit ==
    /\ now = 0 /\ mapLog = <<>> /\ rawLog = <<>>
    /\ request = [t \in Threads |-> Idle]
    /\ events = 0 /\ fails = 0 /\ acked = {}

Tick ==
    /\ now < MaxTime
    /\ now' = now + 1
    /\ UNCHANGED <<mapLog, rawLog, request, events, fails, acked>>

(* post_map_event, behind the rate limiter: a payload that is not accepted  *)
(* is answered at once.                                                     *)
PostMapEvent(t, p) ==
    /\ request[t].pc = "idle" /\ events < MaxEvents
    /\ events' = events + 1
    /\ request' = [request EXCEPT ![t] =
                      IF Accepted(p) THEN [pc |-> "map", n |-> events + 1, payload |-> p]
                      ELSE Idle]
    /\ UNCHANGED <<now, mapLog, rawLog, fails, acked>>

(* The first INSERT makes the connection the writer, until its COMMIT or    *)
(* its end.                                                                 *)
Writing(t) == request[t].pc \in {"raw", "commit"}

InsertMapEvent(t) ==
    /\ request[t].pc = "map" /\ \A u \in Threads : ~Writing(u)
    /\ LET r == request[t]
       IN  request' = [request EXCEPT ![t] = [pc |-> "raw", n |-> r.n, payload |-> r.payload,
                                              mapRow |-> MapRow(r.payload, r.n, now)]]
    /\ UNCHANGED <<now, mapLog, rawLog, events, fails, acked>>

InsertRawQueryLog(t) ==
    /\ request[t].pc = "raw"
    /\ LET r == request[t]
       IN  request' = [request EXCEPT ![t] = [pc |-> "commit", n |-> r.n, mapRow |-> r.mapRow,
                                              rawRow |-> RawRow(r.payload, r.n, now)]]
    /\ UNCHANGED <<now, mapLog, rawLog, events, fails, acked>>

Commit(t) ==
    /\ request[t].pc = "commit"
    /\ mapLog' = Append(mapLog, request[t].mapRow)
    /\ rawLog' = Append(rawLog, request[t].rawRow)
    /\ request' = [request EXCEPT ![t] = [pc |-> "answer", n |-> request[t].n]]
    /\ UNCHANGED <<now, events, fails, acked>>

(* Variant: the answer does not wait for the COMMIT. *)
AcknowledgeAtOnce(t) ==
    /\ request[t].pc \in {"map", "raw", "commit", "answer"} /\ request[t].n \notin acked
    /\ acked' = acked \cup {request[t].n}
    /\ request' = IF request[t].pc = "answer" THEN [request EXCEPT ![t] = Idle] ELSE request
    /\ UNCHANGED <<now, mapLog, rawLog, events, fails>>

Acknowledge(t) ==
    /\ request[t].pc = "answer"
    /\ acked' = acked \cup {request[t].n}
    /\ request' = [request EXCEPT ![t] = Idle]
    /\ UNCHANGED <<now, mapLog, rawLog, events, fails>>

(* Variant: closing the connection commits. *)
DatabaseFailsCommitting(t) ==
    /\ request[t].pc \in {"map", "raw", "commit"} /\ fails < MaxFails
    /\ fails' = fails + 1
    /\ mapLog' = IF Writing(t) THEN Append(mapLog, request[t].mapRow) ELSE mapLog
    /\ request' = [request EXCEPT ![t] = Idle]
    /\ UNCHANGED <<now, rawLog, events, acked>>

(* The database is locked too long, or fails otherwise: the connection is   *)
(* closed without a COMMIT, and the request answered with an error.         *)
DatabaseFails(t) ==
    /\ request[t].pc \in {"map", "raw", "commit"} /\ fails < MaxFails
    /\ fails' = fails + 1
    /\ request' = [request EXCEPT ![t] = Idle]
    /\ UNCHANGED <<now, mapLog, rawLog, events, acked>>

(* The process ends and starts again: what is not committed is gone, and so *)
(* are the answers; init_event_schema leaves existing tables alone.         *)
Crash ==
    /\ fails < MaxFails
    /\ fails' = fails + 1
    /\ request' = [t \in Threads |-> Idle]
    /\ UNCHANGED <<now, mapLog, rawLog, events, acked>>

Request(t) ==
    \/ \E p \in Payloads : PostMapEvent(t, p)
    \/ InsertMapEvent(t) \/ InsertRawQueryLog(t) \/ Commit(t) \/ Acknowledge(t)
    \/ DatabaseFails(t)

EventNext == Tick \/ (\E t \in Threads : Request(t)) \/ Crash

EventSpec == EventInit /\ [][EventNext]_eventVars

-----------------------------------------------------------------------------
(* The SELECTs of the dashboard; a count by name is a function. *)

Count(log, Test(_)) == Cardinality({i \in DOMAIN log : Test(log[i])})

CountBy(log, Test(_), Key(_)) ==
    [k \in {Key(log[i]) : i \in {j \in DOMAIN log : Test(log[j])}} |->
        Count(log, LAMBDA row : Test(row) /\ Key(row) = k)]

IsSearch(row) == row.type = "search"
IsClick(row) == row.type = "land_click"

(* ORDER BY count DESC, name LIMIT limit.  Buckets are ordered here by their*)
(* bounds and not by their texts, which matters only among buckets of the   *)
(* same count when the limit cuts some of them off.                         *)
Top(counts, limit) ==
    LET Before(k) == {q \in DOMAIN counts : \/ counts[q] > counts[k]
                                            \/ counts[q] = counts[k] /\ q < k}
    IN  [k \in {k \in DOMAIN counts : Cardinality(Before(k)) < limit} |-> counts[k]]

UniqueSessions(log) ==
    Cardinality({log[i].anon : i \in DOMAIN log} \ {Nothing})

FetchEventSummary(log) ==
    [search |-> Count(log, IsSearch), click |-> Count(log, IsClick),
     sessions |-> UniqueSessions(log)]

FetchTopRegions(log, limit) ==
    Top(CountBy(log, LAMBDA row : /\ IsSearch(row) /\ row.source = "user_input"
                                  /\ row.region # Nothing,
                LAMBDA row : row.region), limit)

(* Variant: the bucket of nan is not counted. *)
FetchTopMinAreaBucketsBelow(log, limit) ==
    Top(CountBy(log, LAMBDA row : IsSearch(row) /\ row.bucket \in Buckets,
                LAMBDA row : row.bucket), limit)

FetchTopMinAreaBuckets(log, limit) ==
    Top(CountBy(log, LAMBDA row : IsSearch(row) /\ row.bucket # Nothing,
                LAMBDA row : row.bucket), limit)

FetchTopClickedLands(log, limit) ==
    Top(CountBy(log, LAMBDA row : IsClick(row) /\ row.land # Nothing,
                LAMBDA row : row.land), limit)

DateOf(at) == at \div Day

FetchDailyEventCounts(log) ==
    [search |-> CountBy(log, IsSearch, LAMBDA row : DateOf(row.at)),
     click  |-> CountBy(log, IsClick, LAMBDA row : DateOf(row.at))]

-----------------------------------------------------------------------------
(* The export of raw_query_log.  A date is a day; Nothing is no bound.      *)

(* Variant: the time 00:00 of the last day. *)
DateEndAtMidnight(date) == date * Day

DateStart(date) == date * Day
DateEndExclusive(date) == (date + 1) * Day

ClampLimit(limit) ==
    IF limit < 1 THEN 1 ELSE IF limit > MaxRows THEN MaxRows ELSE limit

(* validate_raw_query_export_command; the others are answered with 400.     *)
ValidExport(e) ==
    e.from # Nothing /\ e.to # Nothing => DateStart(e.from) < DateEndExclusive(e.to)

(* The ids that fetch_raw_query_logs selects, ORDER BY created_at DESC,     *)
(* id DESC LIMIT limit.                                                     *)
ExportRawQueries(log, e) ==
    LET hits == {i \in DOMAIN log :
                    /\ e.type = "all" \/ log[i].type = e.type
                    /\ e.from # Nothing => log[i].at >= DateStart(e.from)
                    /\ e.to # Nothing => log[i].at < DateEndExclusive(e.to)}
        Before(i) == {j \in hits : log[j].at > log[i].at \/ (log[j].at = log[i].at /\ j > i)}
    IN  {i \in hits : Cardinality(Before(i)) < ClampLimit(e.limit)}

-----------------------------------------------------------------------------
RequestTypeOK(r) ==
    /\ r.pc \in {"idle", "map", "raw", "commit", "answer"} /\ r.n \in Nat
    /\ r.pc \in {"map", "raw"} => r.payload \in Payloads /\ Accepted(r.payload)
    /\ r.pc \in {"raw", "commit"} => r.mapRow \in MapRows
    /\ r.pc = "commit" => r.rawRow \in RawRows

EventTypeOK ==
    /\ now \in 0 .. MaxTime /\ events \in 0 .. MaxEvents /\ fails \in 0 .. MaxFails
    /\ mapLog \in Seq(MapRows) /\ rawLog \in Seq(RawRows)
    /\ DOMAIN request = Threads /\ \A t \in Threads : RequestTypeOK(request[t])
    /\ acked \subseteq 1 .. events

(* The two logs tell the same story: they have rows of the same reports in  *)
(* the same order, each request at most once, each that was answered with   *)
(* success, whatever failed between the inserts (persist_search_map_event   *)
(* and persist_land_click_map_event).                                       *)
LogsAgree ==
    /\ Len(mapLog) = Len(rawLog)
    /\ \A i \in DOMAIN mapLog :
          /\ mapLog[i] = MapRow(rawLog[i].payload, rawLog[i].n, mapLog[i].at)
          /\ mapLog[i].type = rawLog[i].type /\ mapLog[i].anon = rawLog[i].anon
          /\ mapLog[i].at <= rawLog[i].at
          /\ \A j \in DOMAIN mapLog : mapLog[i].n = mapLog[j].n => i = j
    /\ \A n \in acked : \E i \in DOMAIN mapLog : mapLog[i].n = n

(* An export is the newest rows of the days it names, the last one          *)
(* included: a row of these days that is missing is older than a full       *)
(* export.  The rows are in the order of their ids, although the time of a  *)
(* row is not that of its COMMIT.                                           *)
ExportIsTheNewest ==
    \A from, to \in 0 .. DateOf(MaxTime), limit \in 0 .. MaxRows + 1 :
        LET e == [type |-> "all", from |-> from, to |-> to, limit |-> limit]
            rows == ExportRawQueries(rawLog, e)
            days == {i \in DOMAIN rawLog : DateOf(rawLog[i].at) \in from .. to}
        IN  ValidExport(e) =>
               /\ rows \subseteq days
               /\ \A i \in days \ rows : /\ Cardinality(rows) >= limit \/ Cardinality(rows) = MaxRows
                                         /\ \A j \in rows : i < j

-----------------------------------------------------------------------------
(* The two logs as one: a row that one of them lacks, or has of another     *)
(* request, is torn.                                                        *)
Torn == [n |-> 0, report |-> Nothing]

Recorded ==
    [i \in DOMAIN mapLog \cup DOMAIN rawLog |->
        IF i \in DOMAIN mapLog \cap DOMAIN rawLog /\ mapLog[i].n = rawLog[i].n
        THEN [n |-> rawLog[i].n, report |-> rawLog[i].payload]
        ELSE Torn]

(* The requests under way, before and after the COMMIT. *)
ReportOf(r) ==
    [n |-> r.n, report |-> IF r.pc = "commit" THEN r.rawRow.payload ELSE r.payload]

RequestsAt(pcs) == {request[t] : t \in {t \in Threads : request[t].pc \in pcs}}

Unrecorded == {ReportOf(r) : r \in RequestsAt({"map", "raw", "commit"})}
Unanswered == {r.n : r \in RequestsAt({"answer"})}

Journal ==
    INSTANCE EventJournal WITH
        Reports <- {p \in Payloads : Accepted(p)}, journal <- Recorded,
        received <- events, told <- acked, open <- Unrecorded, owed <- Unanswered

(* A report that was accepted is recorded once, with one row in each log,   *)
(* or not at all; only then is it answered with success, and no failure,    *)
(* crash or other request ever takes it back (persist_search_map_event,     *)
(* persist_land_click_map_event).                                           *)
ImplementsJournal == Journal!JSpec
=============================================================================
