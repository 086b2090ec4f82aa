----------------------------- MODULE VisitTracking -----------------------------
(***************************************************************************)
(* Visits from the pages that report them to the dashboard that counts     *)
(* them: tabs that share the cookies of their browser, posts that are lost *)
(* or late, and a server that stores them under a time of its own choice.  *)
(*                                                                         *)
(*   frontend/src/map/session-tracker.ts, web-session-store.ts,            *)
(*                    telemetry.ts                                         *)
(*   app/routers/map_router.py         post_web_event                      *)
(*   app/services/web_stats_service.py get_web_stats                       *)
(*                                                                         *)
(* The tabs of a browser may be processes of their own: a read or a write  *)
(* of one cookie is a step.  A turn of a tab takes no time; posts do.      *)
(***************************************************************************)
EXTENDS WebVisits, Sequences

CONSTANTS Tabs,
          Owners,         \* the browsers the tabs may belong to
          Skews,          \* how far the clock of a browser may be off
          SessionTimeout, \* 30 minutes
          CookieAge,      \* Max-Age of the two cookies, 24 hours
          MaxDelay,       \* bound: ticks a post may take
          DaysAsked,      \* days parameters of the dashboard
          MaxTurns,       \* bound: turns of the tabs
          MaxTime         \* bound: the clock

(* What no clock shows. *)
Never == -1000

ASSUME VisitTrackingAssumption ==
    /\ Owners \subseteq [Tabs -> Browsers]
    /\ Skews \subseteq {s \in Int : s > Never}
    /\ {SessionTimeout, CookieAge, MaxDelay, MaxTurns, MaxTime} \subseteq Nat
    /\ SessionTimeout < CookieAge
    /\ DaysAsked \subseteq Nat \ {0}

VARIABLES
    owner, skew,  \* the browsers of the tabs, and how far their clocks are off
    now,          \* the clock of the server
    cookie,       \* web_session_id and web_last_seen_ts of a browser
    tab,          \* the page in a tab
    turn,         \* sendWebEvent in a tab
    turns, minted, \* turns and session ids so far
    posts,        \* on their way to the server, or answered with more to come
    visits,       \* the web_visit_event table
    stats,        \* a request for the web statistics
    made,         \* history: when the event of a row was made
    active,       \* history: when a tab of a browser last reported
    begun         \* history: when its last session was given an id

clients == <<cookie, tab, turn, turns, minted, active, begun>>
server == <<visits, made>>
vars == <<owner, skew, now, clients, posts, server, stats>>

-----------------------------------------------------------------------------
(* Neither cookie is set yet; until: when the browser drops web_session_id. *)
NoCookie == [id |-> 0, until |-> Never, seen |-> Never]

Page == [open : BOOLEAN, visible : BOOLEAN, timer : BOOLEAN]

NoPage == [open |-> FALSE, visible |-> FALSE, timer |-> FALSE]

(* quiet, begun: history, the last report and the last session before it *)
Turn == [pc : {"idle", "seen", "id", "post"}, type : EventTypes, id : Nat,
         isNew : BOOLEAN, quiet : Int, begun : Int]

Idle == [pc |-> "idle", type |-> "heartbeat", id |-> 0, isNew |-> FALSE,
         quiet |-> Never, begun |-> Never]

(* next: the event to send when this one is answered; from: when the        *)
(* request was made; chained: it is such a next event                       *)
Post == [n : Nat, anon : Browsers, session : Nat, type : EventTypes, ts : Int,
         next : EventTypes \cup {"none"}, from : Nat, made : Nat,
         chained : BOOLEAN, stored : BOOLEAN]

(* The answer as far as it is read: daily visitors, dwell time by session   *)
(* and visitors by date.                                                    *)
Asking(s) ==
    /\ s.pc \in {"idle", "daily", "sessions", "trend", "breakdown"}
    /\ s.daily \in Nat
    /\ DOMAIN s.dwell \subseteq 1 .. minted
    /\ \A date \in DOMAIN s.trend : s.trend[date] \in 1 .. Cardinality(Browsers)

NotAsked == [pc |-> "idle", window |-> <<>>, daily |-> 0, dwell |-> <<>>, trend |-> <<>>]

Init ==
    /\ owner \in Owners
    /\ skew \in Skews
    /\ now = 0
    /\ cookie = [b \in Browsers |-> NoCookie]
    /\ tab = [t \in Tabs |-> NoPage]
    /\ turn = [t \in Tabs |-> Idle]
    /\ turns = 0 /\ minted = 0
    /\ posts = {}
    /\ visits = {}
    /\ stats = NotAsked
    /\ made = <<>>
    /\ active = [b \in Browsers |-> Never]
    /\ begun = [b \in Browsers |-> Never]

Resting == \A t \in Tabs : turn[t].pc = "idle"

Tick ==
    /\ now < MaxTime
    /\ Resting
    /\ \A p \in posts : now < p.from + MaxDelay
    /\ now' = now + 1
    /\ UNCHANGED <<owner, skew, clients, posts, server, stats>>

-----------------------------------------------------------------------------
(* session-tracker.ts: what makes a tab report.  The events of the browser  *)
(* change the page, and sendWebEvent begins by reading the session id.      *)

ClientNow == now + skew

(* readCookie: nothing when the cookie has expired. *)
SessionId(b) == IF ClientNow < cookie[b].until THEN cookie[b].id ELSE 0

Report(t, type) ==
    /\ turn[t].pc = "idle" /\ turns < MaxTurns
    /\ turns' = turns + 1
    /\ turn' = [turn EXCEPT ![t] = [pc |-> "seen", type |-> type, isNew |-> FALSE,
                                    id |-> SessionId(owner[t]),
                                    quiet |-> active[owner[t]],
                                    begun |-> begun[owner[t]]]]
    /\ UNCHANGED <<owner, skew, now, cookie, minted, active, begun, posts, server, stats>>

(* mount, in the foreground or in the background *)
Mount(t, visible) ==
    /\ ~tab[t].open
    /\ Report(t, "visit_start")
    /\ tab' = [tab EXCEPT ![t] = [open |-> TRUE, visible |-> visible, timer |-> TRUE]]

Heartbeat(t) ==
    /\ tab[t].timer /\ tab[t].visible
    /\ Report(t, "heartbeat")
    /\ UNCHANGED tab

(* handleVisibilityChange *)
Hide(t) ==
    /\ tab[t].visible
    /\ Report(t, "visit_end")
    /\ tab' = [tab EXCEPT ![t].visible = FALSE, ![t].timer = FALSE]

Show(t) ==
    /\ tab[t].open /\ ~tab[t].visible
    /\ Report(t, "visit_start")
    /\ tab' = [tab EXCEPT ![t].visible = TRUE, ![t].timer = TRUE]

(* handlePageHide *)
Leave(t) ==
    /\ tab[t].open
    /\ Report(t, "visit_end")
    /\ tab' = [tab EXCEPT ![t] = NoPage]

-----------------------------------------------------------------------------
(* web-session-store.ts *)

(* The second cookie is written by every report: when the browser drops it, *)
(* the session has expired long before.                                     *)
IsExpired(seen, at) == seen = Never \/ at - seen > SessionTimeout

(* getOrCreateWebSession reads the second cookie and decides. *)
ReadSeen(t) ==
    /\ turn[t].pc = "seen"
    /\ LET b == owner[t]
       IN  IF turn[t].id = 0 \/ IsExpired(cookie[b].seen, ClientNow)
           THEN /\ minted' = minted + 1
                /\ turn' = [turn EXCEPT ![t].pc = "id", ![t].id = minted + 1,
                                        ![t].isNew = TRUE]
           ELSE /\ turn' = [turn EXCEPT ![t].pc = "post"]
                /\ UNCHANGED minted
    /\ UNCHANGED <<owner, skew, now, cookie, tab, turns, active, begun, posts, server, stats>>

(* Variant: the cookie lives as long as a session may be silent. *)
IdExpiresWithSession == ClientNow + SessionTimeout

IdExpires == ClientNow + CookieAge

(* web_session_id is written once: a report later on does not renew it. *)
WriteId(t) ==
    /\ turn[t].pc = "id"
    /\ cookie' = [cookie EXCEPT ![owner[t]].id = turn[t].id,
                                ![owner[t]].until = IdExpires]
    /\ begun' = [begun EXCEPT ![owner[t]] = now]
    /\ turn' = [turn EXCEPT ![t].pc = "post"]
    /\ UNCHANGED <<owner, skew, now, tab, turns, minted, active, posts, server, stats>>

NewPost(t, type, next) ==
    [n |-> turns, anon |-> owner[t], session |-> turn[t].id, type |-> type,
     ts |-> ClientNow, next |-> next, from |-> now, made |-> now,
     chained |-> FALSE, stored |-> FALSE]

(* Variant: the event does not wait for the visit_start before it. *)
PostsAtOnce(t) ==
    IF turn[t].isNew /\ turn[t].type # "visit_start"
    THEN {NewPost(t, "visit_start", "none"),
          [NewPost(t, turn[t].type, "none") EXCEPT !.chained = TRUE]}
    ELSE {NewPost(t, turn[t].type, "none")}

(* An event that found a new session follows a visit_start. *)
PostsOf(t) ==
    IF turn[t].isNew /\ turn[t].type # "visit_start"
    THEN {NewPost(t, "visit_start", turn[t].type)}
    ELSE {NewPost(t, turn[t].type, "none")}

(* The second cookie is written, and the post is on its way. *)
WriteSeen(t) ==
    /\ turn[t].pc = "post"
    /\ cookie' = [cookie EXCEPT ![owner[t]].seen = ClientNow]
    /\ posts' = posts \cup PostsOf(t)
    /\ active' = [active EXCEPT ![owner[t]] = now]
    /\ turn' = [turn EXCEPT ![t] = Idle]
    /\ UNCHANGED <<owner, skew, now, tab, turns, minted, begun, server, stats>>

-----------------------------------------------------------------------------
(* The posts, in any order. *)

(* post_web_event stores the event; the answer is on its way if anything    *)
(* waits for it.                                                            *)
Store(p) ==
    /\ ~p.stored
    /\ visits' = InsertVisit(visits, p, now)
    /\ made' = Append(made, [time |-> p.made, chained |-> p.chained])
    /\ posts' = (posts \ {p}) \cup
                (IF p.next = "none" THEN {} ELSE {[p EXCEPT !.stored = TRUE]})
    /\ UNCHANGED <<owner, skew, now, clients, stats>>

(* A post is lost, rejected or times out, before it is stored or after: the *)
(* event that waits for it is not sent.                                     *)
PostFails(p) ==
    /\ posts' = posts \ {p}
    /\ UNCHANGED <<owner, skew, now, clients, server, stats>>

(* The answer to a visit_start: its event follows, with the same clientTs.  *)
Answer(p) ==
    /\ p.stored
    /\ posts' = (posts \ {p}) \cup
                {[p EXCEPT !.type = p.next, !.next = "none", !.from = now,
                           !.chained = TRUE, !.stored = FALSE]}
    /\ UNCHANGED <<owner, skew, now, clients, server, stats>>

-----------------------------------------------------------------------------
(* get_web_stats: one connection, and a read of its own for every query.    *)

Ask(pc, step) ==
    /\ stats.pc = pc
    /\ stats' = step
    /\ UNCHANGED <<owner, skew, now, clients, posts, server>>

AskWindow(days) ==
    Ask("idle", [stats EXCEPT !.pc = "daily", !.window = BuildWindow(now, days)])

AskDaily == Ask("daily", [stats EXCEPT !.pc = "sessions",
                                       !.daily = DailyVisitors(visits, stats.window)])

AskSessions == Ask("sessions", [stats EXCEPT !.pc = "trend",
                                   !.dwell = SessionDwell(visits, stats.window.since)])

AskTrend == Ask("trend", [stats EXCEPT !.pc = "breakdown",
                                !.trend = VisitorTrend(visits, stats.window.since)])

(* The last query, and the answer. *)
AskBreakdown == Ask("breakdown", NotAsked)

-----------------------------------------------------------------------------
Client(t) ==
    \/ \E visible \in BOOLEAN : Mount(t, visible)
    \/ Heartbeat(t) \/ Hide(t) \/ Show(t) \/ Leave(t)
    \/ ReadSeen(t) \/ WriteId(t) \/ WriteSeen(t)

(* A turn is over before anything arrives anywhere.                         *)
Network == Resting /\ \E p \in posts : Store(p) \/ PostFails(p) \/ Answer(p)

Dashboard ==
    /\ Resting
    /\ \/ \E days \in DaysAsked : AskWindow(days)
       \/ AskDaily \/ AskSessions \/ AskTrend \/ AskBreakdown

Next == Tick \/ (\E t \in Tabs : Client(t)) \/ Network \/ Dashboard

Spec == Init /\ [][Next]_vars

-----------------------------------------------------------------------------
TypeOK ==
    /\ owner \in Owners /\ skew \in Skews /\ now \in 0 .. MaxTime
    /\ cookie \in [Browsers -> [id : Nat, until : Int, seen : Int]]
    /\ tab \in [Tabs -> Page] /\ turn \in [Tabs -> Turn]
    /\ turns \in 0 .. MaxTurns /\ minted \in Nat
    /\ posts \subseteq Post /\ visits \subseteq VisitRow
    /\ {v.id : v \in visits} = DOMAIN made /\ Asking(stats)

(* A new session begins only after a pause of all tabs of the browser, or   *)
(* when the last one has gone on for the life of its cookie: otherwise what *)
(* all tabs report is one session (getOrCreateWebSession, whose cookies are *)
(* read and written by all tabs in any order).                              *)
NewSessionOnlyWhenDue ==
    \A t \in Tabs : turn[t].isNew =>
        \/ turn[t].quiet = Never
        \/ now - turn[t].quiet > SessionTimeout
        \/ turn[t].begun # Never /\ now - turn[t].begun >= CookieAge

(* An event that found its session new is in the table only behind the      *)
(* visit_start of that session, and not under an earlier time, although the *)
(* two are posts of their own and the server sets their times one by one.   *)
StartBeforeFirstEvent ==
    \A v \in visits : made[v.id].chained =>
        \E s \in visits : /\ s.session = v.session /\ s.type = "visit_start"
                          /\ s.id < v.id /\ s.at <= v.at

(* What the dashboard gives as the dwell time of a session is off by no     *)
(* more than the tolerance for the client's clock and the time its posts    *)
(* took, however wrong that clock is: the server must not use the clock for *)
(* some events of a session and its own for others further apart.           *)
DwellErrorIsBounded ==
    LET dwell == SessionDwell(visits, Never)
        error == FutureTolerance + 2 * MaxDelay
    IN  \A s \in DOMAIN dwell :
            LET times == {made[v.id].time : v \in {w \in visits : w.session = s}}
                true  == Max(times) - Min(times)
            IN  /\ dwell[s] <= true + error
                /\ dwell[s] >= true - error \/ dwell[s] = DwellCap

(* The numbers of one answer fit together although each comes from a read   *)
(* of its own: the visitors of today are among those of today's date in the *)
(* trend, which computes the day in Seoul in another way, and every session *)
(* has an event in the breakdowns.                                          *)
AnswerFitsTogether ==
    [][AskBreakdown =>
          /\ stats.daily > 0 => LET today == KstDate(stats.window.start)
                                IN  /\ today \in DOMAIN stats.trend
                                    /\ stats.daily <= stats.trend[today]
          /\ Cardinality(DOMAIN stats.dwell) <= BreakdownTotal(visits, stats.window.since)]_vars
=============================================================================
