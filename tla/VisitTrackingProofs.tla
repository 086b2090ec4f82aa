------------------------- MODULE VisitTrackingProofs -------------------------
(***************************************************************************)
(* Theorems about WebVisits and VisitTracking for every value of their     *)
(* constants: any number of browsers and tabs, clocks off by any amount,   *)
(* and posts lost or late in any order.                                    *)
(***************************************************************************)
EXTENDS VisitTracking, FiniteSetTheorems, WellFoundedInduction, TLAPS

-----------------------------------------------------------------------------
(* The inductive invariant. *)

ClientTypes ==
    /\ owner \in [Tabs -> Browsers] /\ owner \in Owners
    /\ skew \in Skews /\ skew \in Int /\ skew > Never
    /\ now \in 0 .. MaxTime
    /\ cookie \in [Browsers -> [id : Nat, until : Int, seen : Int]]
    /\ tab \in [Tabs -> Page] /\ turn \in [Tabs -> Turn]
    /\ turns \in 0 .. MaxTurns /\ minted \in Nat
    /\ active \in [Browsers -> Int] /\ begun \in [Browsers -> Int]

(* A browser that has reported has an id and the time of its last report,   *)
(* by its own clock, in the cookies: no tab writes one without the other.   *)
(* The id is dropped when the life of its cookie is over.                   *)
CookieFollows(b) ==
    /\ active[b] = Never \/ active[b] \in 0 .. now
    /\ active[b] # Never => cookie[b].id # 0 /\ cookie[b].seen = active[b] + skew
    /\ cookie[b].id # 0 => /\ begun[b] \in 0 .. now
                           /\ cookie[b].until = begun[b] + skew + CookieAge

(* The session that a turn found has gone on for the life of its cookie.    *)
Outlived(r) == r.begun # Never /\ now - r.begun >= CookieAge

(* A turn that read no id began before the first report of the browser, or  *)
(* after its last session had outlived the cookie.                          *)
TurnFollows(t) ==
    LET r == turn[t]
        b == owner[t]
    IN  /\ r.pc = "idle" => ~r.isNew
        /\ r.quiet = Never \/ (active[b] # Never /\ r.quiet <= active[b])
        /\ r.pc = "seen" => IF r.id = 0 THEN r.quiet = Never \/ Outlived(r)
                                         ELSE cookie[b].id # 0
        /\ r.pc = "id" => r.id # 0
        /\ r.pc = "post" => r.id # 0 /\ cookie[b].id # 0
        /\ r.isNew => r.quiet = Never \/ now - r.quiet > SessionTimeout \/ Outlived(r)

TurnsFollow ==
    /\ \A b \in Browsers : CookieFollows(b)
    /\ \A t \in Tabs : TurnFollows(t)

SessionsAreMinted ==
    /\ \A b \in Browsers : cookie[b].id <= minted
    /\ \A t \in Tabs : turn[t].id <= minted
    /\ \A p \in posts : p.session \in 1 .. minted
    /\ \A v \in visits : v.session \in 1 .. minted

TableTypes ==
    /\ posts \subseteq Post /\ visits \subseteq VisitRow
    /\ IsFiniteSet(visits)
    /\ made \in Seq([time : Nat, chained : BOOLEAN])
    /\ Len(made) = Cardinality(visits)
    /\ {v.id : v \in visits} = 1 .. Cardinality(visits)

(* The visit_start of a session is stored, under no later time than an      *)
(* event of the same clientTs would be now.                                 *)
Started(p) ==
    \E s \in visits : /\ s.session = p.session /\ s.type = "visit_start"
                      /\ s.at <= ParseClientTs(p.ts, now)

(* What follows a visit_start is sent when that is in the table.            *)
ChainsAreStarted ==
    /\ \A p \in posts :
          /\ p.stored \/ p.chained => Started(p)
          /\ p.next # "none" => p.type = "visit_start" /\ ~p.chained
          /\ p.stored => p.next # "none"
    /\ StartBeforeFirstEvent

StatTypes ==
    /\ DOMAIN stats = {"pc", "window", "daily", "dwell", "trend"}
    /\ Asking(stats)

IInv ==
    /\ ClientTypes
    /\ TurnsFollow
    /\ TableTypes
    /\ SessionsAreMinted
    /\ ChainsAreStarted
    /\ StatTypes

-----------------------------------------------------------------------------
(* Lemmas about the server. *)

LEMMA Constants ==
    /\ {FutureTolerance, PastLimit, SeoulOffset, DwellCap} \subseteq Nat
    /\ IsFiniteSet(Browsers)
    /\ Owners \subseteq [Tabs -> Browsers]
    /\ \A s \in Skews : s \in Int /\ s > Never
    /\ {SessionTimeout, CookieAge, MaxDelay, MaxTurns, MaxTime} \subseteq Nat
    /\ Never \in Int /\ Never < 0
  BY WebVisitsAssumption, VisitTrackingAssumption DEF WebVisitsAssumption, VisitTrackingAssumption, Never

(* The time given to an event does not fall when it comes later. *)
LEMMA LaterIsNotEarlier ==
    ASSUME NEW ts \in Int, NEW m \in Nat, NEW n \in Nat, m <= n
    PROVE  /\ ParseClientTs(ts, m) \in Int
           /\ ParseClientTs(ts, m) <= ParseClientTs(ts, n)
  BY Constants DEF ParseClientTs

(* A row is added, under the next id. *)
LEMMA InsertAddsRow ==
    ASSUME TableTypes, NEW p \in Post, now \in Nat, p.session # 0,
           visits' = InsertVisit(visits, p, now)
    PROVE  \E row \in VisitRow :
              /\ row \notin visits
              /\ visits' = visits \cup {row}
              /\ row.id = Cardinality(visits) + 1
              /\ row.session = p.session /\ row.type = p.type
              /\ row.anon = p.anon /\ row.bot = (p.anon \in Bots)
              /\ row.at = ParseClientTs(p.ts, now)
              /\ visits' \subseteq VisitRow /\ IsFiniteSet(visits')
              /\ Cardinality(visits) \in Nat
              /\ Cardinality(visits') = Cardinality(visits) + 1
              /\ {v.id : v \in visits'} = 1 .. Cardinality(visits')
<1> DEFINE row == [id      |-> Cardinality(visits) + 1,
                   anon    |-> p.anon,
                   session |-> p.session,
                   type    |-> p.type,
                   at      |-> ParseClientTs(p.ts, now),
                   bot     |-> p.anon \in Bots]
<1>1. Cardinality(visits) \in Nat
  BY FS_CardinalityType DEF TableTypes
<1>2. row \in VisitRow
  <2>1. /\ p.anon \in Browsers /\ p.session \in Nat \ {0} /\ p.type \in EventTypes
        /\ p.ts \in Int
    BY DEF Post
  <2>2. ParseClientTs(p.ts, now) \in Int
    BY <2>1, LaterIsNotEarlier
  <2>3. (p.anon \in Bots) \in BOOLEAN
    OBVIOUS
  <2> QED
    BY <1>1, <2>1, <2>2, <2>3 DEF VisitRow
<1>3. row \notin visits
  <2>1. \A v \in visits : v.id \in 1 .. Cardinality(visits)
    BY DEF TableTypes
  <2>2. row.id = Cardinality(visits) + 1
    OBVIOUS
  <2> QED
    BY <1>1, <2>1, <2>2
<1>4. visits' = visits \cup {row}
  BY DEF InsertVisit
<1>5. IsFiniteSet(visits') /\ Cardinality(visits') = Cardinality(visits) + 1
  BY <1>3, <1>4, FS_AddElement DEF TableTypes
<1>6. /\ row.id = Cardinality(visits) + 1
      /\ row.session = p.session /\ row.type = p.type
      /\ row.anon = p.anon /\ row.bot = (p.anon \in Bots)
      /\ row.at = ParseClientTs(p.ts, now)
  OBVIOUS
<1> HIDE DEF row
<1>7. {v.id : v \in visits'} = {v.id : v \in visits} \cup {row.id}
  BY <1>4
<1>8. {v.id : v \in visits'} = 1 .. Cardinality(visits')
  <2> DEFINE n == Cardinality(visits)
  <2>1. {v.id : v \in visits'} = 1 .. n \cup {n + 1}
    BY <1>6, <1>7 DEF TableTypes
  <2> HIDE DEF n
  <2>2. n \in Nat => 1 .. n \cup {n + 1} = 1 .. n + 1
    OBVIOUS
  <2> QED
    BY <1>1, <1>5, <2>1, <2>2 DEF n
<1> QED
  BY <1>1, <1>2, <1>3, <1>4, <1>5, <1>6, <1>8 DEF TableTypes

(* A number of visitors is one, between 0 and all there are. *)
LEMMA VisitorsType ==
    ASSUME NEW rows \in SUBSET VisitRow
    PROVE  /\ Visitors(rows) \in 0 .. Cardinality(Browsers)
           /\ rows # {} => Visitors(rows) \in 1 .. Cardinality(Browsers)
<1> DEFINE who == {v.anon : v \in rows}
<1>1. who \subseteq Browsers
  BY DEF VisitRow
<1>2. /\ IsFiniteSet(who) /\ Cardinality(who) \in Nat /\ Cardinality(Browsers) \in Nat
      /\ Cardinality(who) <= Cardinality(Browsers)
  BY <1>1, Constants, FS_Subset, FS_CardinalityType
<1>3. rows # {} => who # {}
  OBVIOUS
<1>4. who # {} => Cardinality(who) # 0
  BY <1>2, FS_EmptySet
<1> QED
  BY <1>2, <1>3, <1>4 DEF Visitors

-----------------------------------------------------------------------------
(* The initial states. *)
LEMMA InitIInv == Init => IInv
<1> SUFFICES ASSUME Init PROVE IInv
  OBVIOUS
<1>1. ClientTypes
  BY Constants DEF Init, ClientTypes, NoCookie, Idle, NoPage, Page, Turn, EventTypes
<1>2. TurnsFollow
  BY <1>1 DEF Init, TurnsFollow, CookieFollows, TurnFollows, NoCookie, Idle, ClientTypes
<1>3. TableTypes
  <2>1. IsFiniteSet({}) /\ Cardinality({}) = 0
    BY FS_EmptySet
  <2> QED
    BY <2>1 DEF Init, TableTypes
<1>4. SessionsAreMinted
  BY <1>1 DEF Init, SessionsAreMinted, NoCookie, Idle, ClientTypes
<1>5. ChainsAreStarted
  BY DEF Init, ChainsAreStarted, StartBeforeFirstEvent
<1>6. StatTypes
  <2>1. stats = NotAsked
    BY DEF Init
  <2> QED
    BY <2>1 DEF StatTypes, Asking, NotAsked
<1> QED
  BY <1>1, <1>2, <1>3, <1>4, <1>5, <1>6 DEF IInv

-----------------------------------------------------------------------------
(* The steps of the tabs. *)

(* What the server has does not change while a tab takes a turn. *)
LEMMA ServerKept ==
    ASSUME IInv, UNCHANGED <<now, posts, server, stats>>, minted' \in Nat, minted <= minted'
    PROVE  /\ TableTypes' /\ ChainsAreStarted' /\ StatTypes'
           /\ \A p \in posts' : p.session \in 1 .. minted'
           /\ \A v \in visits' : v.session \in 1 .. minted'
<1>1. minted \in Nat
  BY DEF IInv, ClientTypes
<1>2. visits' = visits /\ made' = made /\ posts' = posts /\ now' = now /\ stats' = stats
  BY DEF server
<1>3. TableTypes'
  BY <1>2 DEF IInv, TableTypes
<1>4. ChainsAreStarted'
  <2>1. \A p \in posts : Started(p)' <=> Started(p)
    BY <1>2 DEF Started
  <2>2. StartBeforeFirstEvent'
    BY <1>2 DEF IInv, ChainsAreStarted, StartBeforeFirstEvent
  <2> QED
    BY <1>2, <2>1, <2>2 DEF IInv, ChainsAreStarted
<1>5. StatTypes'
  BY <1>1, <1>2 DEF IInv, StatTypes, Asking
<1> QED
  BY <1>1, <1>2, <1>3, <1>4, <1>5 DEF IInv, SessionsAreMinted

(* A turn begins. *)
LEMMA ReportStep ==
    ASSUME IInv, NEW t \in Tabs, NEW type \in EventTypes, Report(t, type),
           tab' \in [Tabs -> Page]
    PROVE  IInv'
<1> PICK b, r : b = owner[t] /\ r = [pc |-> "seen", type |-> type, isNew |-> FALSE,
                                     id |-> SessionId(b), quiet |-> active[b],
                                     begun |-> begun[b]]
  OBVIOUS
<1>0. /\ b \in Browsers /\ cookie[b] \in [id : Nat, until : Int, seen : Int]
      /\ active[b] \in Int /\ begun[b] \in Int /\ cookie[b].id <= minted
      /\ now \in Nat /\ minted \in Nat /\ skew \in Int
  BY Constants DEF IInv, ClientTypes, SessionsAreMinted
<1>1. /\ SessionId(b) \in Nat /\ SessionId(b) <= minted /\ r \in Turn
      /\ SessionId(b) # 0 => SessionId(b) = cookie[b].id
  <2>1. SessionId(b) = cookie[b].id \/ SessionId(b) = 0
    BY DEF SessionId
  <2>2. SessionId(b) \in Nat /\ SessionId(b) <= minted
    BY <1>0, <2>1
  <2> QED
    BY <1>0, <2>1, <2>2 DEF Turn
<1>2. /\ turn' = [turn EXCEPT ![t] = r] /\ turns' = turns + 1 /\ turns < MaxTurns
      /\ UNCHANGED <<owner, skew, now, cookie, minted, active, begun, posts, server, stats>>
  BY DEF Report
<1>3. /\ r.pc = "seen" /\ r.id = SessionId(b) /\ ~r.isNew /\ r.quiet = active[b]
      /\ r.begun = begun[b]
  OBVIOUS
<1> HIDE DEF Turn
<1>4. \A u \in Tabs : turn'[u] = IF u = t THEN r ELSE turn[u]
  BY <1>2 DEF IInv, ClientTypes
<1>5. ClientTypes'
  <2>1. turn' \in [Tabs -> Turn]
    BY <1>0, <1>1, <1>2 DEF IInv, ClientTypes
  <2>2. turns' \in 0 .. MaxTurns
    BY <1>2, Constants DEF IInv, ClientTypes
  <2> QED
    BY <1>2, <2>1, <2>2 DEF IInv, ClientTypes
<1>6. TurnsFollow'
  <2>1. \A a \in Browsers : CookieFollows(a)'
    BY <1>2 DEF IInv, TurnsFollow, CookieFollows
  <2>2. ASSUME NEW u \in Tabs PROVE TurnFollows(u)'
    <3>1. CASE u = t
      <4>1. turn'[u] = r /\ owner'[u] = b
        BY <1>2, <1>4, <3>1
      <4>2. CookieFollows(b)
        BY <1>0 DEF IInv, TurnsFollow
      <4>3. r.id = 0 => r.quiet = Never \/ Outlived(r)
        <5> SUFFICES ASSUME r.id = 0, active[b] # Never PROVE Outlived(r)
          BY <1>3
        <5>1. /\ cookie[b].id # 0 /\ begun[b] \in 0 .. now
              /\ cookie[b].until = begun[b] + skew + CookieAge
          BY <4>2 DEF CookieFollows
        <5>2. ~(now + skew < begun[b] + skew + CookieAge)
          BY <1>3, <5>1 DEF SessionId, ClientNow
        <5> QED
          BY <1>0, <1>3, <5>1, <5>2, Constants DEF Outlived
      <4>4. Outlived(r)' <=> Outlived(r)
        BY <1>2 DEF Outlived
      <4> QED
        BY <1>0, <1>1, <1>2, <1>3, <4>1, <4>2, <4>3, <4>4 DEF TurnFollows, CookieFollows
    <3>2. CASE u # t
      BY <1>2, <1>4, <3>2 DEF IInv, TurnsFollow, TurnFollows, Outlived
    <3> QED
      BY <3>1, <3>2
  <2> QED
    BY <2>1, <2>2 DEF TurnsFollow
<1>7. SessionsAreMinted'
  BY <1>0, <1>1, <1>2, <1>3, <1>4, ServerKept DEF IInv, SessionsAreMinted, ClientTypes
<1> QED
  BY <1>2, <1>5, <1>6, <1>7, ServerKept DEF IInv, ClientTypes

(* The second cookie is read: a session begins only where the browser has   *)
(* reported nothing yet, or nothing for the timeout, or dropped the id.     *)
LEMMA ReadSeenStep ==
    ASSUME IInv, NEW t \in Tabs, ReadSeen(t)
    PROVE  IInv'
<1> PICK b, old : b = owner[t] /\ old = turn[t]
  OBVIOUS
<1>1. /\ b \in Browsers /\ old \in Turn /\ old.pc = "seen" /\ minted \in Nat /\ now \in Nat
      /\ cookie[b].seen \in Int /\ active[b] \in Int /\ skew \in Int /\ skew > Never
      /\ CookieFollows(b) /\ TurnFollows(t) /\ old.id <= minted
  BY Constants DEF ReadSeen, IInv, ClientTypes, TurnsFollow, SessionsAreMinted
<1>2. PICK r : /\ turn' = [turn EXCEPT ![t] = r]
               /\ \/ /\ r = [old EXCEPT !.pc = "id", !.id = minted + 1, !.isNew = TRUE]
                     /\ minted' = minted + 1
                     /\ old.id = 0 \/ IsExpired(cookie[b].seen, ClientNow)
                  \/ /\ r = [old EXCEPT !.pc = "post"]
                     /\ minted' = minted
                     /\ old.id # 0
  BY DEF ReadSeen
<1>3. UNCHANGED <<owner, skew, now, cookie, tab, turns, active, begun, posts, server, stats>>
  BY DEF ReadSeen
<1>old. /\ old.pc = "seen" /\ old.id \in Nat /\ old.isNew \in BOOLEAN /\ old.quiet \in Int
        /\ old.type \in EventTypes /\ old.begun \in Int
        /\ old = [pc |-> old.pc, type |-> old.type, id |-> old.id, isNew |-> old.isNew,
                  quiet |-> old.quiet, begun |-> old.begun]
  BY <1>1 DEF Turn
<1>new. \/ /\ r = [pc |-> "id", type |-> old.type, id |-> minted + 1, isNew |-> TRUE,
                   quiet |-> old.quiet, begun |-> old.begun]
           /\ minted' = minted + 1
           /\ old.id = 0 \/ IsExpired(cookie[b].seen, ClientNow)
        \/ /\ r = [pc |-> "post", type |-> old.type, id |-> old.id, isNew |-> old.isNew,
                   quiet |-> old.quiet, begun |-> old.begun]
           /\ minted' = minted
           /\ old.id # 0
  <2>1. CASE r = [old EXCEPT !.pc = "id", !.id = minted + 1, !.isNew = TRUE]
             /\ minted' = minted + 1 /\ (old.id = 0 \/ IsExpired(cookie[b].seen, ClientNow))
    BY <1>old, <2>1
  <2>2. CASE r = [old EXCEPT !.pc = "post"] /\ minted' = minted /\ old.id # 0
    BY <1>old, <2>2
  <2> QED
    BY <1>2, <2>1, <2>2
<1>4. /\ r \in Turn /\ r.quiet = old.quiet /\ r.begun = old.begun
      /\ r.id \in Nat /\ r.id <= minted'
      /\ minted' \in Nat /\ minted <= minted' /\ old.quiet \in Int
  <2>1. CASE /\ r = [pc |-> "id", type |-> old.type, id |-> minted + 1, isNew |-> TRUE,
                      quiet |-> old.quiet, begun |-> old.begun]
             /\ minted' = minted + 1
    <3>1. minted + 1 \in Nat /\ minted <= minted + 1
      BY <1>1
    <3>2. /\ r.quiet = old.quiet /\ r.begun = old.begun /\ r.id = minted + 1 /\ r \in Turn
      BY <1>old, <2>1, <3>1 DEF Turn
    <3> QED
      BY <1>old, <2>1, <3>1, <3>2
  <2>2. CASE /\ r = [pc |-> "post", type |-> old.type, id |-> old.id, isNew |-> old.isNew,
                      quiet |-> old.quiet, begun |-> old.begun]
             /\ minted' = minted
    <3>1. /\ r.quiet = old.quiet /\ r.begun = old.begun /\ r.id = old.id /\ r \in Turn
      BY <1>old, <2>2 DEF Turn
    <3> QED
      BY <1>1, <1>old, <2>2, <3>1
  <2> QED
    BY <1>new, <2>1, <2>2
<1>5. \/ r.pc = "id" /\ r.id # 0 /\ r.isNew
         /\ (old.id = 0 \/ IsExpired(cookie[b].seen, ClientNow))
      \/ r.pc = "post" /\ r.id = old.id /\ r.id # 0 /\ r.isNew = old.isNew
  BY <1>1, <1>old, <1>new
<1>6. \A u \in Tabs : turn'[u] = IF u = t THEN r ELSE turn[u]
  BY <1>2 DEF IInv, ClientTypes
<1>7. ClientTypes'
  BY <1>2, <1>3, <1>4 DEF IInv, ClientTypes
<1>8. TurnsFollow'
  <2>1. \A a \in Browsers : CookieFollows(a)'
    BY <1>3 DEF IInv, TurnsFollow, CookieFollows
  <2>2. ASSUME old.id = 0 \/ IsExpired(cookie[b].seen, ClientNow)
        PROVE  old.quiet = Never \/ now - old.quiet > SessionTimeout \/ Outlived(old)
    <3>1. CASE old.id = 0
      BY <1>1, <3>1 DEF TurnFollows
    <3>2. CASE active[b] = Never
      BY <1>1, <3>2 DEF TurnFollows
    <3>3. CASE active[b] # Never /\ IsExpired(cookie[b].seen, ClientNow)
      <4>1. active[b] \in 0 .. now /\ cookie[b].seen = active[b] + skew
        BY <1>1, <3>3 DEF CookieFollows
      <4>2. (now + skew) - (active[b] + skew) > SessionTimeout
        BY <1>1, <3>3, <4>1, Constants DEF IsExpired, ClientNow
      <4>3. old.quiet = Never \/ old.quiet <= active[b]
        BY <1>1 DEF TurnFollows
      <4> QED
        BY <1>1, <1>4, <4>1, <4>2, <4>3, Constants
    <3> QED
      BY <2>2, <3>1, <3>2, <3>3
  <2>3. TurnFollows(t)'
    <3>1. turn'[t] = r /\ owner'[t] = b
      BY <1>3, <1>6
    <3>2. r.quiet = Never \/ (active[b] # Never /\ r.quiet <= active[b])
      BY <1>1, <1>4 DEF TurnFollows
    <3>3. r.isNew => r.quiet = Never \/ now - r.quiet > SessionTimeout \/ Outlived(r)
      BY <1>1, <1>4, <1>5, <2>2 DEF TurnFollows, Outlived
    <3>4. r.pc = "post" => cookie[b].id # 0
      BY <1>1, <1>5 DEF TurnFollows
    <3>5. Outlived(r)' <=> Outlived(r)
      BY <1>3 DEF Outlived
    <3> QED
      BY <1>3, <1>5, <3>1, <3>2, <3>3, <3>4, <3>5 DEF TurnFollows
  <2>4. ASSUME NEW u \in Tabs, u # t PROVE TurnFollows(u)'
    BY <1>3, <1>6, <2>4 DEF IInv, TurnsFollow, TurnFollows, Outlived
  <2> QED
    BY <2>1, <2>3, <2>4 DEF TurnsFollow
<1>9. SessionsAreMinted'
  <2>1. \A a \in Browsers : cookie'[a].id <= minted'
    BY <1>1, <1>3, <1>4 DEF IInv, SessionsAreMinted, ClientTypes
  <2>2. \A u \in Tabs : turn'[u].id <= minted'
    BY <1>1, <1>4, <1>6 DEF IInv, SessionsAreMinted, ClientTypes, Turn
  <2> QED
    BY <1>3, <1>4, <2>1, <2>2, ServerKept DEF SessionsAreMinted
<1> QED
  BY <1>3, <1>4, <1>7, <1>8, <1>9, ServerKept DEF IInv

(* The id of a new session is written down. *)
LEMMA WriteIdStep ==
    ASSUME IInv, NEW t \in Tabs, WriteId(t)
    PROVE  IInv'
<1> PICK b, r, c : /\ b = owner[t] /\ r = [turn[t] EXCEPT !.pc = "post"]
                   /\ c = [cookie[b] EXCEPT !.id = turn[t].id, !.until = IdExpires]
  OBVIOUS
<1>1. /\ b \in Browsers /\ turn[t] \in Turn /\ turn[t].pc = "id" /\ TurnFollows(t)
      /\ cookie[b] \in [id : Nat, until : Int, seen : Int] /\ turn[t].id <= minted
      /\ now \in Nat /\ skew \in Int /\ IdExpires = now + skew + CookieAge /\ IdExpires \in Int
  BY Constants DEF WriteId, IInv, ClientTypes, TurnsFollow, SessionsAreMinted, IdExpires, ClientNow
<1>2. /\ turn' = [turn EXCEPT ![t] = r] /\ cookie' = [cookie EXCEPT ![b] = c]
      /\ begun' = [begun EXCEPT ![b] = now]
      /\ UNCHANGED <<owner, skew, now, tab, turns, minted, active, posts, server, stats>>
  BY <1>1 DEF WriteId, IInv, ClientTypes
<1>3. /\ r \in Turn /\ r.pc = "post" /\ r.id = turn[t].id /\ r.isNew = turn[t].isNew
      /\ r.quiet = turn[t].quiet /\ r.begun = turn[t].begun /\ r.id # 0
      /\ c \in [id : Nat, until : Int, seen : Int] /\ c.id = r.id /\ c.seen = cookie[b].seen
      /\ c.until = now + skew + CookieAge
  BY <1>1 DEF Turn, TurnFollows
<1>4. /\ \A u \in Tabs : turn'[u] = IF u = t THEN r ELSE turn[u]
      /\ \A a \in Browsers : /\ cookie'[a] = IF a = b THEN c ELSE cookie[a]
                             /\ begun'[a] = IF a = b THEN now ELSE begun[a]
  BY <1>2 DEF IInv, ClientTypes
<1>5. ClientTypes'
  <2>1. now \in Int
    BY <1>1
  <2> QED
    BY <1>1, <1>2, <1>3, <2>1 DEF IInv, ClientTypes
<1>6. TurnsFollow'
  <2>1. ASSUME NEW a \in Browsers PROVE CookieFollows(a)'
    <3>1. CookieFollows(a) /\ now' = now /\ skew' = skew /\ active' = active
      BY <1>2 DEF IInv, TurnsFollow
    <3>2. CASE a = b
      <4>1. cookie'[a] = c /\ begun'[a] = now
        BY <1>4, <3>2
      <4> QED
        BY <1>1, <1>3, <3>1, <3>2, <4>1 DEF CookieFollows
    <3>3. CASE a # b
      <4>1. cookie'[a] = cookie[a] /\ begun'[a] = begun[a]
        BY <1>4, <3>3
      <4> QED
        BY <3>1, <4>1 DEF CookieFollows
    <3> QED
      BY <3>2, <3>3
  <2>2. TurnFollows(t)'
    <3>1. /\ turn'[t] = r /\ owner'[t] = b /\ now' = now /\ active' = active
          /\ cookie'[b].id = r.id
      BY <1>1, <1>2, <1>3, <1>4
    <3>2. /\ r.quiet = Never \/ (active[b] # Never /\ r.quiet <= active[b])
          /\ r.isNew => r.quiet = Never \/ now - r.quiet > SessionTimeout \/ Outlived(r)
      BY <1>1, <1>3 DEF TurnFollows, Outlived
    <3>3. Outlived(r)' <=> Outlived(r)
      BY <3>1 DEF Outlived
    <3> QED
      BY <1>3, <3>1, <3>2, <3>3 DEF TurnFollows
  <2>3. ASSUME NEW u \in Tabs, u # t PROVE TurnFollows(u)'
    <3>1. cookie[owner[u]].id # 0 => cookie'[owner[u]].id # 0
      BY <1>3, <1>4 DEF IInv, ClientTypes
    <3> QED
      BY <1>2, <1>4, <2>3, <3>1 DEF IInv, TurnsFollow, TurnFollows, Outlived
  <2> QED
    BY <2>1, <2>2, <2>3 DEF TurnsFollow
<1>7. SessionsAreMinted'
  BY <1>1, <1>2, <1>3, <1>4 DEF IInv, SessionsAreMinted, server
<1> QED
  BY <1>2, <1>5, <1>6, <1>7, ServerKept DEF IInv, ClientTypes

(* What a turn sends: one post, not yet stored, of its session. *)
LEMMA PostsOfTurn ==
    ASSUME ClientTypes, NEW t \in Tabs, turn[t].id # 0
    PROVE  \E p \in Post : /\ PostsOf(t) = {p}
                           /\ p.session = turn[t].id /\ p.anon = owner[t]
                           /\ p.made = now /\ p.from = now /\ p.ts = now + skew
                           /\ ~p.stored /\ ~p.chained
                           /\ p.next # "none" => p.type = "visit_start"
<1> PICK type, next : /\ PostsOf(t) = {NewPost(t, type, next)}
                      /\ type \in EventTypes /\ next \in EventTypes \cup {"none"}
                      /\ next # "none" => type = "visit_start"
  <2>1. turn[t].type \in EventTypes
    BY DEF ClientTypes, Turn
  <2>2. CASE turn[t].isNew /\ turn[t].type # "visit_start"
    BY <2>1, <2>2 DEF PostsOf, EventTypes
  <2>3. CASE ~(turn[t].isNew /\ turn[t].type # "visit_start")
    BY <2>1, <2>3 DEF PostsOf
  <2> QED
    BY <2>2, <2>3
<1>1. /\ turns \in Nat /\ owner[t] \in Browsers /\ turn[t].id \in Nat /\ ClientNow \in Int
      /\ now \in Nat
  BY Constants DEF ClientTypes, Turn, ClientNow
<1>2. NewPost(t, type, next) \in Post
  BY <1>1 DEF NewPost, Post
<1>3. /\ NewPost(t, type, next).session = turn[t].id
      /\ NewPost(t, type, next).anon = owner[t] /\ NewPost(t, type, next).made = now
      /\ NewPost(t, type, next).from = now /\ NewPost(t, type, next).ts = now + skew
      /\ ~NewPost(t, type, next).stored /\ ~NewPost(t, type, next).chained
      /\ NewPost(t, type, next).next = next /\ NewPost(t, type, next).type = type
  BY DEF NewPost, ClientNow
<1> QED
  BY <1>2, <1>3

(* A turn ends: the browser has reported now, and nobody had earlier. *)
LEMMA WriteSeenStep ==
    ASSUME IInv, NEW t \in Tabs, WriteSeen(t)
    PROVE  IInv'
<1> PICK b, c : b = owner[t] /\ c = [cookie[b] EXCEPT !.seen = now + skew]
  OBVIOUS
<1>1. /\ b \in Browsers /\ turn[t].pc = "post" /\ turn[t].id \in Nat /\ turn[t].id # 0
      /\ cookie[b] \in [id : Nat, until : Int, seen : Int] /\ cookie[b].id # 0 /\ turn[t].id <= minted
      /\ now \in Nat /\ skew \in Int /\ minted \in Nat
  BY Constants DEF WriteSeen, IInv, ClientTypes, TurnsFollow, TurnFollows, SessionsAreMinted, Turn
<1>2. /\ turn' = [turn EXCEPT ![t] = Idle]
      /\ cookie' = [cookie EXCEPT ![b] = c]
      /\ active' = [active EXCEPT ![b] = now]
      /\ posts' = posts \cup PostsOf(t)
      /\ UNCHANGED <<owner, skew, now, tab, turns, minted, begun, visits, made, stats>>
  BY DEF WriteSeen, ClientNow, server
<1>3. /\ c \in [id : Nat, until : Int, seen : Int] /\ c.id = cookie[b].id /\ c.seen = now + skew
      /\ c.until = cookie[b].until
      /\ Idle \in Turn
  BY <1>1 DEF Idle, Turn, EventTypes, Never
<1>4. /\ \A u \in Tabs : turn'[u] = IF u = t THEN Idle ELSE turn[u]
      /\ \A a \in Browsers : /\ cookie'[a] = IF a = b THEN c ELSE cookie[a]
                             /\ active'[a] = IF a = b THEN now ELSE active[a]
  BY <1>2 DEF IInv, ClientTypes
<1>5. PICK p \in Post : /\ PostsOf(t) = {p}
                        /\ p.session = turn[t].id
                        /\ ~p.stored /\ ~p.chained
                        /\ p.next # "none" => p.type = "visit_start"
  BY <1>1, PostsOfTurn DEF IInv
<1>6. ClientTypes'
  <2>1. now \in Int
    BY <1>1
  <2> QED
    BY <1>2, <1>3, <2>1 DEF IInv, ClientTypes
<1>7. TurnsFollow'
  <2>1. ASSUME NEW a \in Browsers PROVE CookieFollows(a)'
    <3>1. CASE a = b
      <4>1. CookieFollows(b)
        BY <1>1 DEF IInv, TurnsFollow
      <4> QED
        BY <1>1, <1>2, <1>3, <1>4, <3>1, <4>1 DEF CookieFollows
    <3>2. CASE a # b
      BY <1>2, <1>4, <3>2 DEF IInv, TurnsFollow, CookieFollows
    <3> QED
      BY <3>1, <3>2
  <2>2. TurnFollows(t)'
    BY <1>4 DEF TurnFollows, Idle
  <2>3. ASSUME NEW u \in Tabs, u # t PROVE TurnFollows(u)'
    <3>1. /\ turn'[u] = turn[u] /\ owner' = owner /\ now' = now
          /\ owner[u] \in Browsers /\ turn[u].quiet \in Int /\ active[owner[u]] \in Int
      BY <1>2, <1>4, <2>3 DEF IInv, ClientTypes, Turn
    <3>2. cookie[owner[u]].id # 0 => cookie'[owner[u]].id # 0
      BY <1>1, <1>3, <1>4, <3>1
    <3>3. /\ active[owner[u]] # Never => active[owner[u]] <= active'[owner[u]]
          /\ active[owner[u]] # Never => active'[owner[u]] # Never
      <4>1. active[owner[u]] = Never \/ active[owner[u]] \in 0 .. now
        BY <3>1 DEF IInv, TurnsFollow, CookieFollows
      <4> QED
        BY <1>1, <1>4, <3>1, <4>1, Constants
    <3>4. turn[u].quiet = Never
          \/ (active'[owner[u]] # Never /\ turn[u].quiet <= active'[owner[u]])
      <4>1. active'[owner[u]] \in Int
        BY <1>1, <1>4, <3>1
      <4> QED
        BY <3>1, <3>3, <4>1 DEF IInv, TurnsFollow, TurnFollows
    <3> QED
      BY <3>1, <3>2, <3>4 DEF IInv, TurnsFollow, TurnFollows, Outlived
  <2> QED
    BY <2>1, <2>2, <2>3 DEF TurnsFollow
<1>8. SessionsAreMinted'
  <2>1. p.session \in 1 .. minted
    BY <1>1, <1>5
  <2>2. \A a \in Browsers : cookie'[a].id <= minted
    BY <1>1, <1>3, <1>4 DEF IInv, SessionsAreMinted
  <2>3. \A u \in Tabs : turn'[u].id <= minted
    BY <1>1, <1>4 DEF IInv, SessionsAreMinted, Idle
  <2> QED
    BY <1>2, <1>5, <2>1, <2>2, <2>3 DEF IInv, SessionsAreMinted
<1>9. TableTypes'
  BY <1>2, <1>5 DEF IInv, TableTypes
<1>10. ChainsAreStarted'
  <2>1. \A q \in posts : Started(q)' <=> Started(q)
    BY <1>2 DEF Started
  <2>2. StartBeforeFirstEvent'
    BY <1>2 DEF IInv, ChainsAreStarted, StartBeforeFirstEvent
  <2> QED
    BY <1>2, <1>5, <2>1, <2>2 DEF IInv, ChainsAreStarted
<1>11. StatTypes'
  BY <1>2 DEF IInv, StatTypes, Asking
<1> QED
  BY <1>6, <1>7, <1>8, <1>9, <1>10, <1>11 DEF IInv

-----------------------------------------------------------------------------
(* Time passes only between turns, and no event gets an earlier time by it. *)
LEMMA TickStep ==
    ASSUME IInv, Tick
    PROVE  IInv'
<1>1. /\ now' = now + 1 /\ now < MaxTime /\ now \in Nat
      /\ UNCHANGED <<owner, skew, cookie, tab, turn, turns, minted, active, begun,
                     posts, visits, made, stats>>
      /\ \A t \in Tabs : turn[t].pc = "idle"
  BY Constants DEF Tick, clients, server, IInv, ClientTypes, Resting
<1>2. ClientTypes'
  BY <1>1, Constants DEF IInv, ClientTypes
<1>3. TurnsFollow'
  <2>1. \A b \in Browsers : CookieFollows(b)'
    BY <1>1, Constants DEF IInv, TurnsFollow, CookieFollows, ClientTypes
  <2>2. \A t \in Tabs : TurnFollows(t)'
    BY <1>1 DEF IInv, TurnsFollow, TurnFollows
  <2> QED
    BY <2>1, <2>2 DEF TurnsFollow
<1>4. SessionsAreMinted'
  BY <1>1 DEF IInv, SessionsAreMinted
<1>5. TableTypes'
  BY <1>1 DEF IInv, TableTypes
<1>6. ChainsAreStarted'
  <2>1. ASSUME NEW p \in posts, Started(p) PROVE Started(p)'
    <3>1. p.ts \in Int
      BY DEF IInv, TableTypes, Post
    <3>2. PICK s \in visits : /\ s.session = p.session /\ s.type = "visit_start"
                              /\ s.at <= ParseClientTs(p.ts, now) /\ s.at \in Int
      BY <2>1 DEF Started, IInv, TableTypes, VisitRow
    <3>3. /\ ParseClientTs(p.ts, now) \in Int /\ ParseClientTs(p.ts, now + 1) \in Int
          /\ ParseClientTs(p.ts, now) <= ParseClientTs(p.ts, now + 1)
      BY <1>1, <3>1, LaterIsNotEarlier
    <3>4. s.at <= ParseClientTs(p.ts, now')
      BY <1>1, <3>2, <3>3
    <3> QED
      BY <1>1, <3>2, <3>4 DEF Started
  <2>2. StartBeforeFirstEvent'
    BY <1>1 DEF IInv, ChainsAreStarted, StartBeforeFirstEvent
  <2> QED
    BY <1>1, <2>1, <2>2 DEF IInv, ChainsAreStarted
<1>7. StatTypes'
  BY <1>1 DEF IInv, StatTypes, Asking
<1> QED
  BY <1>2, <1>3, <1>4, <1>5, <1>6, <1>7 DEF IInv

-----------------------------------------------------------------------------
(* The steps of the posts. *)

(* The browsers do not notice. *)
LEMMA ClientsKept ==
    ASSUME IInv, UNCHANGED <<owner, skew, now, clients>>
    PROVE  /\ ClientTypes' /\ TurnsFollow'
           /\ minted' = minted
           /\ \A b \in Browsers : cookie'[b].id <= minted'
           /\ \A t \in Tabs : turn'[t].id <= minted'
<1>1. UNCHANGED <<owner, skew, now, cookie, tab, turn, turns, minted, active, begun>>
  BY DEF clients
<1>2. TurnsFollow'
  BY <1>1 DEF IInv, TurnsFollow, CookieFollows, TurnFollows, Outlived
<1> QED
  BY <1>1, <1>2 DEF IInv, ClientTypes, SessionsAreMinted

(* A post is stored: its row comes after those that were there. *)
LEMMA StoreStep ==
    ASSUME IInv, NEW p \in posts, Store(p)
    PROVE  IInv'
<1>1. /\ p \in Post /\ p.session \in 1 .. minted /\ now \in Nat /\ minted \in Nat /\ p.ts \in Int
      /\ ~p.stored /\ p.made \in Nat /\ p.chained \in BOOLEAN
  <2>1. p \in Post
    BY DEF IInv, TableTypes
  <2>2. p.ts \in Int /\ p.made \in Nat /\ p.chained \in BOOLEAN
    BY <2>1 DEF Post
  <2>3. p.session \in 1 .. minted /\ minted \in Nat /\ now \in Nat
    BY Constants DEF IInv, SessionsAreMinted, ClientTypes
  <2> QED
    BY <2>1, <2>2, <2>3 DEF Store
<1>2. /\ visits' = InsertVisit(visits, p, now)
      /\ made' = Append(made, [time |-> p.made, chained |-> p.chained])
      /\ posts' = (posts \ {p}) \cup
                  (IF p.next = "none" THEN {} ELSE {[p EXCEPT !.stored = TRUE]})
      /\ UNCHANGED <<owner, skew, now, clients, stats>>
  BY DEF Store
<1>3. PICK row \in VisitRow :
              /\ row \notin visits
              /\ visits' = visits \cup {row}
              /\ row.id = Cardinality(visits) + 1
              /\ row.session = p.session /\ row.type = p.type
              /\ row.at = ParseClientTs(p.ts, now)
              /\ visits' \subseteq VisitRow /\ IsFiniteSet(visits')
              /\ Cardinality(visits) \in Nat
              /\ Cardinality(visits') = Cardinality(visits) + 1
              /\ {v.id : v \in visits'} = 1 .. Cardinality(visits')
  BY <1>1, <1>2, InsertAddsRow DEF IInv
<1> PICK waiting : waiting = [p EXCEPT !.stored = TRUE]
  OBVIOUS
<1>4. /\ waiting \in Post /\ waiting.session = p.session /\ waiting.ts = p.ts
      /\ waiting.type = p.type /\ waiting.next = p.next /\ waiting.chained = p.chained
      /\ waiting.stored
  BY <1>1 DEF Post
<1>5. posts' \subseteq posts \cup {waiting} /\ (waiting \in posts' => p.next # "none" \/ waiting \in posts)
  BY <1>2
<1>6. TableTypes'
  <2>1. posts' \subseteq Post
    BY <1>4, <1>5 DEF IInv, TableTypes
  <2>2. [time |-> p.made, chained |-> p.chained] \in [time : Nat, chained : BOOLEAN]
    BY <1>1
  <2>3. /\ made' \in Seq([time : Nat, chained : BOOLEAN])
        /\ Len(made') = Len(made) + 1
    BY <1>2, <2>2 DEF IInv, TableTypes
  <2> QED
    BY <1>3, <2>1, <2>3 DEF IInv, TableTypes
<1>7. SessionsAreMinted'
  BY <1>1, <1>2, <1>3, <1>4, <1>5, ClientsKept DEF IInv, SessionsAreMinted
<1>8. \A q \in Post : Started(q) => Started(q)'
  BY <1>2, <1>3 DEF Started
<1>9. ASSUME p.type = "visit_start"
      PROVE  Started(waiting)'
  <2>1. row.at <= ParseClientTs(waiting.ts, now') /\ row \in visits'
    <3>1. row.at = ParseClientTs(waiting.ts, now) /\ row \in visits'
      BY <1>2, <1>3, <1>4
    <3>2. waiting.ts \in Int /\ now \in Nat /\ now' = now
      BY <1>1, <1>2, <1>4 DEF Post
    <3> QED
      BY <3>1, <3>2, LaterIsNotEarlier
  <2> QED
    BY <1>3, <1>4, <1>9, <2>1 DEF Started
<1>10. ChainsAreStarted'
  <2>1. ASSUME NEW q \in posts'
        PROVE  /\ q.stored \/ q.chained => Started(q)'
               /\ q.next # "none" => q.type = "visit_start" /\ ~q.chained
               /\ q.stored => q.next # "none"
    <3>1. CASE q \in posts
      BY <1>8, <3>1 DEF IInv, ChainsAreStarted, TableTypes
    <3>2. CASE q \notin posts
      <4>1. q = waiting /\ p.next # "none"
        BY <1>5, <2>1, <3>2
      <4> QED
        BY <1>4, <1>9, <4>1 DEF IInv, ChainsAreStarted
    <3> QED
      BY <3>1, <3>2
  <2>2. StartBeforeFirstEvent'
    <3> SUFFICES ASSUME NEW v \in visits', made'[v.id].chained
                 PROVE  \E s \in visits' : /\ s.session = v.session /\ s.type = "visit_start"
                                           /\ s.id < v.id /\ s.at <= v.at
      BY DEF StartBeforeFirstEvent
    <3>1. CASE v \in visits
      <4>1. v.id \in 1 .. Len(made)
        BY <3>1 DEF IInv, TableTypes
      <4>2. made'[v.id] = made[v.id]
        BY <1>2, <4>1 DEF IInv, TableTypes
      <4> QED
        BY <1>3, <3>1, <4>2 DEF IInv, ChainsAreStarted, StartBeforeFirstEvent
    <3>2. CASE v = row
      <4>1. made'[row.id] = [time |-> p.made, chained |-> p.chained]
        BY <1>2, <1>3 DEF IInv, TableTypes
      <4>2. p.chained
        BY <3>2, <4>1
      <4>3. PICK s \in visits : /\ s.session = p.session /\ s.type = "visit_start"
                                /\ s.at <= ParseClientTs(p.ts, now)
        BY <4>2 DEF IInv, ChainsAreStarted, Started
      <4>4. s.id \in 1 .. Cardinality(visits)
        BY DEF IInv, TableTypes
      <4>5. s.id < row.id
        BY <1>3, <4>4
      <4> QED
        BY <1>3, <3>2, <4>3, <4>5
    <3> QED
      BY <1>3, <3>1, <3>2
  <2> QED
    BY <2>1, <2>2 DEF ChainsAreStarted
<1>11. StatTypes'
  BY <1>2, ClientsKept DEF IInv, StatTypes, Asking
<1> QED
  BY <1>2, <1>6, <1>7, <1>10, <1>11, ClientsKept DEF IInv

(* A post is lost, or its event follows what was answered. *)
LEMMA OtherPostStep ==
    ASSUME IInv, NEW p \in posts, PostFails(p) \/ Answer(p)
    PROVE  IInv'
<1> PICK next : next = [p EXCEPT !.type = p.next, !.next = "none", !.from = now,
                                 !.chained = TRUE, !.stored = FALSE]
  OBVIOUS
<1>1. /\ UNCHANGED <<owner, skew, now, clients, visits, made, stats>>
      /\ posts' \subseteq posts \cup {next}
      /\ next \in posts' => next \in posts \/ p.stored
  BY DEF PostFails, Answer, server
<1>2. p \in Post /\ now \in Nat
  BY Constants DEF IInv, TableTypes, ClientTypes
<1>3. /\ next.session = p.session /\ next.ts = p.ts /\ next.next = "none" /\ ~next.stored
      /\ p.next # "none" => next \in Post
  BY <1>2 DEF Post
<1>4. p.stored => p.next # "none" /\ Started(p)
  BY DEF IInv, ChainsAreStarted
<1>5. TableTypes'
  <2>1. posts' \subseteq Post
    BY <1>1, <1>3, <1>4 DEF IInv, TableTypes
  <2> QED
    BY <1>1, <2>1 DEF IInv, TableTypes
<1>6. SessionsAreMinted'
  BY <1>1, <1>3, ClientsKept DEF IInv, SessionsAreMinted
<1>7. ChainsAreStarted'
  <2>1. \A q \in Post : Started(q)' <=> Started(q)
    BY <1>1 DEF Started
  <2>2. p.stored => Started(next)
    BY <1>3, <1>4 DEF Started
  <2>3. ASSUME NEW q \in posts'
        PROVE  /\ q.stored \/ q.chained => Started(q)'
               /\ q.next # "none" => q.type = "visit_start" /\ ~q.chained
               /\ q.stored => q.next # "none"
    <3>1. CASE q \in posts
      BY <2>1, <3>1 DEF IInv, ChainsAreStarted, TableTypes
    <3>2. CASE q \notin posts
      <4>1. q = next /\ p.stored
        BY <1>1, <2>3, <3>2
      <4> QED
        BY <1>3, <1>4, <2>1, <2>2, <4>1
    <3> QED
      BY <3>1, <3>2
  <2>4. StartBeforeFirstEvent'
    BY <1>1 DEF IInv, ChainsAreStarted, StartBeforeFirstEvent
  <2> QED
    BY <2>3, <2>4 DEF ChainsAreStarted
<1>8. StatTypes'
  BY <1>1, ClientsKept DEF IInv, StatTypes, Asking
<1> QED
  BY <1>1, <1>5, <1>6, <1>7, <1>8, ClientsKept DEF IInv

-----------------------------------------------------------------------------
(* The queries change nothing but the answer. *)
LEMMA DashboardStep ==
    ASSUME IInv, Dashboard
    PROVE  IInv'
<1>1. /\ UNCHANGED <<owner, skew, now, clients, posts, visits, made>>
      /\ \/ \E days \in DaysAsked :
               stats' = [stats EXCEPT !.pc = "daily", !.window = BuildWindow(now, days)]
         \/ stats' = [stats EXCEPT !.pc = "sessions",
                                   !.daily = DailyVisitors(visits, stats.window)]
         \/ stats' = [stats EXCEPT !.pc = "trend",
                                   !.dwell = SessionDwell(visits, stats.window.since)]
         \/ stats' = [stats EXCEPT !.pc = "breakdown",
                                   !.trend = VisitorTrend(visits, stats.window.since)]
         \/ stats' = NotAsked
  BY DEF Dashboard, AskWindow, AskDaily, AskSessions, AskTrend, AskBreakdown, Ask, server
<1>2. visits \subseteq VisitRow
  BY DEF IInv, TableTypes
<1>3. DailyVisitors(visits, stats.window) \in Nat
  <2> DEFINE rows == {v \in Counted(visits, stats.window.start) : v.at < stats.window.end}
  <2>1. rows \in SUBSET VisitRow
    BY <1>2 DEF Counted
  <2> HIDE DEF rows
  <2>2. Visitors(rows) \in Nat
    BY <2>1, VisitorsType
  <2> QED
    BY <2>2 DEF DailyVisitors, rows
<1>4. DOMAIN SessionDwell(visits, stats.window.since) \subseteq 1 .. minted
  BY DEF SessionDwell, Counted, IInv, SessionsAreMinted
<1>5. LET trend == VisitorTrend(visits, stats.window.since)
      IN  \A date \in DOMAIN trend : trend[date] \in 1 .. Cardinality(Browsers)
  <2> DEFINE rows == Counted(visits, stats.window.since)
             dates == {KstDate(v.at) : v \in rows}
             of(date) == {v \in rows : KstDate(v.at) = date}
  <2>1. rows \in SUBSET VisitRow
    BY <1>2 DEF Counted
  <2>2. ASSUME NEW date \in dates
        PROVE  Visitors(of(date)) \in 1 .. Cardinality(Browsers)
    <3>1. of(date) # {} /\ of(date) \in SUBSET VisitRow
      BY <2>1
    <3> QED
      BY <3>1, VisitorsType
  <2>3. VisitorTrend(visits, stats.window.since) = [date \in dates |-> Visitors(of(date))]
    BY DEF VisitorTrend
  <2> QED
    BY <2>2, <2>3
<1>6. StatTypes'
  <2>1. UNCHANGED minted
    BY <1>1 DEF clients
  <2>2. CASE \E days \in DaysAsked :
               stats' = [stats EXCEPT !.pc = "daily", !.window = BuildWindow(now, days)]
    BY <2>1, <2>2 DEF IInv, StatTypes, Asking
  <2>3. CASE stats' = [stats EXCEPT !.pc = "sessions",
                                   !.daily = DailyVisitors(visits, stats.window)]
    BY <1>3, <2>1, <2>3 DEF IInv, StatTypes, Asking
  <2>4. CASE stats' = [stats EXCEPT !.pc = "trend",
                                   !.dwell = SessionDwell(visits, stats.window.since)]
    BY <1>4, <2>1, <2>4 DEF IInv, StatTypes, Asking
  <2>5. CASE stats' = [stats EXCEPT !.pc = "breakdown",
                                   !.trend = VisitorTrend(visits, stats.window.since)]
    BY <1>5, <2>1, <2>5 DEF IInv, StatTypes, Asking
  <2>6. CASE stats' = NotAsked
    BY <2>6 DEF NotAsked, StatTypes, Asking
  <2> QED
    BY <1>1, <2>2, <2>3, <2>4, <2>5, <2>6
<1>7. TableTypes'
  BY <1>1 DEF IInv, TableTypes
<1>8. ChainsAreStarted'
  <2>1. \A q \in posts : Started(q)' <=> Started(q)
    BY <1>1 DEF Started
  <2>2. StartBeforeFirstEvent'
    BY <1>1 DEF IInv, ChainsAreStarted, StartBeforeFirstEvent
  <2> QED
    BY <1>1, <2>1, <2>2 DEF IInv, ChainsAreStarted
<1> QED
  BY <1>1, <1>6, <1>7, <1>8, ClientsKept DEF IInv, SessionsAreMinted

LEMMA StepIInv == IInv /\ [Next]_vars => IInv'
<1> SUFFICES ASSUME IInv, [Next]_vars
             PROVE  IInv'
  OBVIOUS
<1>1. ASSUME NEW t \in Tabs, Client(t)
      PROVE  IInv'
  <2>1. tab \in [Tabs -> Page]
    BY DEF IInv, ClientTypes
  <2>2. CASE \E visible \in BOOLEAN : Mount(t, visible)
    <3>1. tab' \in [Tabs -> Page]
      BY <2>1, <2>2 DEF Mount, Page
    <3> QED
      BY <2>2, <3>1, ReportStep DEF Mount, EventTypes
  <2>3. CASE Heartbeat(t)
    BY <2>1, <2>3, ReportStep DEF Heartbeat, EventTypes
  <2>4. CASE Hide(t)
    <3>1. tab' \in [Tabs -> Page]
      BY <2>1, <2>4 DEF Hide, Page
    <3> QED
      BY <2>4, <3>1, ReportStep DEF Hide, EventTypes
  <2>5. CASE Show(t)
    <3>1. tab' \in [Tabs -> Page]
      BY <2>1, <2>5 DEF Show, Page
    <3> QED
      BY <2>5, <3>1, ReportStep DEF Show, EventTypes
  <2>6. CASE Leave(t)
    <3>1. tab' \in [Tabs -> Page]
      BY <2>1, <2>6 DEF Leave, Page, NoPage
    <3> QED
      BY <2>6, <3>1, ReportStep DEF Leave, EventTypes
  <2> QED
    BY <1>1, <2>2, <2>3, <2>4, <2>5, <2>6, ReadSeenStep, WriteIdStep, WriteSeenStep DEF Client
<1>2. CASE Network
  BY <1>2, StoreStep, OtherPostStep DEF Network
<1>3. CASE UNCHANGED vars
  <2>1. /\ UNCHANGED <<owner, skew, now, clients, posts, server, stats>>
        /\ minted' = minted
    BY <1>3 DEF vars, clients
  <2>2. minted \in Nat
    BY DEF IInv, ClientTypes
  <2>3. minted' \in Nat /\ minted <= minted'
    BY <2>1, <2>2
  <2> QED
    BY <2>1, <2>3, ClientsKept, ServerKept DEF IInv, SessionsAreMinted
<1> QED
  BY <1>1, <1>2, <1>3, TickStep, DashboardStep DEF Next

-----------------------------------------------------------------------------
(* The tabs, the posts, the table and the answers are typed, and the ids of *)
(* the table are numbered without a gap, as record_web_visit_event and the  *)
(* queries leave them.                                                      *)
THEOREM TypeCorrect == Spec => []TypeOK
<1>1. IInv => TypeOK
  BY DEF IInv, ClientTypes, TableTypes, StatTypes, TypeOK
<1> QED
  BY InitIInv, StepIInv, <1>1, PTL DEF Spec

(* However the tabs of a browser overlap in reading and writing the cookies,*)
(* getOrCreateWebSession begins no session within the timeout of a report   *)
(* that had been made when the turn began, unless the last session had gone *)
(* on for the life of its cookie.                                           *)
THEOREM SessionsAreCutWhenDue == Spec => []NewSessionOnlyWhenDue
<1>1. IInv => NewSessionOnlyWhenDue
  BY DEF IInv, TurnsFollow, TurnFollows, Outlived, NewSessionOnlyWhenDue
<1> QED
  BY InitIInv, StepIInv, <1>1, PTL DEF Spec

(* However late posts are and however wrong a clock is, an event that waited*)
(* for the visit_start of its session is stored behind it (sendWebEvent).   *)
THEOREM StartsComeFirst == Spec => []StartBeforeFirstEvent
<1>1. IInv => StartBeforeFirstEvent
  BY DEF IInv, ChainsAreStarted
<1> QED
  BY InitIInv, StepIInv, <1>1, PTL DEF Spec

-----------------------------------------------------------------------------
(* How far the time of a row may be from that of its event. *)

Lowest ==
    IF skew >= 0 THEN 0 ELSE IF skew >= 0 - PastLimit THEN skew ELSE 0 - PastLimit

DwellError == FutureTolerance + 2 * MaxDelay

(* An event takes one delay, or two behind its visit_start. *)
PostInTime(p) ==
    /\ p.ts = p.made + skew
    /\ p.made <= p.from /\ p.from <= now /\ now <= p.from + MaxDelay
    /\ p.from <= p.made + (IF p.chained THEN MaxDelay ELSE 0)

RowInTime(v) ==
    LET m == made[v.id].time
    IN  /\ m \in 0 .. now
        /\ m + Lowest <= v.at /\ v.at <= m + Lowest + DwellError
        /\ v.bot <=> v.anon \in Bots

(* An id of a session stands for one browser, wherever it is written. *)
Named ==
    {<<cookie[b].id, b>> : b \in Browsers} \cup {<<turn[t].id, owner[t]>> : t \in Tabs}
    \cup {<<p.session, p.anon>> : p \in posts} \cup {<<v.session, v.anon>> : v \in visits}

OneBrowser ==
    \A x, y \in Named : x[1] = y[1] /\ x[1] # 0 => x[2] = y[2]

TimesInv ==
    /\ \A p \in posts : PostInTime(p)
    /\ \A v \in visits : RowInTime(v)
    /\ OneBrowser

(* The delay of an event, whatever its browser's clock shows, moves its row *)
(* by no more than DwellError: parse_client_ts takes the clock of the       *)
(* browser or the server's where they are no further apart.                 *)
LEMMA TimeOfRow ==
    ASSUME skew \in Int, NEW m \in Nat, NEW a \in Nat, m <= a, a <= m + 2 * MaxDelay
    PROVE  /\ m + Lowest <= ParseClientTs(m + skew, a)
           /\ ParseClientTs(m + skew, a) <= m + Lowest + DwellError
<1>1. FutureTolerance \in Nat /\ PastLimit \in Nat /\ MaxDelay \in Nat
  BY Constants
<1>2. CASE skew >= 0
  BY <1>1, <1>2 DEF Lowest, DwellError, ParseClientTs
<1>3. CASE skew < 0
  BY <1>1, <1>3 DEF Lowest, DwellError, ParseClientTs
<1> QED
  BY <1>2, <1>3

(* What Lowest may be. *)
LEMMA LowestType == ClientTypes => Lowest \in Int /\ Lowest > Never
  BY Constants DEF ClientTypes, Lowest

(* Names are kept, or are new. *)
LEMMA NamesKept ==
    ASSUME IInv, OneBrowser, NEW owner0,
           \A x \in Named' : \/ x \in Named \/ x[1] = 0
                             \/ x = <<minted + 1, owner0>>
    PROVE  OneBrowser'
<1>1. \A x \in Named : x[1] \in Nat /\ x[1] <= minted /\ minted \in Nat
  <2>1. minted \in Nat
    BY DEF IInv, ClientTypes
  <2>2. \A b \in Browsers : cookie[b].id \in Nat /\ cookie[b].id <= minted
    BY DEF IInv, ClientTypes, SessionsAreMinted
  <2>3. \A t \in Tabs : turn[t].id \in Nat /\ turn[t].id <= minted
    BY DEF IInv, ClientTypes, SessionsAreMinted, Turn
  <2>4. /\ \A p \in posts : p.session \in Nat /\ p.session <= minted
        /\ \A v \in visits : v.session \in Nat /\ v.session <= minted
    BY <2>1 DEF IInv, SessionsAreMinted
  <2> QED
    BY <2>1, <2>2, <2>3, <2>4 DEF Named
<1> SUFFICES ASSUME NEW x \in Named', NEW y \in Named', x[1] = y[1], x[1] # 0
             PROVE  x[2] = y[2]
  BY DEF OneBrowser
<1>2. \A z \in Named : z[1] # minted + 1
  BY <1>1
<1>3. (x \in Named \/ x = <<minted + 1, owner0>>) /\ (y \in Named \/ y = <<minted + 1, owner0>>)
  OBVIOUS
<1>4. CASE x \in Named /\ y \in Named
  BY <1>4 DEF OneBrowser
<1>5. CASE x = <<minted + 1, owner0>>
  BY <1>2, <1>3, <1>5
<1>6. CASE y = <<minted + 1, owner0>>
  BY <1>2, <1>3, <1>6
<1> QED
  BY <1>3, <1>4, <1>5, <1>6

(* Posts give their names to posts and rows. *)
LEMMA NamesStay ==
    ASSUME IInv, OneBrowser, UNCHANGED <<owner, cookie, turn>>, NEW p \in posts,
           \A q \in posts' : \E z \in posts : q.session = z.session /\ q.anon = z.anon,
           \A v \in visits' : v \in visits \/ (v.session = p.session /\ v.anon = p.anon)
    PROVE  OneBrowser'
<1>1. \A q \in posts' : <<q.session, q.anon>> \in Named
  BY DEF Named
<1>2. \A v \in visits' : <<v.session, v.anon>> \in Named
  BY DEF Named
<1>3. \A b \in Browsers : <<cookie'[b].id, b>> \in Named
  BY DEF Named
<1>4. \A t \in Tabs : <<turn'[t].id, owner'[t]>> \in Named
  BY DEF Named
<1>5. \A x \in Named' : x \in Named
  BY <1>1, <1>2, <1>3, <1>4 DEF Named
<1> QED
  BY <1>5, NamesKept

(* At first nothing has been named. *)
LEMMA InitTimesInv == Init => TimesInv
<1> SUFFICES ASSUME Init PROVE TimesInv
  OBVIOUS
<1>1. \A x \in Named : x[1] = 0
  BY InitIInv DEF Named, Init, NoCookie, Idle, IInv, ClientTypes
<1> QED
  BY <1>1 DEF Init, TimesInv, OneBrowser

(* While the server and the posts stay, only names are to be looked at. *)
LEMMA TimesKept ==
    ASSUME TimesInv, UNCHANGED <<skew, now, made>>, posts' = posts, visits' = visits, OneBrowser'
    PROVE  TimesInv'
<1>1. Lowest' = Lowest
  BY DEF Lowest
<1> QED
  BY <1>1 DEF TimesInv, PostInTime, RowInTime

(* The steps of a tab: the id of a turn comes from the cookies or is new,   *)
(* and goes to the cookies and to the post.                                 *)
LEMMA ClientTimes ==
    ASSUME IInv, TimesInv, NEW t \in Tabs, Client(t)
    PROVE  TimesInv'
<1>1. /\ owner[t] \in Browsers /\ turn \in [Tabs -> Turn] /\ OneBrowser
      /\ cookie \in [Browsers -> [id : Nat, until : Int, seen : Int]]
  BY DEF IInv, ClientTypes, TimesInv
<1>2. ASSUME NEW type, Report(t, type)
      PROVE  TimesInv'
  <2>1. /\ \A u \in Tabs : turn'[u].id = IF u = t THEN SessionId(owner[t]) ELSE turn[u].id
        /\ SessionId(owner[t]) \in {cookie[owner[t]].id, 0}
        /\ owner' = owner /\ cookie' = cookie /\ posts' = posts /\ visits' = visits
        /\ made' = made /\ skew' = skew /\ now' = now
    BY <1>1, <1>2 DEF Report, server, SessionId
  <2>2. \A x \in Named' : x \in Named \/ x[1] = 0
    BY <1>1, <2>1 DEF Named
  <2> QED
    BY <1>1, <2>1, <2>2, NamesKept, TimesKept
<1>3. CASE ReadSeen(t)
  <2>1. /\ \A u \in Tabs : turn'[u].id = turn[u].id \/ (u = t /\ turn'[u].id = minted + 1)
        /\ owner' = owner /\ cookie' = cookie /\ posts' = posts /\ visits' = visits
        /\ made' = made /\ skew' = skew /\ now' = now
    BY <1>1, <1>3 DEF ReadSeen, server, Turn
  <2>2. \A x \in Named' : x \in Named \/ x = <<minted + 1, owner[t]>>
    BY <1>1, <2>1 DEF Named
  <2> QED
    BY <1>1, <2>1, <2>2, NamesKept, TimesKept
<1>4. CASE WriteId(t)
  <2>1. /\ \A u \in Tabs : turn'[u].id = turn[u].id
        /\ \A b \in Browsers : cookie'[b].id = IF b = owner[t] THEN turn[t].id ELSE cookie[b].id
        /\ owner' = owner /\ posts' = posts /\ visits' = visits
        /\ made' = made /\ skew' = skew /\ now' = now
    BY <1>1, <1>4 DEF WriteId, server, Turn
  <2>2. \A x \in Named' : x \in Named
    BY <1>1, <2>1 DEF Named
  <2> QED
    BY <1>1, <2>1, <2>2, NamesKept, TimesKept
<1>5. CASE WriteSeen(t)
  <2>1. turn[t].id # 0
    BY <1>5 DEF WriteSeen, IInv, TurnsFollow, TurnFollows
  <2>2. PICK p \in Post : /\ PostsOf(t) = {p}
                          /\ p.session = turn[t].id /\ p.anon = owner[t]
                          /\ p.made = now /\ p.from = now /\ p.ts = now + skew
                          /\ ~p.stored /\ ~p.chained
    BY <2>1, PostsOfTurn DEF IInv
  <2>3. /\ \A u \in Tabs : turn'[u].id = IF u = t THEN 0 ELSE turn[u].id
        /\ \A b \in Browsers : cookie'[b].id = cookie[b].id
        /\ owner' = owner /\ posts' = posts \cup {p} /\ visits' = visits
        /\ made' = made /\ skew' = skew /\ now' = now
    BY <1>1, <1>5, <2>2 DEF WriteSeen, server, Idle
  <2>4. \A x \in Named' : x \in Named \/ x[1] = 0
    BY <1>1, <2>2, <2>3 DEF Named
  <2>5. OneBrowser'
    BY <1>1, <2>4, NamesKept
  <2>6. PostInTime(p)'
    BY <2>2, <2>3, Constants DEF PostInTime, IInv, ClientTypes
  <2>7. Lowest' = Lowest
    BY <2>3 DEF Lowest
  <2> QED
    BY <2>3, <2>5, <2>6, <2>7 DEF TimesInv, PostInTime, RowInTime
<1> QED
  BY <1>2, <1>3, <1>4, <1>5 DEF Client, Mount, Heartbeat, Hide, Show, Leave

(* Time passes while no post is late. *)
LEMMA TickTimes ==
    ASSUME IInv, TimesInv, Tick
    PROVE  TimesInv'
<1>1. /\ now' = now + 1 /\ now \in Nat /\ \A p \in posts : now < p.from + MaxDelay
      /\ UNCHANGED <<owner, skew, cookie, turn, posts, visits, made>>
  BY Constants DEF Tick, clients, server, IInv, ClientTypes
<1>2. Lowest' = Lowest
  BY <1>1 DEF Lowest
<1>3. \A p \in posts : PostInTime(p)'
  <2>1. \A p \in posts : p.from \in Nat
    BY DEF IInv, TableTypes, Post
  <2> QED
    BY <1>1, <2>1, Constants DEF TimesInv, PostInTime
<1>4. \A v \in visits : RowInTime(v)'
  BY <1>1, <1>2 DEF TimesInv, RowInTime
<1>5. OneBrowser'
  BY <1>1 DEF TimesInv, OneBrowser, Named
<1> QED
  BY <1>1, <1>3, <1>4, <1>5 DEF TimesInv

(* A row is late by two delays at most. *)
LEMMA WithinTwoDelays ==
    ASSUME NEW p, PostInTime(p), p.made \in Nat, p.from \in Nat, now \in Nat
    PROVE  p.made \in 0 .. now /\ now <= p.made + 2 * MaxDelay
<1>1. MaxDelay \in Nat
  BY Constants
<1>2. /\ p.made <= p.from /\ p.from <= now /\ now <= p.from + MaxDelay
      /\ p.from <= p.made + MaxDelay
  <2>1. CASE p.chained
    BY <2>1 DEF PostInTime
  <2>2. CASE ~p.chained
    BY <1>1, <2>2 DEF PostInTime
  <2> QED
    BY <2>1, <2>2
<1> QED
  BY <1>1, <1>2

(* A row is given its time. *)
LEMMA StoreTimes ==
    ASSUME IInv, TimesInv, NEW p \in posts, Store(p)
    PROVE  TimesInv'
<1>1. /\ p \in Post /\ now \in Nat /\ p.made \in Nat /\ p.from \in Nat /\ p.chained \in BOOLEAN
      /\ p.session # 0 /\ PostInTime(p) /\ skew \in Int
      /\ made \in Seq([time : Nat, chained : BOOLEAN])
  <2>1. p \in Post /\ PostInTime(p) /\ made \in Seq([time : Nat, chained : BOOLEAN])
    BY DEF IInv, TableTypes, TimesInv
  <2>2. now \in Nat /\ skew \in Int /\ p.session # 0
    BY Constants DEF IInv, ClientTypes, SessionsAreMinted
  <2>3. p.made \in Nat /\ p.from \in Nat /\ p.chained \in BOOLEAN
    BY <2>1 DEF Post
  <2> QED
    BY <2>1, <2>2, <2>3
<1>2. /\ visits' = InsertVisit(visits, p, now)
      /\ made' = Append(made, [time |-> p.made, chained |-> p.chained])
      /\ UNCHANGED <<owner, skew, now, cookie, turn>>
      /\ posts' = (posts \ {p}) \cup
                  (IF p.next = "none" THEN {} ELSE {[p EXCEPT !.stored = TRUE]})
  BY DEF Store, clients
<1>3. PICK row \in VisitRow :
              /\ visits' = visits \cup {row}
              /\ row.id = Len(made) + 1
              /\ row.session = p.session /\ row.anon = p.anon
              /\ row.bot = (p.anon \in Bots)
              /\ row.at = ParseClientTs(p.ts, now)
  BY <1>1, <1>2, InsertAddsRow DEF IInv, TableTypes
<1> PICK waiting : waiting = [p EXCEPT !.stored = TRUE]
  OBVIOUS
<1>4. /\ waiting.session = p.session /\ waiting.anon = p.anon /\ waiting.ts = p.ts
      /\ waiting.made = p.made /\ waiting.from = p.from /\ waiting.chained = p.chained
      /\ \A q \in posts' : q \in posts \/ q = waiting
  BY <1>1, <1>2 DEF Post
<1>5. Lowest' = Lowest
  BY <1>2 DEF Lowest
<1>6. \A q \in posts' : PostInTime(q)'
  BY <1>1, <1>2, <1>4 DEF TimesInv, PostInTime
<1>7. ASSUME NEW v \in visits'
      PROVE  RowInTime(v)'
  <2>1. CASE v = row
    <3>1. made'[v.id].time = p.made
      BY <1>1, <1>2, <1>3, <2>1
    <3>2. p.made \in 0 .. now /\ now <= p.made + 2 * MaxDelay
      BY <1>1, WithinTwoDelays
    <3>3. /\ p.made + Lowest <= v.at /\ v.at <= p.made + Lowest + DwellError
      BY <1>1, <1>3, <2>1, <3>2, TimeOfRow DEF PostInTime
    <3> QED
      BY <1>2, <1>3, <1>5, <2>1, <3>1, <3>2, <3>3 DEF RowInTime, DwellError
  <2>2. CASE v \in visits
    <3>1. v.id \in 1 .. Len(made)
      BY <2>2 DEF IInv, TableTypes
    <3>2. made'[v.id] = made[v.id]
      BY <1>1, <1>2, <3>1
    <3> QED
      BY <1>2, <1>5, <2>2, <3>2 DEF TimesInv, RowInTime, DwellError
  <2> QED
    BY <1>3, <2>1, <2>2
<1>8. OneBrowser'
  <2>1. /\ \A q \in posts' : \E z \in posts : q.session = z.session /\ q.anon = z.anon
        /\ \A v \in visits' : v \in visits \/ (v.session = p.session /\ v.anon = p.anon)
    BY <1>3, <1>4
  <2> QED
    BY <1>2, <2>1, NamesStay DEF TimesInv
<1> QED
  BY <1>6, <1>7, <1>8 DEF TimesInv

(* An event that follows its visit_start is late by another delay. *)
LEMMA OtherPostTimes ==
    ASSUME IInv, TimesInv, NEW p \in posts, PostFails(p) \/ Answer(p)
    PROVE  TimesInv'
<1> PICK next : next = [p EXCEPT !.type = p.next, !.next = "none", !.from = now,
                                 !.chained = TRUE, !.stored = FALSE]
  OBVIOUS
<1>1. /\ UNCHANGED <<owner, skew, now, cookie, turn, visits, made>>
      /\ \A q \in posts' : q \in posts \/ (q = next /\ p.stored)
  BY DEF PostFails, Answer, server, clients
<1>2. p \in Post /\ now \in Nat /\ PostInTime(p) /\ (p.stored => ~p.chained)
      /\ p.made \in Nat /\ p.from \in Nat
  <2>1. p \in Post /\ now \in Nat /\ PostInTime(p)
    BY Constants DEF IInv, TableTypes, ClientTypes, TimesInv
  <2>2. p.stored => ~p.chained
    BY DEF IInv, ChainsAreStarted
  <2>3. p.made \in Nat /\ p.from \in Nat
    BY <2>1 DEF Post
  <2> QED
    BY <2>1, <2>2, <2>3
<1>3. /\ next.session = p.session /\ next.anon = p.anon /\ next.ts = p.ts
      /\ next.made = p.made /\ next.from = now /\ next.chained
  BY <1>2 DEF Post
<1>4. p.stored => PostInTime(next)
  BY <1>2, <1>3, Constants DEF PostInTime
<1>5. \A q \in posts' : PostInTime(q)'
  BY <1>1, <1>4 DEF TimesInv, PostInTime
<1>6. OneBrowser'
  <2>1. \A q \in posts' : \E z \in posts : q.session = z.session /\ q.anon = z.anon
    BY <1>1, <1>3
  <2> QED
    BY <1>1, <2>1, NamesStay DEF TimesInv
<1>7. Lowest' = Lowest
  BY <1>1 DEF Lowest
<1> QED
  BY <1>1, <1>5, <1>6, <1>7 DEF TimesInv, RowInTime

LEMMA StepTimesInv == IInv /\ TimesInv /\ [Next]_vars => TimesInv'
<1> SUFFICES ASSUME IInv, TimesInv, [Next]_vars
             PROVE  TimesInv'
  OBVIOUS
<1>1. CASE Dashboard \/ UNCHANGED vars
  <2>1. UNCHANGED <<owner, skew, now, cookie, turn, posts, visits, made>>
    BY <1>1 DEF Dashboard, AskWindow, AskDaily, AskSessions, AskTrend, AskBreakdown, Ask,
       vars, clients, server
  <2>2. OneBrowser'
    BY <2>1 DEF TimesInv, OneBrowser, Named
  <2> QED
    BY <2>1, <2>2, TimesKept
<1>2. CASE Network
  BY <1>2, StoreTimes, OtherPostTimes DEF Network
<1> QED
  BY <1>1, <1>2, ClientTimes, TickTimes DEF Next

-----------------------------------------------------------------------------
(* A set of integers that has a bound has a least and a greatest member. *)

LEMMA LeastMember ==
    ASSUME NEW S \in SUBSET Int, S # {}, NEW low \in Int, \A i \in S : low <= i
    PROVE  Min(S) \in S /\ \A i \in S : Min(S) <= i
<1> DEFINE N == {n \in Nat : n + low \in S}
<1>1. N # {} /\ N \subseteq Nat
  <2>1. PICK i \in S : TRUE
    OBVIOUS
  <2>2. i - low \in Nat /\ (i - low) + low = i
    BY <2>1
  <2> QED
    BY <2>1, <2>2
<1>2. PICK n \in N : \A m \in N : ~(m < n)
  <2>1. IsWellFoundedOn(OpToRel(<, Nat), Nat)
    BY NatLessThanWellFounded
  <2>2. PICK n \in N : \A m \in N : ~(<<m, n>> \in OpToRel(<, Nat))
    BY <1>1, <2>1, WFMin
  <2>3. \A m \in N : m < n => <<m, n>> \in OpToRel(<, Nat)
    BY DEF OpToRel
  <2> QED
    BY <2>2, <2>3
<1>3. \A i \in S : n + low <= i
  <2> SUFFICES ASSUME NEW i \in S PROVE n + low <= i
    OBVIOUS
  <2>1. i - low \in N
    <3>1. i - low \in Nat /\ (i - low) + low = i
      OBVIOUS
    <3> QED
      BY <3>1
  <2> QED
    BY <1>2, <2>1
<1>4. n + low \in S
  OBVIOUS
<1> QED
  BY <1>3, <1>4 DEF Min

LEMMA GreatestMember ==
    ASSUME NEW S \in SUBSET Int, S # {}, NEW high \in Int, \A i \in S : i <= high
    PROVE  Max(S) \in S /\ \A i \in S : i <= Max(S)
<1> DEFINE M == {0 - i : i \in S}
<1>1. M \in SUBSET Int /\ M # {} /\ (0 - high) \in Int /\ \A m \in M : 0 - high <= m
  <2>1. \A i \in S : i \in Int /\ 0 - i \in Int /\ 0 - high <= 0 - i
    OBVIOUS
  <2>2. M # {}
    OBVIOUS
  <2> QED
    BY <2>1, <2>2
<1>2. Min(M) \in M /\ \A m \in M : Min(M) <= m
  <2> HIDE DEF M
  <2> QED
    BY <1>1, LeastMember
<1>3. PICK g \in S : Min(M) = 0 - g
  BY <1>2
<1>4. \A i \in S : i <= g
  BY <1>2, <1>3
<1>5. \A i \in S : g >= i
  BY <1>4
<1> QED
  BY <1>4, <1>5 DEF Max

-----------------------------------------------------------------------------
(* The rows of a session, as the query counts them. *)
LEMMA RowsOfSession ==
    ASSUME IInv, TimesInv, NEW s \in DOMAIN SessionDwell(visits, Never)
    PROVE  LET rows == {w \in visits : w.session = s}
           IN  rows # {} /\ SessionDwell(visits, Never)[s] = Dwell(rows)
<1> DEFINE rows == {w \in visits : w.session = s}
           counted == {v \in Counted(visits, Never) : v.session = s}
<1>1. SessionDwell(visits, Never)[s] = Dwell(counted) /\ counted # {}
  BY DEF SessionDwell
<1>2. PICK v \in visits : ~v.bot /\ v.session = s
  BY <1>1 DEF Counted
<1>3. ASSUME NEW w \in visits, w.session = s
      PROVE  ~w.bot /\ w.at >= Never
  <2>1. /\ <<v.session, v.anon>> \in Named /\ <<w.session, w.anon>> \in Named
        /\ v.session \in Nat \ {0}
    BY DEF Named, IInv, TableTypes, VisitRow
  <2>2. v.anon = w.anon
    BY <1>2, <1>3, <2>1 DEF TimesInv, OneBrowser
  <2>3. ~w.bot
    BY <1>2, <2>2 DEF TimesInv, RowInTime, IInv, TableTypes, VisitRow
  <2>4. made[w.id].time \in 0 .. now /\ made[w.id].time + Lowest <= w.at
    BY DEF TimesInv, RowInTime
  <2>5. w.at \in Int /\ now \in Nat
    BY Constants DEF IInv, ClientTypes, TableTypes, VisitRow
  <2>6. w.at >= Never
    BY <2>4, <2>5, LowestType, Constants DEF IInv
  <2> QED
    BY <2>3, <2>6
<1>4. counted = rows
  BY <1>3 DEF Counted
<1> QED
  BY <1>1, <1>4

(* Times that are within an error of others, span as much within that error.*)
LEMMA SpanWithin ==
    ASSUME NEW rows, rows # {}, NEW low \in Int, NEW error \in Nat, NEW end \in Nat,
           \A v \in rows : /\ v.at \in Int /\ made[v.id].time \in 0 .. end
                           /\ made[v.id].time + low <= v.at
                           /\ v.at <= made[v.id].time + low + error
    PROVE  LET spent == Max({v.at : v \in rows}) - Min({v.at : v \in rows})
               times == {made[v.id].time : v \in rows}
               true  == Max(times) - Min(times)
           IN  /\ spent \in Int /\ true \in Int
               /\ spent <= true + error /\ spent >= true - error
<1> DEFINE ats == {v.at : v \in rows}
           times == {made[v.id].time : v \in rows}
<1>1. /\ ats \in SUBSET Int /\ ats # {} /\ times \in SUBSET Int /\ times # {}
  OBVIOUS
<1>2. /\ \A i \in times : 0 <= i /\ i <= end
      /\ \A i \in ats : low <= i /\ i <= end + low + error
  OBVIOUS
<1>3. /\ low \in Int /\ (end + low + error) \in Int /\ 0 \in Int /\ end \in Int
  OBVIOUS
<1>4. /\ Min(ats) \in ats /\ Max(ats) \in ats /\ Min(times) \in times /\ Max(times) \in times
      /\ \A i \in ats : Min(ats) <= i /\ i <= Max(ats)
      /\ \A i \in times : Min(times) <= i /\ i <= Max(times)
  <2> HIDE DEF ats, times
  <2>1. Min(ats) \in ats /\ \A i \in ats : Min(ats) <= i
    BY <1>1, <1>2, <1>3, LeastMember
  <2>2. Max(ats) \in ats /\ \A i \in ats : i <= Max(ats)
    BY <1>1, <1>2, <1>3, GreatestMember
  <2>3. Min(times) \in times /\ \A i \in times : Min(times) <= i
    BY <1>1, <1>2, <1>3, LeastMember
  <2>4. Max(times) \in times /\ \A i \in times : i <= Max(times)
    BY <1>1, <1>2, <1>3, GreatestMember
  <2> QED
    BY <2>1, <2>2, <2>3, <2>4
<1>5. PICK first \in rows, last \in rows : Min(ats) = first.at /\ Max(ats) = last.at
  BY <1>4
<1>6. PICK early \in rows, late \in rows :
          Min(times) = made[early.id].time /\ Max(times) = made[late.id].time
  BY <1>4
<1>7. /\ made[last.id].time <= Max(times) /\ Min(times) <= made[first.id].time
      /\ late.at <= Max(ats) /\ Min(ats) <= early.at
  BY <1>4
<1> HIDE DEF ats, times
<1>8. /\ Max(ats) - Min(ats) \in Int /\ Max(times) - Min(times) \in Int
      /\ Max(ats) - Min(ats) <= Max(times) - Min(times) + error
      /\ Max(ats) - Min(ats) >= Max(times) - Min(times) - error
  BY <1>5, <1>6, <1>7
<1> QED
  BY <1>8 DEF ats, times

(* The dwell time of a session spans the times of its rows. *)
LEMMA DwellFollows == IInv /\ TimesInv => DwellErrorIsBounded
<1> SUFFICES ASSUME IInv, TimesInv, NEW s \in DOMAIN SessionDwell(visits, Never)
             PROVE  LET times == {made[v.id].time : v \in {w \in visits : w.session = s}}
                        true  == Max(times) - Min(times)
                        dwell == SessionDwell(visits, Never)[s]
                    IN  /\ dwell <= true + (FutureTolerance + 2 * MaxDelay)
                        /\ \/ dwell >= true - (FutureTolerance + 2 * MaxDelay)
                           \/ dwell = DwellCap
  BY DEF DwellErrorIsBounded
<1> DEFINE rows == {w \in visits : w.session = s}
           spent == Max({v.at : v \in rows}) - Min({v.at : v \in rows})
           times == {made[v.id].time : v \in rows}
           true == Max(times) - Min(times)
<1>1. rows # {} /\ SessionDwell(visits, Never)[s] = Dwell(rows)
  BY RowsOfSession
<1>2. /\ FutureTolerance \in Nat /\ MaxDelay \in Nat /\ DwellCap \in Nat
      /\ DwellError \in Nat /\ DwellError = FutureTolerance + 2 * MaxDelay
      /\ Lowest \in Int /\ now \in Nat
  BY Constants, LowestType DEF DwellError, IInv, ClientTypes
<1>3. \A v \in rows : /\ v.at \in Int /\ made[v.id].time \in 0 .. now
                      /\ made[v.id].time + Lowest <= v.at
                      /\ v.at <= made[v.id].time + Lowest + DwellError
  BY DEF TimesInv, RowInTime, IInv, TableTypes, VisitRow
<1>4. /\ spent \in Int /\ true \in Int
      /\ spent <= true + DwellError /\ spent >= true - DwellError
  <2> HIDE DEF rows
  <2> QED
    BY <1>1, <1>2, <1>3, SpanWithin
<1>5. Dwell(rows) = IF spent > DwellCap THEN DwellCap ELSE spent
  BY DEF Dwell
<1> HIDE DEF rows, spent, true
<1>6. /\ Dwell(rows) <= true + DwellError
      /\ Dwell(rows) >= true - DwellError \/ Dwell(rows) = DwellCap
  <2>1. CASE spent > DwellCap
    <3>1. Dwell(rows) = DwellCap /\ DwellCap <= true + DwellError
      BY <1>2, <1>4, <1>5, <2>1
    <3> QED
      BY <3>1
  <2>2. CASE ~(spent > DwellCap)
    <3>1. Dwell(rows) = spent
      BY <1>5, <2>2
    <3> QED
      BY <1>4, <3>1
  <2> QED
    BY <2>1, <2>2
<1>7. /\ SessionDwell(visits, Never)[s] <= true + (FutureTolerance + 2 * MaxDelay)
      /\ \/ SessionDwell(visits, Never)[s] >= true - (FutureTolerance + 2 * MaxDelay)
         \/ SessionDwell(visits, Never)[s] = DwellCap
  BY <1>1, <1>2, <1>6
<1> QED
  BY <1>7 DEF true, times, rows

(* The dwell time that the dashboard gives for a session is that of its     *)
(* events, but for the tolerance for the browser's clock and the delays of  *)
(* two posts (parse_client_ts, fetch_web_session_durations_seconds).        *)
THEOREM DwellIsClose == Spec => []DwellErrorIsBounded
<1> QED
  BY InitIInv, StepIInv, InitTimesInv, StepTimesInv, DwellFollows, PTL DEF Spec

-----------------------------------------------------------------------------
(* The queries of one answer, each later than the one before. *)

Today == KstDate(stats.window.start)

(* What was counted is still there, and more. *)
StatsInv ==
    LET pc == stats.pc
        w == stats.window
    IN  /\ pc # "idle" => \E n \in 0 .. now, days \in DaysAsked : w = BuildWindow(n, days)
        /\ pc \in {"sessions", "trend", "breakdown"} => stats.daily <= DailyVisitors(visits, w)
        /\ pc \in {"trend", "breakdown"} =>
              Cardinality(DOMAIN stats.dwell) <= BreakdownTotal(visits, w.since)
        /\ pc = "breakdown" /\ stats.daily > 0 =>
              Today \in DOMAIN stats.trend /\ stats.daily <= stats.trend[Today]

(* A day is the multiples of Day up to the next. *)
LEMMA SameDay ==
    ASSUME NEW day \in Int, NEW i \in Int, day * Day <= i, i < day * Day + Day
    PROVE  i \div Day = day
<1>1. Day \in Nat /\ Day > 0
  BY WebVisitsAssumption DEF WebVisitsAssumption
<1> DEFINE q == i \div Day
           r == i % Day
           d == q - day
<1>2. q \in Int /\ r \in 0 .. Day - 1 /\ i = Day * q + r
  BY <1>1
<1>3. d \in Int /\ Day * q = Day * day + Day * d /\ day * Day = Day * day
  <2> HIDE DEF q
  <2> QED
    BY <1>1, <1>2
<1>4. /\ d >= 1 => Day * d >= Day
      /\ d <= 0 - 1 => Day * d <= 0 - Day
  <2> HIDE DEF d
  <2> QED
    BY <1>1, <1>3
<1> DEFINE m == Day * day
           e == Day * d
<1>5. m \in Int /\ e \in Int
  <2> HIDE DEF d
  <2> QED
    BY <1>1, <1>3
<1>6. m <= i /\ i < m + Day /\ i = m + e + r
  BY <1>1, <1>2, <1>3
<1>7. (d >= 1 => e >= Day) /\ (d <= 0 - 1 => e <= 0 - Day)
  BY <1>4
<1>8. d = 0
  <2> HIDE DEF m, e, d, r
  <2> QED
    BY <1>1, <1>2, <1>3, <1>5, <1>6, <1>7
<1> HIDE DEF q
<1>9. q = day
  BY <1>2, <1>8
<1> QED
  BY <1>9 DEF q

(* Today is one day in Seoul, and among the days that are asked for. *)
LEMMA WindowOfToday ==
    ASSUME NEW n \in Nat, NEW days \in DaysAsked, NEW w, w = BuildWindow(n, days)
    PROVE  /\ w.since \in Int /\ w.start \in Int /\ w.end \in Int /\ w.since <= w.start
           /\ \A i \in Int : w.start <= i /\ i < w.end => KstDate(i) = KstDate(w.start)
<1>1. Day \in Nat /\ Day > 0 /\ SeoulOffset \in Nat /\ days \in Nat /\ days >= 1
  BY WebVisitsAssumption, VisitTrackingAssumption
     DEF WebVisitsAssumption, VisitTrackingAssumption
<1> DEFINE day == (n + SeoulOffset) \div Day
           r == (n + SeoulOffset) % Day
           m == day * Day
<1>2. /\ day \in Int /\ r \in 0 .. Day - 1 /\ n + SeoulOffset = Day * day + r
      /\ n + SeoulOffset \in Nat
  BY <1>1
<1>3. /\ w.since = n - days * Day /\ w.start = m - SeoulOffset
      /\ w.end = m - SeoulOffset + Day
  BY DEF BuildWindow, KstDate
<1>4. m \in Int /\ n + SeoulOffset = m + r
  <2> HIDE DEF day, r
  <2> QED
    BY <1>1, <1>2
<1>5. days * Day >= Day /\ days * Day \in Int
  BY <1>1
<1>6. ASSUME NEW i \in Int, w.start <= i, i < w.end
      PROVE  KstDate(i) = day
  <2>1. m <= i + SeoulOffset /\ i + SeoulOffset < m + Day /\ i + SeoulOffset \in Int
    <3> HIDE DEF m
    <3> QED
      BY <1>1, <1>3, <1>4, <1>6
  <2> HIDE DEF day
  <2> QED
    BY <1>2, <2>1, SameDay DEF KstDate
<1> DEFINE span == days * Day
<1> HIDE DEF m, r, day, span
<1>7. /\ w.since \in Int /\ w.start \in Int /\ w.end \in Int /\ w.since <= w.start
      /\ w.start < w.end
  <2>1. span >= Day /\ span \in Int /\ w.since = n - span
    BY <1>3, <1>5 DEF span
  <2> QED
    BY <1>1, <1>2, <1>3, <1>4, <2>1
<1>8. KstDate(w.start) = day
  BY <1>6, <1>7
<1> QED
  BY <1>6, <1>7, <1>8

(* More rows do not have fewer visitors. *)
LEMMA VisitorsGrow ==
    ASSUME NEW few, NEW many \in SUBSET VisitRow, few \subseteq many
    PROVE  Visitors(few) \in Nat /\ Visitors(many) \in Nat /\ Visitors(few) <= Visitors(many)
<1>1. few \in SUBSET VisitRow
  OBVIOUS
<1>2. Visitors(few) \in Nat /\ Visitors(many) \in Nat
  <2>1. Cardinality(Browsers) \in Nat
    BY Constants, FS_CardinalityType
  <2> QED
    BY <1>1, <2>1, VisitorsType
<1>3. {v.anon : v \in few} \subseteq {v.anon : v \in many}
  OBVIOUS
<1>4. IsFiniteSet({v.anon : v \in many})
  <2>1. {v.anon : v \in many} \subseteq Browsers
    BY DEF VisitRow
  <2> QED
    BY <2>1, Constants, FS_Subset
<1> QED
  BY <1>2, <1>3, <1>4, FS_Subset DEF Visitors

(* Nor are there fewer visitors today, or fewer rows to break down. *)
LEMMA CountsGrow ==
    ASSUME NEW few, NEW many \in SUBSET VisitRow, few \subseteq many, IsFiniteSet(many), NEW w
    PROVE  /\ DailyVisitors(few, w) \in Nat /\ DailyVisitors(many, w) \in Nat
           /\ DailyVisitors(few, w) <= DailyVisitors(many, w)
           /\ BreakdownTotal(few, w.since) \in Nat /\ BreakdownTotal(many, w.since) \in Nat
           /\ BreakdownTotal(few, w.since) <= BreakdownTotal(many, w.since)
<1> DEFINE rows(table) == {v \in Counted(table, w.start) : v.at < w.end}
<1>1. rows(few) \subseteq rows(many) /\ rows(many) \in SUBSET VisitRow
  BY DEF Counted
<1>2. /\ DailyVisitors(few, w) \in Nat /\ DailyVisitors(many, w) \in Nat
      /\ DailyVisitors(few, w) <= DailyVisitors(many, w)
  <2> HIDE DEF rows
  <2>1. /\ Visitors(rows(few)) \in Nat /\ Visitors(rows(many)) \in Nat
        /\ Visitors(rows(few)) <= Visitors(rows(many))
    BY <1>1, VisitorsGrow
  <2> QED
    BY <2>1 DEF rows, DailyVisitors
<1>3. /\ Counted(few, w.since) \in SUBSET Counted(many, w.since)
      /\ Counted(many, w.since) \in SUBSET many
  BY DEF Counted
<1>4. IsFiniteSet(Counted(many, w.since)) /\ IsFiniteSet(Counted(few, w.since))
      /\ Cardinality(Counted(few, w.since)) <= Cardinality(Counted(many, w.since))
  BY <1>3, FS_Subset
<1> QED
  BY <1>2, <1>4, FS_CardinalityType DEF BreakdownTotal

(* Every session in the answer has a row. *)
LEMMA SessionsHaveRows ==
    ASSUME TableTypes, NEW since
    PROVE  Cardinality(DOMAIN SessionDwell(visits, since)) <= BreakdownTotal(visits, since)
<1> DEFINE rows == Counted(visits, since)
           sessions == {v.session : v \in rows}
           of == [v \in rows |-> v.session]
<1>1. of \in Surjection(rows, sessions)
  BY DEF Surjection
<1>2. IsFiniteSet(rows)
  BY FS_Subset DEF TableTypes, Counted
<1>3. DOMAIN SessionDwell(visits, since) = sessions
  BY DEF SessionDwell
<1> HIDE DEF rows, sessions, of
<1>4. Cardinality(sessions) <= Cardinality(rows)
  BY <1>1, <1>2, FS_Surjection
<1> QED
  BY <1>3, <1>4 DEF BreakdownTotal, rows

(* The visitors of today are in the trend, at the day of today's rows. *)
LEMMA TodayIsInTrend ==
    ASSUME TableTypes, NEW n \in Nat, NEW days \in DaysAsked, NEW w, w = BuildWindow(n, days),
           DailyVisitors(visits, w) > 0
    PROVE  LET trend == VisitorTrend(visits, w.since)
               today == KstDate(w.start)
           IN  today \in DOMAIN trend /\ DailyVisitors(visits, w) <= trend[today]
<1> DEFINE today == KstDate(w.start)
           counted == Counted(visits, w.since)
           ofDay == {v \in counted : KstDate(v.at) = today}
           rows == {v \in Counted(visits, w.start) : v.at < w.end}
<1>1. /\ w.since \in Int /\ w.start \in Int /\ w.end \in Int /\ w.since <= w.start
      /\ \A i \in Int : w.start <= i /\ i < w.end => KstDate(i) = today
  BY WindowOfToday
<1>2. visits \subseteq VisitRow /\ \A v \in visits : v.at \in Int
  BY DEF TableTypes, VisitRow
<1>3. rows \subseteq ofDay /\ ofDay \in SUBSET VisitRow
  <2>1. ASSUME NEW v \in rows
        PROVE  v \in ofDay
    <3>1. v \in visits /\ ~v.bot /\ v.at >= w.start /\ v.at < w.end /\ v.at \in Int
      BY <1>2 DEF Counted
    <3>2. KstDate(v.at) = today /\ v.at >= w.since
      BY <1>1, <3>1
    <3> QED
      BY <3>1, <3>2 DEF Counted
  <2> QED
    BY <1>2, <2>1 DEF Counted
<1>4. Visitors(rows) <= Visitors(ofDay) /\ Visitors(rows) = DailyVisitors(visits, w)
  <2>1. Visitors(rows) = DailyVisitors(visits, w)
    BY DEF DailyVisitors
  <2> HIDE DEF rows, ofDay
  <2> QED
    BY <1>3, <2>1, VisitorsGrow
<1>5. ofDay # {}
  <2>1. Visitors({}) = 0
    <3>1. {v.anon : v \in {}} = {}
      OBVIOUS
    <3> QED
      BY <3>1, FS_EmptySet DEF Visitors
  <2>2. rows # {}
    <3> HIDE DEF rows
    <3> QED
      BY <1>4, <2>1
  <2> QED
    BY <1>3, <2>2
<1>6. today \in DOMAIN VisitorTrend(visits, w.since)
      /\ VisitorTrend(visits, w.since)[today] = Visitors(ofDay)
  <2>1. today \in {KstDate(v.at) : v \in counted}
    BY <1>5
  <2> HIDE DEF today
  <2> QED
    BY <2>1 DEF VisitorTrend
<1> QED
  BY <1>4, <1>6

LEMMA InitStatsInv == Init => StatsInv
  BY DEF Init, StatsInv, NotAsked

(* The table grows between two queries. *)
LEMMA StatsKept ==
    ASSUME IInv, IInv', StatsInv, stats' = stats, now <= now', visits \subseteq visits'
    PROVE  StatsInv'
<1>1. now \in Nat /\ now' \in Nat
  BY Constants DEF IInv, ClientTypes
<1>2. \A n \in 0 .. now : n \in 0 .. now'
  BY <1>1
<1>3. /\ DailyVisitors(visits, stats.window) \in Nat
      /\ DailyVisitors(visits', stats.window) \in Nat
      /\ DailyVisitors(visits, stats.window) <= DailyVisitors(visits', stats.window)
      /\ BreakdownTotal(visits, stats.window.since) \in Nat
      /\ BreakdownTotal(visits', stats.window.since) \in Nat
      /\ BreakdownTotal(visits, stats.window.since) <= BreakdownTotal(visits', stats.window.since)
  BY CountsGrow DEF IInv, TableTypes
<1>4. stats.daily \in Nat
  BY DEF IInv, StatTypes, Asking
<1>5. stats.pc \in {"trend", "breakdown"} => Cardinality(DOMAIN stats.dwell) \in Nat
  <2>1. IsFiniteSet(1 .. minted) /\ DOMAIN stats.dwell \subseteq 1 .. minted
    <3>1. minted \in Int /\ 1 \in Int
      BY DEF IInv, ClientTypes
    <3> QED
      BY <3>1, FS_Interval DEF IInv, StatTypes, Asking
  <2> QED
    BY <2>1, FS_Subset, FS_CardinalityType
<1>6. /\ stats.pc # "idle" => \E n \in 0 .. now', days \in DaysAsked :
                                  stats.window = BuildWindow(n, days)
      /\ stats.pc \in {"sessions", "trend", "breakdown"} =>
            stats.daily <= DailyVisitors(visits', stats.window)
      /\ stats.pc \in {"trend", "breakdown"} =>
            Cardinality(DOMAIN stats.dwell) <= BreakdownTotal(visits', stats.window.since)
  BY <1>2, <1>3, <1>4, <1>5 DEF StatsInv
<1>7. Today' = Today
  BY DEF Today
<1> QED
  BY <1>6, <1>7 DEF StatsInv

(* The queries, one after the other. *)
LEMMA DashboardStats ==
    ASSUME IInv, StatsInv, Dashboard
    PROVE  StatsInv'
<1>1. /\ visits' = visits /\ now' = now /\ now \in Nat
      /\ DOMAIN stats = {"pc", "window", "daily", "dwell", "trend"} /\ stats.daily \in Nat
  <2>1. visits' = visits /\ now' = now
    BY DEF Dashboard, AskWindow, AskDaily, AskSessions, AskTrend, AskBreakdown, Ask, server
  <2>2. now \in Nat
    BY Constants DEF IInv, ClientTypes
  <2>3. DOMAIN stats = {"pc", "window", "daily", "dwell", "trend"} /\ stats.daily \in Nat
    BY DEF IInv, StatTypes, Asking
  <2> QED
    BY <2>1, <2>2, <2>3
<1>2. ASSUME NEW days \in DaysAsked, AskWindow(days)
      PROVE  StatsInv'
  <2>1. stats'.pc = "daily" /\ stats'.window = BuildWindow(now, days)
    BY <1>1, <1>2 DEF AskWindow, Ask
  <2>2. now \in 0 .. now'
    BY <1>1
  <2> QED
    BY <2>1, <2>2 DEF StatsInv
<1>3. CASE AskDaily
  <2>1. /\ stats'.pc = "sessions" /\ stats'.window = stats.window /\ stats.pc = "daily"
        /\ stats'.daily = DailyVisitors(visits, stats.window)
    BY <1>1, <1>3 DEF AskDaily, Ask
  <2>2. DailyVisitors(visits, stats.window) \in Nat
    BY CountsGrow DEF IInv, TableTypes
  <2>3. \E n \in 0 .. now', days \in DaysAsked : stats'.window = BuildWindow(n, days)
    BY <1>1, <2>1 DEF StatsInv
  <2>4. stats'.daily <= DailyVisitors(visits', stats'.window)
    BY <1>1, <2>1, <2>2
  <2> QED
    BY <2>1, <2>3, <2>4 DEF StatsInv
<1>4. CASE AskSessions
  <2>1. /\ stats'.pc = "trend" /\ stats'.window = stats.window /\ stats.pc = "sessions"
        /\ stats'.daily = stats.daily
        /\ stats'.dwell = SessionDwell(visits, stats.window.since)
    BY <1>1, <1>4 DEF AskSessions, Ask
  <2>2. Cardinality(DOMAIN stats'.dwell) <= BreakdownTotal(visits, stats.window.since)
    BY <2>1, SessionsHaveRows DEF IInv
  <2> QED
    BY <1>1, <2>1, <2>2 DEF StatsInv
<1>5. CASE AskTrend
  <2>1. /\ stats'.pc = "breakdown" /\ stats'.window = stats.window /\ stats.pc = "trend"
        /\ stats'.daily = stats.daily /\ stats'.dwell = stats.dwell
        /\ stats'.trend = VisitorTrend(visits, stats.window.since)
    BY <1>1, <1>5 DEF AskTrend, Ask
  <2> DEFINE day == KstDate(stats.window.start)
  <2>2. ASSUME stats.daily > 0
        PROVE  day \in DOMAIN stats'.trend /\ stats.daily <= stats'.trend[day]
    <3>1. PICK n \in 0 .. now, days \in DaysAsked : stats.window = BuildWindow(n, days)
      BY <2>1 DEF StatsInv
    <3>2. /\ DailyVisitors(visits, stats.window) \in Nat
          /\ stats.daily <= DailyVisitors(visits, stats.window)
      BY <2>1, CountsGrow DEF StatsInv, IInv, TableTypes
    <3>3. DailyVisitors(visits, stats.window) > 0 /\ n \in Nat
      BY <1>1, <2>2, <3>2
    <3>4. day \in DOMAIN stats'.trend /\ DailyVisitors(visits, stats.window) <= stats'.trend[day]
      BY <2>1, <3>1, <3>3, TodayIsInTrend DEF IInv
    <3>5. stats'.trend[day] \in Int
      <4>1. IInv'
        BY DashboardStep
      <4>2. /\ stats'.trend[day] \in 1 .. Cardinality(Browsers)
        BY <3>4, <4>1 DEF IInv, StatTypes, Asking
      <4> QED
        BY <4>2
    <3> HIDE DEF day
    <3> QED
      BY <1>1, <3>2, <3>4, <3>5
  <2>3. Today' = day
    BY <2>1 DEF Today
  <2> QED
    BY <1>1, <2>1, <2>2, <2>3 DEF StatsInv
<1>6. CASE AskBreakdown
  <2>1. stats'.pc = "idle"
    BY <1>6 DEF AskBreakdown, Ask, NotAsked
  <2> QED
    BY <2>1 DEF StatsInv
<1> QED
  BY <1>2, <1>3, <1>4, <1>5, <1>6 DEF Dashboard

LEMMA StepStatsInv == IInv /\ IInv' /\ StatsInv /\ [Next]_vars => StatsInv'
<1> SUFFICES ASSUME IInv, IInv', StatsInv, [Next]_vars
             PROVE  StatsInv'
  OBVIOUS
<1>1. now \in Nat
  BY Constants DEF IInv, ClientTypes
<1>2. CASE Tick
  BY <1>1, <1>2, StatsKept DEF Tick, server
<1>3. ASSUME NEW t \in Tabs, Client(t)
      PROVE  StatsInv'
  <2>1. stats' = stats /\ now' = now /\ visits' = visits
    BY <1>3 DEF Client, Mount, Heartbeat, Hide, Show, Leave, Report, ReadSeen, WriteId,
       WriteSeen, server
  <2> QED
    BY <1>1, <2>1, StatsKept
<1>4. CASE Network
  <2>1. stats' = stats /\ now' = now /\ visits \subseteq visits'
    BY <1>4 DEF Network, Store, PostFails, Answer, server, InsertVisit
  <2> QED
    BY <1>1, <2>1, StatsKept
<1>5. CASE UNCHANGED vars
  BY <1>1, <1>5, StatsKept DEF vars, server
<1> QED
  BY <1>2, <1>3, <1>4, <1>5, DashboardStats DEF Next

(* The queries of one answer fit together although rows are stored between  *)
(* them: who was counted for today is in the trend, under the day in Seoul  *)
(* (get_web_stats, build_web_stats_window).                                 *)
THEOREM AnswersFit == Spec => AnswerFitsTogether
<1>1. ASSUME IInv, StatsInv, AskBreakdown
      PROVE  /\ stats.daily > 0 => LET today == KstDate(stats.window.start)
                                   IN  /\ today \in DOMAIN stats.trend
                                       /\ stats.daily <= stats.trend[today]
             /\ Cardinality(DOMAIN stats.dwell) <= BreakdownTotal(visits, stats.window.since)
  <2>1. stats.pc = "breakdown"
    BY <1>1 DEF AskBreakdown, Ask
  <2> QED
    BY <1>1, <2>1 DEF StatsInv, Today
<1>2. IInv /\ StatsInv /\ [Next]_vars =>
          [AskBreakdown =>
              /\ stats.daily > 0 => LET today == KstDate(stats.window.start)
                                    IN  /\ today \in DOMAIN stats.trend
                                        /\ stats.daily <= stats.trend[today]
              /\ Cardinality(DOMAIN stats.dwell)
                     <= BreakdownTotal(visits, stats.window.since)]_vars
  BY <1>1
<1> QED
  BY InitIInv, StepIInv, InitStatsInv, StepStatsInv, <1>2, PTL DEF Spec, AnswerFitsTogether
=============================================================================
