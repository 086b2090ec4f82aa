--------------------------- MODULE DashboardProofs ---------------------------
(***************************************************************************)
(* Theorems about EventLog and Dashboard for every value of their          *)
(* constants: any number of requests, loads, faults and crashes.           *)
(***************************************************************************)
EXTENDS Dashboard, FiniteSetTheorems, SequenceTheorems, WellFoundedInduction, TLAPS

-----------------------------------------------------------------------------
(* The inductive invariant of EventLog. *)

(* The rows a request is about to insert are one and the same event. *)
RowsOfRequest(r) ==
    /\ r.pc = "raw" =>
          /\ r.mapRow.n = r.n /\ r.mapRow.at <= now
          /\ r.mapRow.type = r.payload.type /\ r.mapRow.anon = r.payload.anon
    /\ r.pc = "commit" =>
          /\ r.mapRow.n = r.n /\ r.rawRow.n = r.n
          /\ r.mapRow.type = r.rawRow.type /\ r.mapRow.anon = r.rawRow.anon
          /\ r.mapRow.at <= r.rawRow.at

RowsAreOneEvent == \A t \in Threads : RowsOfRequest(request[t])

Pending(r) == r.pc \in {"map", "raw", "commit"}

(* Numbers are given once, and a request that is not committed is in no log.*)
NumbersAreFresh ==
    /\ \A i \in 1 .. Len(mapLog) : mapLog[i].n <= events
    /\ \A t \in Threads : Pending(request[t]) =>
          /\ request[t].n <= events
          /\ \A i \in 1 .. Len(mapLog) : mapLog[i].n # request[t].n
          /\ \A u \in Threads : Pending(request[u]) /\ request[u].n = request[t].n => u = t

(* What is about to be answered with success has been committed. *)
AnswersAreCommitted ==
    \A t \in Threads : request[t].pc = "answer" =>
        /\ request[t].n \in 1 .. events
        /\ \E i \in 1 .. Len(mapLog) : mapLog[i].n = request[t].n

PendingIsNumbered == \A t \in Threads : Pending(request[t]) => request[t].n # 0

(* The two logs have rows of the same requests in the same order, no request*)
(* twice, and each that was answered with success.                          *)
SameRows ==
    /\ Len(mapLog) = Len(rawLog)
    /\ \A i \in DOMAIN mapLog :
          /\ mapLog[i].n = rawLog[i].n
          /\ mapLog[i].type = rawLog[i].type /\ mapLog[i].anon = rawLog[i].anon
          /\ mapLog[i].at <= rawLog[i].at
          /\ \A j \in DOMAIN mapLog : mapLog[i].n = mapLog[j].n => i = j
    /\ \A n \in acked : \E i \in DOMAIN mapLog : mapLog[i].n = n

EInv ==
    /\ EventTypeOK
    /\ SameRows
    /\ RowsAreOneEvent
    /\ NumbersAreFresh
    /\ PendingIsNumbered
    /\ AnswersAreCommitted

-----------------------------------------------------------------------------
(* normalize_search_map_event: every minimum area is in a bucket. *)
LEMMA BucketType ==
    ASSUME NEW area
    PROVE  MinAreaBucketFor(area) \in Buckets \cup {Overflow}
<1> DEFINE above == {upper \in Buckets : area \in Int /\ area < upper}
<1>1. CASE above = {}
  BY <1>1 DEF MinAreaBucketFor
<1>2. CASE above # {}
  <2>1. \E m \in above : \A u \in above : m <= u
    <3>1. CASE 100 \in above
      BY <3>1 DEF Buckets
    <3>2. CASE 100 \notin above /\ 200 \in above
      BY <3>2 DEF Buckets
    <3>3. CASE 100 \notin above /\ 200 \notin above /\ 300 \in above
      BY <3>3 DEF Buckets
    <3>4. CASE 100 \notin above /\ 200 \notin above /\ 300 \notin above /\ 500 \in above
      BY <3>4 DEF Buckets
    <3>5. CASE above \subseteq {1000}
      BY <1>2, <3>5 DEF Buckets
    <3>6. above \subseteq {100, 200, 300, 500, 1000}
      BY DEF Buckets
    <3> HIDE DEF above
    <3> QED
      BY <3>1, <3>2, <3>3, <3>4, <3>5, <3>6
  <2>2. Min(above) \in above
    BY <2>1 DEF Min
  <2> QED
    BY <1>2, <2>2 DEF MinAreaBucketFor
<1> QED
  BY <1>1, <1>2

(* The rows of an accepted event. *)
LEMMA RowTypes ==
    ASSUME NEW p \in Payloads, Accepted(p), NEW n \in Nat, NEW at \in Nat
    PROVE  /\ MapRow(p, n, at) \in MapRows /\ RawRow(p, n, at) \in RawRows
           /\ MapRow(p, n, at).n = n /\ MapRow(p, n, at).at = at
           /\ MapRow(p, n, at).type = p.type /\ MapRow(p, n, at).anon = p.anon
           /\ RawRow(p, n, at).n = n /\ RawRow(p, n, at).at = at
           /\ RawRow(p, n, at).type = p.type /\ RawRow(p, n, at).anon = p.anon
<1>1. p \in Search \cup LandClick \cup OtherEvent
  BY EventLogAssumption DEF EventLogAssumption
<1>2. CASE p \in Search
  <2>1. p.type = "search" /\ p.term.name \in Nat \cup {Nothing} /\ p.anon \in Nat \cup {Nothing}
    BY <1>2 DEF Search
  <2>2. MinAreaBucketFor(ParseMinArea(p.minArea)) \in Buckets \cup {Overflow}
    BY BucketType
  <2> QED
    BY <2>1, <2>2 DEF MapRow, RawRow, MapRows, RawRows, NormalizeSearchTerm
<1>3. CASE p \in LandClick
  <2>1. p.type = "land_click" /\ p.land \in Nat /\ p.anon \in Nat \cup {Nothing}
    BY <1>3 DEF LandClick, Accepted
  <2> QED
    BY <2>1 DEF MapRow, RawRow, MapRows, RawRows
<1>4. CASE p \in OtherEvent
  BY <1>4 DEF OtherEvent, Accepted
<1> QED
  BY <1>1, <1>2, <1>3, <1>4

LEMMA EventInitInv == EventInit => EInv
<1> SUFFICES ASSUME EventInit
             PROVE  EInv
  OBVIOUS
<1>1. /\ mapLog \in Seq(MapRows) /\ rawLog \in Seq(RawRows)
      /\ Len(mapLog) = 0 /\ Len(rawLog) = 0
  BY DEF EventInit
<1>2. EventTypeOK
  BY <1>1, EventLogAssumption DEF EventLogAssumption, EventInit, EventTypeOK, RequestTypeOK, Idle
<1> QED
  BY <1>1, <1>2 DEF EventInit, EInv, SameRows, RowsAreOneEvent, RowsOfRequest,
     NumbersAreFresh, PendingIsNumbered, AnswersAreCommitted, Pending, Idle

-----------------------------------------------------------------------------
(* Each action keeps it. *)

(* A request moves on, and the logs stay as they are: what has to be shown. *)
LEMMA RequestStep ==
    ASSUME EInv, NEW t \in Threads, NEW r,
           request' = [request EXCEPT ![t] = r],
           RequestTypeOK(r), RowsOfRequest(r), r.pc # "answer",
           Pending(r) => Pending(request[t]) /\ r.n = request[t].n,
           fails' \in 0 .. MaxFails, UNCHANGED <<now, mapLog, rawLog, events, acked>>
    PROVE  EInv'
<1>1. /\ DOMAIN request' = Threads
      /\ \A u \in Threads : request'[u] = IF u = t THEN r ELSE request[u]
  BY DEF EInv, EventTypeOK
<1>2. EventTypeOK'
  BY <1>1 DEF EInv, EventTypeOK, RequestTypeOK
<1>3. SameRows'
  BY DEF EInv, SameRows
<1>4. RowsAreOneEvent' /\ AnswersAreCommitted' /\ PendingIsNumbered'
  BY <1>1 DEF EInv, RowsAreOneEvent, RowsOfRequest, AnswersAreCommitted, PendingIsNumbered,
     Pending
<1>5. NumbersAreFresh'
  BY <1>1 DEF EInv, NumbersAreFresh, Pending
<1> QED
  BY <1>2, <1>3, <1>4, <1>5 DEF EInv

(* A request arrives, and is given the next number or refused. *)
LEMMA PostStep ==
    ASSUME EInv, NEW t \in Threads, NEW p \in Payloads, PostMapEvent(t, p)
    PROVE  EInv'
<1> DEFINE r == IF Accepted(p) THEN [pc |-> "map", n |-> events + 1, payload |-> p] ELSE Idle
<1>1. /\ request[t].pc = "idle" /\ events' = events + 1
      /\ request' = [request EXCEPT ![t] = r]
      /\ UNCHANGED <<now, mapLog, rawLog, fails, acked>>
  BY DEF PostMapEvent
<1>2. events \in Nat /\ events + 1 \in 0 .. MaxEvents /\ acked \subseteq 1 .. events + 1
  BY EventLogAssumption DEF PostMapEvent, EInv, EventTypeOK, EventLogAssumption
<1>3. /\ RequestTypeOK(r) /\ r.pc \in {"idle", "map"}
      /\ r.pc = "map" => r.n = events + 1
  BY <1>2 DEF RequestTypeOK, Idle
<1> HIDE DEF r
<1>4. /\ DOMAIN request' = Threads
      /\ \A u \in Threads : request'[u] = IF u = t THEN r ELSE request[u]
  BY <1>1 DEF EInv, EventTypeOK
<1>5. EventTypeOK'
  BY <1>1, <1>2, <1>3, <1>4 DEF EInv, EventTypeOK, RequestTypeOK
<1>6. SameRows'
  BY <1>1 DEF EInv, SameRows
<1>7. RowsAreOneEvent' /\ AnswersAreCommitted' /\ PendingIsNumbered'
  BY <1>1, <1>2, <1>3, <1>4 DEF EInv, RowsAreOneEvent, RowsOfRequest, AnswersAreCommitted,
     PendingIsNumbered, Pending
<1>8. NumbersAreFresh'
  <2>1. \A i \in 1 .. Len(mapLog) : mapLog[i].n \in Nat /\ mapLog[i].n <= events
    <3>1. mapLog \in Seq(MapRows)
      BY DEF EInv, EventTypeOK
    <3>2. \A i \in 1 .. Len(mapLog) : mapLog[i] \in MapRows
      BY <3>1
    <3> QED
      BY <3>2 DEF EInv, NumbersAreFresh, MapRows
  <2>2. \A u \in Threads : Pending(request[u]) => request[u].n \in Nat /\ request[u].n <= events
    BY DEF EInv, NumbersAreFresh, EventTypeOK, RequestTypeOK
  <2> QED
    BY <1>1, <1>2, <1>3, <1>4, <2>1, <2>2 DEF EInv, NumbersAreFresh, Pending
<1> QED
  BY <1>5, <1>6, <1>7, <1>8 DEF EInv

(* The two INSERTs. *)
LEMMA InsertStep ==
    ASSUME EInv, NEW t \in Threads, InsertMapEvent(t) \/ InsertRawQueryLog(t)
    PROVE  EInv'
<1>1. /\ RequestTypeOK(request[t]) /\ RowsOfRequest(request[t])
      /\ now \in Nat /\ fails \in 0 .. MaxFails
  BY EventLogAssumption DEF EventLogAssumption, EInv, EventTypeOK, RowsAreOneEvent
<1>2. CASE InsertMapEvent(t)
  <2> DEFINE q == request[t]
             row == MapRow(q.payload, q.n, now)
             r == [pc |-> "raw", n |-> q.n, payload |-> q.payload, mapRow |-> row]
  <2>1. q.pc = "map" /\ q.payload \in Payloads /\ Accepted(q.payload) /\ q.n \in Nat
    BY <1>1, <1>2 DEF InsertMapEvent, RequestTypeOK
  <2>2. /\ row \in MapRows /\ row.n = q.n /\ row.at = now
        /\ row.type = q.payload.type /\ row.anon = q.payload.anon
    BY <1>1, <2>1, RowTypes
  <2>3. /\ request' = [request EXCEPT ![t] = r]
        /\ UNCHANGED <<now, mapLog, rawLog, events, fails, acked>>
    BY <1>2 DEF InsertMapEvent
  <2> HIDE DEF row
  <2>4. RequestTypeOK(r) /\ RowsOfRequest(r)
    BY <1>1, <2>1, <2>2 DEF RequestTypeOK, RowsOfRequest
  <2> QED
    BY <1>1, <2>1, <2>3, <2>4, RequestStep DEF Pending
<1>3. CASE InsertRawQueryLog(t)
  <2> DEFINE q == request[t]
             row == RawRow(q.payload, q.n, now)
             r == [pc |-> "commit", n |-> q.n, mapRow |-> q.mapRow, rawRow |-> row]
  <2>1. /\ q.pc = "raw" /\ q.payload \in Payloads /\ Accepted(q.payload) /\ q.n \in Nat
        /\ q.mapRow \in MapRows
    BY <1>1, <1>3 DEF InsertRawQueryLog, RequestTypeOK
  <2>2. /\ row \in RawRows /\ row.n = q.n /\ row.at = now
        /\ row.type = q.payload.type /\ row.anon = q.payload.anon
    BY <1>1, <2>1, RowTypes
  <2>3. /\ request' = [request EXCEPT ![t] = r]
        /\ UNCHANGED <<now, mapLog, rawLog, events, fails, acked>>
    BY <1>3 DEF InsertRawQueryLog
  <2> HIDE DEF row
  <2>4. RequestTypeOK(r) /\ RowsOfRequest(r)
    BY <1>1, <2>1, <2>2 DEF RequestTypeOK, RowsOfRequest
  <2> QED
    BY <1>1, <2>1, <2>3, <2>4, RequestStep DEF Pending
<1> QED
  BY <1>2, <1>3

(* The COMMIT puts both rows in place. *)
LEMMA CommitStep ==
    ASSUME EInv, NEW t \in Threads, Commit(t)
    PROVE  EInv'
<1> PICK len : len = Len(mapLog)
  OBVIOUS
<1> DEFINE q == request[t]
           r == [pc |-> "answer", n |-> q.n]
<1>1. /\ q.pc = "commit" /\ q.n \in Nat /\ q.n <= events /\ q.n # 0 /\ events \in Nat
      /\ q.mapRow \in MapRows /\ q.rawRow \in RawRows
      /\ q.mapRow.n = q.n /\ q.rawRow.n = q.n
      /\ q.mapRow.type = q.rawRow.type /\ q.mapRow.anon = q.rawRow.anon
      /\ q.mapRow.at <= q.rawRow.at
      /\ \A i \in 1 .. len : mapLog[i].n # q.n
      /\ \A u \in Threads : Pending(request[u]) /\ request[u].n = q.n => u = t
  BY DEF Commit, EInv, EventTypeOK, RequestTypeOK, RowsAreOneEvent, RowsOfRequest,
     NumbersAreFresh, PendingIsNumbered, Pending
<1>2. /\ mapLog \in Seq(MapRows) /\ rawLog \in Seq(RawRows)
      /\ len \in Nat /\ Len(rawLog) = len
      /\ DOMAIN mapLog = 1 .. len
  BY DEF EInv, EventTypeOK, SameRows
<1>3. /\ mapLog' = Append(mapLog, q.mapRow) /\ rawLog' = Append(rawLog, q.rawRow)
      /\ request' = [request EXCEPT ![t] = r]
      /\ UNCHANGED <<now, events, fails, acked>>
  BY DEF Commit
<1> HIDE DEF q
<1>4. /\ mapLog' \in Seq(MapRows) /\ Len(mapLog') = len + 1
      /\ DOMAIN mapLog' = 1 .. len + 1
      /\ mapLog'[len + 1] = q.mapRow /\ \A i \in 1 .. len : mapLog'[i] = mapLog[i]
  BY <1>1, <1>2, <1>3
<1>5. /\ rawLog' \in Seq(RawRows) /\ Len(rawLog') = len + 1
      /\ rawLog'[len + 1] = q.rawRow /\ \A i \in 1 .. len : rawLog'[i] = rawLog[i]
  BY <1>1, <1>2, <1>3
<1>6. /\ DOMAIN request' = Threads
      /\ \A u \in Threads : request'[u] = IF u = t THEN r ELSE request[u]
  BY <1>3 DEF EInv, EventTypeOK
<1>7. EventTypeOK'
  BY <1>1, <1>3, <1>4, <1>5, <1>6 DEF EInv, EventTypeOK, RequestTypeOK
<1>8. SameRows'
  <2>1. ASSUME NEW i \in 1 .. len + 1
        PROVE  /\ mapLog'[i].n = rawLog'[i].n
               /\ mapLog'[i].type = rawLog'[i].type /\ mapLog'[i].anon = rawLog'[i].anon
               /\ mapLog'[i].at <= rawLog'[i].at
               /\ \A j \in 1 .. len + 1 : mapLog'[i].n = mapLog'[j].n => i = j
    <3>1. CASE i = len + 1
      <4>1. mapLog'[i] = q.mapRow /\ rawLog'[i] = q.rawRow
        BY <1>4, <1>5, <3>1
      <4>2. \A j \in 1 .. len : mapLog'[i].n # mapLog'[j].n
        BY <1>1, <1>4, <4>1
      <4>3. \A j \in 1 .. len + 1 : j \in 1 .. len \/ j = i
        BY <1>2, <3>1
      <4> QED
        BY <1>1, <4>1, <4>2, <4>3
    <3>2. CASE i \in 1 .. len
      <4>1. /\ mapLog[i].n = rawLog[i].n
            /\ mapLog[i].type = rawLog[i].type /\ mapLog[i].anon = rawLog[i].anon
            /\ mapLog[i].at <= rawLog[i].at
            /\ \A j \in 1 .. len : mapLog[i].n = mapLog[j].n => i = j
        BY <1>2, <3>2 DEF EInv, SameRows
      <4>2. \A j \in 1 .. len + 1 : mapLog'[i].n = mapLog'[j].n => i = j
        BY <1>1, <1>2, <1>4, <3>2, <4>1
      <4> QED
        BY <1>4, <1>5, <3>2, <4>1, <4>2
    <3> QED
      BY <1>2, <3>1, <3>2
  <2>2. ASSUME NEW n \in acked
        PROVE  \E i \in 1 .. len + 1 : mapLog'[i].n = n
    <3> PICK i \in 1 .. len : mapLog[i].n = n
      BY <1>2 DEF EInv, SameRows
    <3> QED
      BY <1>2, <1>4
  <2>3. Len(mapLog') = Len(rawLog') /\ DOMAIN mapLog' = 1 .. len + 1 /\ acked' = acked
    BY <1>3, <1>4, <1>5
  <2> QED
    BY <2>1, <2>2, <2>3 DEF SameRows
<1>9. RowsAreOneEvent' /\ PendingIsNumbered'
  BY <1>3, <1>6 DEF EInv, RowsAreOneEvent, RowsOfRequest, PendingIsNumbered, Pending
<1>10. AnswersAreCommitted'
  <2>1. \A u \in Threads : request[u].pc = "answer" =>
            /\ request[u].n \in 1 .. events
            /\ \E i \in 1 .. len + 1 : mapLog'[i].n = request[u].n
    BY <1>2, <1>4 DEF EInv, AnswersAreCommitted
  <2>2. r.n \in 1 .. events /\ len + 1 \in 1 .. len + 1 /\ mapLog'[len + 1].n = r.n
    BY <1>1, <1>2, <1>4
  <2> HIDE DEF r
  <2> QED
    BY <1>3, <1>4, <1>6, <2>1, <2>2 DEF AnswersAreCommitted
<1>11. NumbersAreFresh'
  <2>1. \A i \in 1 .. len + 1 : mapLog'[i].n <= events
    BY <1>1, <1>2, <1>4 DEF EInv, NumbersAreFresh
  <2>2. ASSUME NEW u \in Threads, Pending(request'[u])
        PROVE  /\ u # t /\ request'[u] = request[u] /\ Pending(request[u])
               /\ \A i \in 1 .. len + 1 : mapLog'[i].n # request[u].n
    <3>1. u # t /\ request'[u] = request[u]
      BY <1>6, <2>2 DEF Pending
    <3>2. request[u].n # q.n
      BY <1>1, <2>2, <3>1
    <3> QED
      BY <1>1, <1>2, <1>4, <2>2, <3>1, <3>2 DEF EInv, NumbersAreFresh
  <2> QED
    BY <1>3, <1>4, <2>1, <2>2 DEF EInv, NumbersAreFresh, Pending
<1> QED
  BY <1>7, <1>8, <1>9, <1>10, <1>11 DEF EInv

(* The answer. *)
LEMMA AcknowledgeStep ==
    ASSUME EInv, NEW t \in Threads, Acknowledge(t)
    PROVE  EInv'
<1>1. /\ request[t].pc = "answer" /\ request[t].n \in 1 .. events
      /\ \E i \in 1 .. Len(mapLog) : mapLog[i].n = request[t].n
  BY DEF Acknowledge, EInv, AnswersAreCommitted
<1>2. /\ acked' = acked \cup {request[t].n} /\ request' = [request EXCEPT ![t] = Idle]
      /\ UNCHANGED <<now, mapLog, rawLog, events, fails>>
  BY DEF Acknowledge
<1>3. /\ DOMAIN request' = Threads
      /\ \A u \in Threads : request'[u] = IF u = t THEN Idle ELSE request[u]
  BY <1>2 DEF EInv, EventTypeOK
<1>4. EventTypeOK'
  BY <1>1, <1>2, <1>3 DEF EInv, EventTypeOK, RequestTypeOK, Idle
<1>5. SameRows'
  <2>1. DOMAIN mapLog = 1 .. Len(mapLog)
    BY DEF EInv, EventTypeOK
  <2> QED
    BY <1>1, <1>2, <2>1 DEF EInv, SameRows
<1>6. RowsAreOneEvent' /\ AnswersAreCommitted' /\ PendingIsNumbered' /\ NumbersAreFresh'
  BY <1>2, <1>3 DEF EInv, RowsAreOneEvent, RowsOfRequest, AnswersAreCommitted,
     PendingIsNumbered, NumbersAreFresh, Pending, Idle
<1> QED
  BY <1>4, <1>5, <1>6 DEF EInv

(* The process stops. *)
LEMMA CrashStep ==
    ASSUME EInv, Crash
    PROVE  EInv'
<1>1. /\ DOMAIN request' = Threads /\ \A u \in Threads : request'[u] = Idle
      /\ fails' \in 0 .. MaxFails /\ UNCHANGED <<now, mapLog, rawLog, events, acked>>
  BY EventLogAssumption DEF Crash, EInv, EventTypeOK, EventLogAssumption
<1>2. EventTypeOK'
  BY <1>1 DEF EInv, EventTypeOK, RequestTypeOK, Idle
<1> QED
  BY <1>1, <1>2 DEF EInv, SameRows, RowsAreOneEvent, RowsOfRequest, AnswersAreCommitted,
     PendingIsNumbered, NumbersAreFresh, Pending, Idle

(* Every step of EventLog keeps the invariant. *)
LEMMA EventStepInv == EInv /\ [EventNext]_eventVars => EInv'
<1> SUFFICES ASSUME EInv, [EventNext]_eventVars
             PROVE  EInv'
  OBVIOUS
<1>1. CASE Tick
  <2>1. now' \in 0 .. MaxTime /\ now \in Nat /\ now <= now'
    BY <1>1, EventLogAssumption DEF Tick, EInv, EventTypeOK, EventLogAssumption
  <2>2. UNCHANGED <<mapLog, rawLog, request, events, fails, acked>>
    BY <1>1 DEF Tick
  <2>3. RowsAreOneEvent'
    <3>1. \A t \in Threads : request[t].pc = "raw" => request[t].mapRow.at \in Nat
      BY DEF EInv, EventTypeOK, RequestTypeOK, MapRows
    <3> QED
      BY <2>1, <2>2, <3>1, EventLogAssumption
         DEF EventLogAssumption, EInv, EventTypeOK, RowsAreOneEvent, RowsOfRequest
  <2> QED
    BY <2>1, <2>2, <2>3 DEF EInv, EventTypeOK, RequestTypeOK, SameRows,
       AnswersAreCommitted, PendingIsNumbered, NumbersAreFresh, Pending
<1>2. ASSUME NEW t \in Threads, DatabaseFails(t)
      PROVE  EInv'
  <2>1. /\ request' = [request EXCEPT ![t] = Idle] /\ fails' \in 0 .. MaxFails
        /\ UNCHANGED <<now, mapLog, rawLog, events, acked>>
    BY <1>2, EventLogAssumption DEF DatabaseFails, EInv, EventTypeOK, EventLogAssumption
  <2>2. RequestTypeOK(Idle) /\ RowsOfRequest(Idle) /\ Idle.pc = "idle"
    BY DEF RequestTypeOK, RowsOfRequest, Idle
  <2> QED
    BY <2>1, <2>2, RequestStep DEF Pending
<1>3. CASE UNCHANGED eventVars
  BY <1>3 DEF eventVars, EInv, EventTypeOK, RequestTypeOK, SameRows, RowsAreOneEvent,
     RowsOfRequest, AnswersAreCommitted, PendingIsNumbered, NumbersAreFresh, Pending
<1> QED
  BY <1>1, <1>2, <1>3, PostStep, InsertStep, CommitStep, AcknowledgeStep, CrashStep
     DEF EventNext, Request

-----------------------------------------------------------------------------
(* The logs and the requests are typed in every reachable state. *)
THEOREM EventTypesCorrect == EventSpec => []EventTypeOK
<1>1. EInv => EventTypeOK
  BY DEF EInv
<1> QED
  BY EventInitInv, EventStepInv, <1>1, PTL DEF EventSpec

(* The dashboard leaves the logs, and the requests that write them, as they *)
(* would be without it.                                                     *)
THEOREM DashboardOnlyReads == Spec => EventSpec
<1>1. Init => EventInit
  BY DEF Init
<1>2. ASSUME [Next]_vars
      PROVE  [EventNext]_eventVars
  <2>1. CASE EventStep
    BY <2>1 DEF EventStep, EventNext
  <2>2. CASE Restart
    BY <2>2 DEF Restart, EventNext
  <2>3. ASSUME NEW force \in BOOLEAN, LoadStats(force)
        PROVE  UNCHANGED eventVars
    BY <2>3 DEF LoadStats
  <2>4. ASSUME NEW l \in LoadId, Load(l)
        PROVE  UNCHANGED eventVars
    BY <2>4 DEF Load, ReadSummary, ReadRegions, ReadBuckets, ReadLands, ReadTrend, Read,
       Render, LoadFails
  <2>5. CASE UNCHANGED vars
    BY <2>5 DEF vars
  <2> QED
    BY <1>2, <2>1, <2>2, <2>3, <2>4, <2>5 DEF Next
<1> QED
  BY <1>1, <1>2, PTL DEF Spec, EventSpec

-----------------------------------------------------------------------------
(* The order of the rows. *)

(* SQLite has one writer, whose row is not older than those that are there: *)
(* the rows are in the order of their times.                                *)
OrderInv ==
    /\ \A t, u \in Threads : Writing(t) /\ Writing(u) => t = u
    /\ \A t \in Threads : request[t].pc = "commit" =>
          /\ request[t].rawRow.at <= now
          /\ \A i \in 1 .. Len(rawLog) : rawLog[i].at <= request[t].rawRow.at
    /\ \A i \in 1 .. Len(rawLog) :
          /\ rawLog[i].at <= now
          /\ \A j \in 1 .. i : rawLog[j].at <= rawLog[i].at

LEMMA InitOrder == EventInit => OrderInv
<1> SUFFICES ASSUME EventInit
             PROVE  OrderInv
  OBVIOUS
<1>1. Len(rawLog) = 0
  BY DEF EventInit
<1> QED
  BY <1>1 DEF EventInit, OrderInv, Writing, Idle

(* A row of the log. *)
LEMMA RawRowTimes ==
    ASSUME EInv
    PROVE  /\ now \in Nat /\ rawLog \in Seq(RawRows) /\ Len(rawLog) \in Nat
           /\ \A i \in 1 .. Len(rawLog) : rawLog[i].at \in Nat
           /\ \A t \in Threads : request[t].pc = "commit" => request[t].rawRow.at \in Nat
<1>1. now \in Nat /\ rawLog \in Seq(RawRows)
  BY EventLogAssumption DEF EventLogAssumption, EInv, EventTypeOK
<1>2. \A i \in 1 .. Len(rawLog) : rawLog[i] \in RawRows
  BY <1>1
<1>3. \A t \in Threads : request[t].pc = "commit" => request[t].rawRow \in RawRows
  BY DEF EInv, EventTypeOK, RequestTypeOK
<1> QED
  BY <1>1, <1>2, <1>3 DEF RawRows

(* A request moves on and writes no row. *)
LEMMA OrderKept ==
    ASSUME EInv, OrderInv, rawLog' = rawLog, now' \in Nat, now <= now',
           \A t \in Threads : Writing(t)' => Writing(t),
           \A t \in Threads : request'[t].pc = "commit" => request'[t] = request[t]
    PROVE  OrderInv'
<1>1. \A i \in 1 .. Len(rawLog) : rawLog[i].at <= now'
  BY RawRowTimes DEF OrderInv
<1>2. \A t \in Threads : request'[t].pc = "commit" =>
          /\ request'[t].rawRow.at <= now'
          /\ \A i \in 1 .. Len(rawLog) : rawLog[i].at <= request'[t].rawRow.at
  BY RawRowTimes DEF OrderInv
<1> QED
  BY <1>1, <1>2 DEF OrderInv

LEMMA StepOrder == EInv /\ OrderInv /\ [EventNext]_eventVars => OrderInv'
<1> SUFFICES ASSUME EInv, OrderInv, [EventNext]_eventVars
             PROVE  OrderInv'
  OBVIOUS
<1>1. /\ now \in Nat /\ DOMAIN request = Threads
      /\ rawLog \in Seq(RawRows) /\ Len(rawLog) \in Nat
      /\ \A i \in 1 .. Len(rawLog) : rawLog[i].at \in Nat
  BY RawRowTimes DEF EInv, EventTypeOK
<1>2. CASE Tick \/ UNCHANGED eventVars
  <2>1. rawLog' = rawLog /\ request' = request /\ now' \in Nat /\ now <= now'
    BY <1>1, <1>2 DEF Tick, eventVars
  <2> QED
    BY <2>1, OrderKept DEF Writing
<1>3. CASE Crash
  <2>1. rawLog' = rawLog /\ now' = now /\ \A t \in Threads : request'[t].pc = "idle"
    BY <1>3 DEF Crash, Idle
  <2> QED
    BY <1>1, <2>1, OrderKept DEF Writing
<1>4. ASSUME NEW t \in Threads,
             \/ \E p \in Payloads : PostMapEvent(t, p)
             \/ Acknowledge(t) \/ DatabaseFails(t)
      PROVE  OrderInv'
  <2>1. /\ rawLog' = rawLog /\ now' = now
        /\ request'[t].pc \in {"idle", "map"}
        /\ \A u \in Threads : u # t => request'[u] = request[u]
    BY <1>1, <1>4 DEF PostMapEvent, Acknowledge, DatabaseFails, Idle
  <2> QED
    BY <1>1, <2>1, OrderKept DEF Writing
<1>5. ASSUME NEW t \in Threads, InsertMapEvent(t)
      PROVE  OrderInv'
  <2>1. /\ rawLog' = rawLog /\ now' = now /\ request'[t].pc = "raw"
        /\ \A u \in Threads : u # t => request'[u] = request[u]
        /\ \A u \in Threads : ~Writing(u)
    BY <1>1, <1>5 DEF InsertMapEvent
  <2> QED
    BY <2>1 DEF OrderInv, Writing
<1>6. ASSUME NEW t \in Threads, InsertRawQueryLog(t)
      PROVE  OrderInv'
  <2>1. /\ rawLog' = rawLog /\ now' = now /\ Writing(t)
        /\ request'[t].pc = "commit" /\ request'[t].rawRow.at = now
        /\ \A u \in Threads : u # t => request'[u] = request[u]
    BY <1>1, <1>6 DEF InsertRawQueryLog, Writing, RawRow
  <2>2. \A u, v \in Threads : Writing(u)' /\ Writing(v)' => u = v
    BY <2>1 DEF OrderInv, Writing
  <2>3. \A u \in Threads : request'[u].pc = "commit" => u = t
    BY <2>1, <2>2 DEF Writing
  <2> QED
    BY <1>1, <2>1, <2>2, <2>3 DEF OrderInv
<1>7. ASSUME NEW t \in Threads, Commit(t)
      PROVE  OrderInv'
  <2> PICK len, row : len = Len(rawLog) /\ row = request[t].rawRow
    OBVIOUS
  <2>1. /\ rawLog' = Append(rawLog, row) /\ now' = now /\ request[t].pc = "commit"
        /\ request'[t].pc = "answer"
        /\ \A u \in Threads : u # t => request'[u] = request[u]
    BY <1>1, <1>7 DEF Commit
  <2>2. /\ row \in RawRows /\ row.at <= now /\ row.at \in Nat
        /\ \A i \in 1 .. len : rawLog[i].at <= row.at
    BY <2>1, RawRowTimes DEF OrderInv, EInv, EventTypeOK, RequestTypeOK
  <2>3. /\ Len(rawLog') = len + 1 /\ len \in Nat /\ rawLog'[len + 1] = row
        /\ \A i \in 1 .. len : rawLog'[i] = rawLog[i]
    BY <1>1, <2>1, <2>2
  <2>4. \A u \in Threads : ~Writing(u)'
    BY <2>1 DEF OrderInv, Writing
  <2>5. ASSUME NEW i \in 1 .. len + 1
        PROVE  rawLog'[i].at <= now' /\ \A j \in 1 .. i : rawLog'[j].at <= rawLog'[i].at
    <3>1. CASE i = len + 1
      <4>1. \A j \in 1 .. i : j \in 1 .. len \/ j = len + 1
        BY <2>3, <3>1
      <4> QED
        BY <2>1, <2>2, <2>3, <3>1, <4>1
    <3>2. CASE i \in 1 .. len
      <4>1. \A j \in 1 .. i : j \in 1 .. len
        BY <2>3, <3>2
      <4> QED
        BY <2>1, <2>3, <3>2, <4>1 DEF OrderInv
    <3> QED
      BY <2>3, <3>1, <3>2
  <2> QED
    BY <2>3, <2>4, <2>5 DEF OrderInv, Writing
<1> QED
  BY <1>2, <1>3, <1>4, <1>5, <1>6, <1>7 DEF EventNext, Request

-----------------------------------------------------------------------------
(* What an export selects. *)

(* The day of a time, and its bounds. *)
LEMMA DayBounds ==
    ASSUME NEW at \in Nat, NEW day \in Nat
    PROVE  /\ DateOf(at) \in Int
           /\ DateOf(at) >= day <=> at >= DateStart(day)
           /\ DateOf(at) <= day <=> at < DateEndExclusive(day)
<1>1. Day \in Nat /\ Day > 0
  BY EventLogAssumption DEF EventLogAssumption
<1> DEFINE q == at \div Day
           r == at % Day
           d == q - day
<1>2. q \in Int /\ r \in 0 .. Day - 1 /\ at = Day * q + r
  BY <1>1
<1> HIDE DEF q, r
<1>3. /\ d \in Int /\ Day * q = Day * day + Day * d
      /\ day * Day = Day * day /\ (day + 1) * Day = Day * day + Day
      /\ Day * day \in Int /\ Day * d \in Int
  BY <1>1, <1>2
<1>4. /\ d >= 0 => Day * d >= 0
      /\ d >= 1 => Day * d >= Day
      /\ d <= 0 - 1 => Day * d <= 0 - Day
  <2> HIDE DEF d
  <2> QED
    BY <1>1, <1>3
<1> DEFINE m == Day * day
           e == Day * d
<1>5. /\ m \in Int /\ e \in Int /\ at = m + e + r
      /\ DateStart(day) = m /\ DateEndExclusive(day) = m + Day
  BY <1>2, <1>3 DEF DateStart, DateEndExclusive
<1>6. (d >= 0 => e >= 0) /\ (d >= 1 => e >= Day) /\ (d <= 0 - 1 => e <= 0 - Day)
  BY <1>4
<1>7. d = 0 => e = 0
  BY <1>1
<1> HIDE DEF m, e, d
<1>8. /\ d >= 0 <=> at >= m
      /\ d <= 0 <=> at < m + Day
  BY <1>1, <1>2, <1>3, <1>5, <1>6, <1>7
<1>9. (q >= day <=> d >= 0) /\ (q <= day <=> d <= 0)
  BY <1>2 DEF d
<1> QED
  BY <1>2, <1>5, <1>8, <1>9 DEF q, DateOf

(* Numbers have a least one, and if they are bounded, a greatest one. *)
LEMMA LeastOf ==
    ASSUME NEW S \in SUBSET Nat, S # {}
    PROVE  \E m \in S : \A i \in S : m <= i
<1>1. IsWellFoundedOn(OpToRel(<, Nat), Nat)
  BY NatLessThanWellFounded
<1>2. PICK m \in S : \A i \in S : ~(<<i, m>> \in OpToRel(<, Nat))
  BY <1>1, WFMin
<1>3. \A i \in S : i < m => <<i, m>> \in OpToRel(<, Nat)
  BY DEF OpToRel
<1>4. \A i \in S : ~(i < m)
  BY <1>2, <1>3
<1>5. \A i \in S : m <= i
  <2>1. m \in Nat /\ \A i \in S : i \in Nat
    OBVIOUS
  <2> QED
    BY <1>4, <2>1
<1> QED
  BY <1>5

LEMMA GreatestOf ==
    ASSUME NEW len \in Nat, NEW S \in SUBSET (1 .. len), S # {}
    PROVE  \E m \in S : \A i \in S : i <= m
<1> DEFINE below == {len - i : i \in S}
<1>1. below \in SUBSET Nat /\ below # {}
  <2>1. \A i \in S : i \in Int /\ len - i \in Nat
    OBVIOUS
  <2> QED
    BY <2>1
<1>2. PICK b \in below : \A c \in below : b <= c
  <2> HIDE DEF below
  <2> QED
    BY <1>1, LeastOf
<1>3. PICK m \in S : b = len - m
  OBVIOUS
<1>4. \A i \in S : len - m <= len - i
  BY <1>2, <1>3
<1> QED
  BY <1>4

Newer(rows, i) == {j \in rows : j > i}

(* Of rows in the order of their ids, the newest are selected: all that a   *)
(* full selection leaves out are older.                                     *)
LEMMA NewestRows ==
    ASSUME NEW len \in Nat, NEW hits \in SUBSET (1 .. len), NEW limit \in Nat \ {0},
           NEW rows \in SUBSET hits,
           \A k \in hits : k \in rows <=> Cardinality(Newer(hits, k)) < limit,
           NEW i \in hits \ rows
    PROVE  /\ Cardinality(rows) = limit
           /\ \A j \in rows : i < j
<1> DEFINE newer(k) == Newer(hits, k)
<1>1. rows \in SUBSET hits /\ hits \in SUBSET Nat
  OBVIOUS
<1>2. IsFiniteSet(hits)
  <2>1. IsFiniteSet(1 .. len)
    BY FS_Interval
  <2> QED
    BY <2>1, FS_Subset
<1>3. ASSUME NEW k \in hits
      PROVE  /\ IsFiniteSet(newer(k)) /\ Cardinality(newer(k)) \in Nat
             /\ k \in rows <=> Cardinality(newer(k)) < limit
  <2>1. newer(k) \in SUBSET hits
    BY DEF Newer
  <2>2. k \in rows <=> Cardinality(newer(k)) < limit
    OBVIOUS
  <2> HIDE DEF newer
  <2> QED
    BY <1>2, <2>1, <2>2, FS_Subset, FS_CardinalityType
<1>4. ASSUME NEW j \in hits, NEW k \in hits, j < k, j \in rows
      PROVE  k \in rows
  <2>1. newer(k) \in SUBSET newer(j)
    <3>1. \A h \in hits : h > k => h > j
      BY <1>1, <1>4
    <3> QED
      BY <3>1 DEF Newer
  <2> HIDE DEF newer
  <2>2. Cardinality(newer(k)) <= Cardinality(newer(j))
    BY <1>3, <2>1, FS_Subset
  <2> QED
    BY <1>3, <1>4, <2>2
<1>5. \A j \in rows : i < j
  <2> SUFFICES ASSUME NEW j \in rows, j <= i
               PROVE  FALSE
    OBVIOUS
  <2> QED
    BY <1>1, <1>4
<1>6. PICK last \in hits \ rows : \A k \in hits \ rows : k <= last
  <2>1. hits \ rows \in SUBSET (1 .. len) /\ hits \ rows # {}
    OBVIOUS
  <2> QED
    BY <2>1, GreatestOf
<1>7. newer(last) = rows
  <2>1. \A k \in newer(last) : k \in rows
    BY <1>6 DEF Newer
  <2>2. \A k \in rows : k > last
    <3> SUFFICES ASSUME NEW k \in rows, k <= last
                 PROVE  FALSE
      BY <1>1
    <3>1. k \in Nat /\ last \in Nat /\ k # last
      BY <1>1
    <3> QED
      BY <1>1, <1>4, <3>1
  <2> QED
    BY <1>1, <2>1, <2>2 DEF Newer
<1>8. Cardinality(rows) \in Nat /\ Cardinality(rows) >= limit /\ IsFiniteSet(rows)
  <2>1. last \in hits /\ last \notin rows
    OBVIOUS
  <2> HIDE DEF newer
  <2>2. /\ IsFiniteSet(newer(last)) /\ Cardinality(newer(last)) \in Nat
        /\ ~(Cardinality(newer(last)) < limit)
    BY <1>3, <2>1
  <2>3. Cardinality(newer(last)) >= limit
    BY <2>2
  <2> QED
    BY <1>7, <2>2, <2>3
<1>9. rows # {}
  <2>1. Cardinality(rows) # 0
    BY <1>8
  <2> QED
    BY <2>1, FS_EmptySet
<1>10. PICK first \in rows : \A k \in rows : first <= k
  <2>1. rows \in SUBSET Nat
    BY <1>1
  <2> QED
    BY <1>9, <2>1, LeastOf
<1>11. rows = newer(first) \cup {first}
  <2>1. \A k \in newer(first) : k \in rows
    BY <1>1, <1>4 DEF Newer
  <2>2. \A k \in rows : k = first \/ k \in newer(first)
    BY <1>1, <1>10 DEF Newer
  <2> QED
    BY <2>1, <2>2
<1>12. first \notin newer(first) /\ first \in hits
  BY <1>1 DEF Newer
<1> HIDE DEF newer
<1>13. Cardinality(rows) = Cardinality(newer(first)) + 1
  <2>1. IsFiniteSet(newer(first))
    BY <1>3, <1>12
  <2>2. Cardinality(newer(first) \cup {first}) = Cardinality(newer(first)) + 1
    BY <1>12, <2>1, FS_AddElement
  <2> QED
    BY <1>11, <2>2
<1>14. Cardinality(newer(first)) < limit /\ Cardinality(newer(first)) \in Nat
  BY <1>3, <1>12
<1>15. Cardinality(rows) = limit
  BY <1>8, <1>13, <1>14
<1> QED
  BY <1>5, <1>15

LEMMA ExportIsNewest == EInv /\ OrderInv => ExportIsTheNewest
<1> SUFFICES ASSUME EInv, OrderInv,
                    NEW from \in 0 .. DateOf(MaxTime), NEW to \in 0 .. DateOf(MaxTime),
                    NEW limit \in 0 .. MaxRows + 1, NEW e,
                    e = [type |-> "all", from |-> from, to |-> to, limit |-> limit]
             PROVE  LET rows == ExportRawQueries(rawLog, e)
                        days == {i \in DOMAIN rawLog : DateOf(rawLog[i].at) \in from .. to}
                    IN  /\ rows \subseteq days
                        /\ \A i \in days \ rows :
                              /\ Cardinality(rows) >= limit \/ Cardinality(rows) = MaxRows
                              /\ \A j \in rows : i < j
  BY DEF ExportIsTheNewest
<1> PICK len, max : len = Len(rawLog) /\ max = ClampLimit(limit)
  OBVIOUS
<1> DEFINE hits == {i \in DOMAIN rawLog :
                       /\ e.type = "all" \/ rawLog[i].type = e.type
                       /\ e.from # Nothing => rawLog[i].at >= DateStart(e.from)
                       /\ e.to # Nothing => rawLog[i].at < DateEndExclusive(e.to)}
           days == {i \in DOMAIN rawLog : DateOf(rawLog[i].at) \in from .. to}
           before(i) == {j \in hits : \/ rawLog[j].at > rawLog[i].at
                                      \/ rawLog[j].at = rawLog[i].at /\ j > i}
           rows == {i \in hits : Cardinality(before(i)) < max}
<1>1. /\ DOMAIN rawLog = 1 .. len /\ len \in Nat
      /\ \A i \in 1 .. len : rawLog[i].at \in Nat
      /\ from \in Nat /\ to \in Nat
      /\ e.type = "all" /\ e.from = from /\ e.to = to /\ e.limit = limit
      /\ from # Nothing /\ to # Nothing
  BY RawRowTimes, EventLogAssumption DEF EventLogAssumption
<1>2. ExportRawQueries(rawLog, e) = rows
  BY <1>1 DEF ExportRawQueries
<1>3. hits = days
  <2>1. ASSUME NEW i \in 1 .. len
        PROVE  /\ DateOf(rawLog[i].at) \in Int
               /\ DateOf(rawLog[i].at) >= from <=> rawLog[i].at >= DateStart(from)
               /\ DateOf(rawLog[i].at) <= to <=> rawLog[i].at < DateEndExclusive(to)
    BY <1>1, DayBounds
  <2> QED
    BY <1>1, <2>1
<1>4. hits \in SUBSET (1 .. len)
  BY <1>1
<1>5. \A i \in hits : before(i) = Newer(hits, i)
  <2>1. ASSUME NEW i \in hits, NEW j \in hits
        PROVE  (\/ rawLog[j].at > rawLog[i].at
                \/ rawLog[j].at = rawLog[i].at /\ j > i) <=> j > i
    <3>1. i \in 1 .. len /\ j \in 1 .. len /\ rawLog[i].at \in Nat /\ rawLog[j].at \in Nat
      BY <1>1, <1>4
    <3>2. (j <= i => rawLog[j].at <= rawLog[i].at) /\ (i <= j => rawLog[i].at <= rawLog[j].at)
      BY <3>1 DEF OrderInv
    <3> QED
      BY <3>1, <3>2
  <2> HIDE DEF hits
  <2> QED
    BY <2>1 DEF Newer
<1>6. /\ max \in Nat \ {0} /\ limit \in Nat
      /\ max >= limit \/ max = MaxRows
  BY EventLogAssumption DEF EventLogAssumption, ClampLimit
<1>7. rows \in SUBSET hits /\ \A i \in hits : i \in rows <=> Cardinality(Newer(hits, i)) < max
  <2> HIDE DEF hits, before
  <2> QED
    BY <1>5
<1> HIDE DEF hits, rows, before
<1>8. ASSUME NEW i \in hits \ rows
      PROVE  Cardinality(rows) = max /\ \A j \in rows : i < j
  <2>1. len \in Nat /\ max \in Nat \ {0}
    BY <1>1, <1>6
  <2>2. \A k \in hits : k \in rows <=> Cardinality(Newer(hits, k)) < max
    BY <1>7
  <2>3. rows \in SUBSET hits
    BY <1>7
  <2> QED
    BY <1>4, <2>1, <2>2, <2>3, NewestRows, ZenonT(30)
<1>9. rows \subseteq hits
  BY <1>7
<1>10. /\ rows \subseteq days
       /\ \A i \in days \ rows :
             /\ Cardinality(rows) >= limit \/ Cardinality(rows) = MaxRows
             /\ \A j \in rows : i < j
  BY <1>3, <1>6, <1>8, <1>9
<1> QED
  BY <1>2, <1>10

(* An export has the newest rows of the days it names, and leaves out older *)
(* ones only when it is full (fetch_raw_query_logs), whenever the requests  *)
(* took their times and committed.                                          *)
THEOREM ExportsAreTheNewest == Spec => []ExportIsTheNewest
<1> QED
  BY EventInitInv, EventStepInv, InitOrder, StepOrder, DashboardOnlyReads, ExportIsNewest, PTL
     DEF EventSpec
-----------------------------------------------------------------------------
(* Sums of counts. *)

(* Of some parts of a finite set, one is smallest. *)
LEMMA SmallestPart ==
    ASSUME NEW S, IsFiniteSet(S), NEW bad \in SUBSET SUBSET S, bad # {}
    PROVE  \E s \in bad : \A u \in bad : Cardinality(s) <= Cardinality(u)
<1> DEFINE sizes == {Cardinality(u) : u \in bad}
<1>1. sizes \in SUBSET Nat /\ sizes # {}
  BY FS_Subset, FS_CardinalityType
<1>2. PICK m \in sizes : \A i \in sizes : m <= i
  <2> HIDE DEF sizes
  <2> QED
    BY <1>1, LeastOf
<1> QED
  BY <1>2

(* Adding up by key what was counted by key gives the number of rows with   *)
(* one of the keys: every row is counted once.                              *)
LEMMA SumOfCounts ==
    ASSUME NEW N, IsFiniteSet(N), NEW key, NEW f, IsFiniteSet(DOMAIN f),
           \A k \in DOMAIN f : f[k] = Cardinality({i \in N : key[i] = k})
    PROVE  Total(f) = Cardinality({i \in N : key[i] \in DOMAIN f})
<1> PICK S : S = DOMAIN f
  OBVIOUS
<1> DEFINE In(s) == {i \in N : key[i] \in s}
           g == [s \in SUBSET S |-> Cardinality(In(s))]
           Step(h) == [s \in SUBSET S |-> IF s = {} THEN 0
                          ELSE LET x == CHOOSE x \in s : TRUE IN f[x] + h[s \ {x}]]
           iter == CHOOSE h : h = Step(h)
<1>1. Total(f) = iter[S]
  BY DEF Total, MapThenSumSet, MapThenFoldSet
<1>2. \A s : IsFiniteSet(In(s)) /\ Cardinality(In(s)) \in Nat
  BY FS_Subset, FS_CardinalityType
<1>3. ASSUME NEW s \in SUBSET S, s # {}, NEW x, x = CHOOSE y \in s : TRUE
      PROVE  /\ x \in s /\ s \ {x} \in SUBSET S
             /\ Cardinality(In(s)) = f[x] + Cardinality(In(s \ {x}))
  <2>1. x \in s /\ s \ {x} \in SUBSET S
    BY <1>3
  <2>2. /\ In(s) = In({x}) \cup In(s \ {x})
        /\ In({x}) \cap In(s \ {x}) = {}
    BY <2>1
  <2>3. f[x] = Cardinality(In({x}))
    <3>1. In({x}) = {i \in N : key[i] = x}
      OBVIOUS
    <3> QED
      BY <2>1, <3>1
  <2> HIDE DEF In
  <2>4. /\ IsFiniteSet(In({x})) /\ IsFiniteSet(In(s \ {x}))
        /\ Cardinality(In({x})) \in Nat /\ Cardinality(In(s \ {x})) \in Nat
    BY <1>2
  <2>5. Cardinality(In({x}) \cup In(s \ {x})) = Cardinality(In({x})) + Cardinality(In(s \ {x}))
    <3>1. Cardinality(In({x}) \cup In(s \ {x})) =
             Cardinality(In({x})) + Cardinality(In(s \ {x}))
                - Cardinality(In({x}) \cap In(s \ {x}))
      BY <2>4, FS_Union
    <3>2. Cardinality(In({x}) \cap In(s \ {x})) = 0
      BY <2>2, FS_EmptySet
    <3> QED
      BY <2>4, <3>1, <3>2
  <2> QED
    BY <2>1, <2>2, <2>3, <2>5
<1>4. g = Step(g)
  <2>1. Cardinality(In({})) = 0
    <3>1. In({}) = {}
      OBVIOUS
    <3> QED
      BY <3>1, FS_EmptySet
  <2>2. ASSUME NEW s \in SUBSET S
        PROVE  g[s] = IF s = {} THEN 0
                      ELSE LET x == CHOOSE x \in s : TRUE IN f[x] + g[s \ {x}]
    <3>1. CASE s = {}
      BY <2>1, <3>1
    <3>2. CASE s # {}
      <4> PICK x : x = CHOOSE y \in s : TRUE
        OBVIOUS
      <4> HIDE DEF In
      <4>1. s \ {x} \in SUBSET S /\ Cardinality(In(s)) = f[x] + Cardinality(In(s \ {x}))
        BY <1>3, <3>2
      <4> QED
        BY <3>2, <4>1
    <3> QED
      BY <3>1, <3>2
  <2> HIDE DEF In
  <2> QED
    BY <2>2
<1>5. iter = Step(iter)
  <2>1. \E h : h = Step(h)
    BY <1>4
  <2> HIDE DEF Step
  <2> QED
    BY <2>1
<1> HIDE DEF iter
<1>6. \A s \in SUBSET S : iter[s] = Cardinality(In(s))
  <2> DEFINE bad == {s \in SUBSET S : iter[s] # g[s]}
  <2> SUFFICES ASSUME bad # {}
               PROVE  FALSE
    OBVIOUS
  <2>1. PICK s \in bad : \A u \in bad : Cardinality(s) <= Cardinality(u)
    <3> HIDE DEF g
    <3>1. bad \in SUBSET SUBSET S
      OBVIOUS
    <3> HIDE DEF bad
    <3> QED
      BY <3>1, SmallestPart
  <2>2. s \in SUBSET S /\ iter[s] # g[s]
    OBVIOUS
  <2>3. CASE s = {}
    <3> HIDE DEF g
    <3>1. iter[{}] = 0 /\ g[{}] = 0
      BY <1>4, <1>5
    <3> QED
      BY <2>2, <2>3, <3>1
  <2>4. CASE s # {}
    <3> PICK x : x = CHOOSE y \in s : TRUE
      OBVIOUS
    <3>1. x \in s /\ s \ {x} \in SUBSET S
      BY <1>3, <2>2, <2>4
    <3>2. IsFiniteSet(s) /\ Cardinality(s \ {x}) = Cardinality(s) - 1 /\ Cardinality(s) \in Nat
      BY <2>2, <3>1, FS_Subset, FS_RemoveElement, FS_CardinalityType
    <3>3. s \ {x} \notin bad
      <4> HIDE DEF bad
      <4>1. ~(Cardinality(s) <= Cardinality(s \ {x}))
        BY <3>2
      <4> QED
        BY <2>1, <4>1
    <3> HIDE DEF g
    <3>4. iter[s] = f[x] + iter[s \ {x}] /\ g[s] = f[x] + g[s \ {x}]
      BY <1>4, <1>5, <2>2, <2>4
    <3> QED
      BY <2>2, <3>1, <3>3, <3>4
  <2> QED
    BY <2>3, <2>4
<1> QED
  BY <1>1, <1>6
-----------------------------------------------------------------------------
(* What a load of the statistics knows. *)

(* The rows that the statistics count. *)
Searches == {i \in DOMAIN mapLog : IsSearch(mapLog[i])}
Clicks == {i \in DOMAIN mapLog : IsClick(mapLog[i])}

(* normalize_search_map_event puts every search in a bucket. *)
HasBucket(row) == IsSearch(row) => row.bucket # Nothing

EverySearchHasBucket ==
    /\ \A i \in DOMAIN mapLog : HasBucket(mapLog[i])
    /\ \A t \in Threads : Writing(t) => HasBucket(request[t].mapRow)

(* What a load has counted so far, with as many searches and clicks in the  *)
(* log as there are, is in the log, and in what it counted after it.        *)
CountedSoFar(pc, s, searches, clicks) ==
    /\ s.asked \in 0 .. searches
    /\ pc # "summary" =>
          /\ s.summary.search \in s.asked .. searches
          /\ s.summary.click \in 0 .. clicks
    /\ pc \in {"buckets", "lands", "trend", "answer"} => Total(s.regions) \in 0 .. searches
    /\ pc \in {"lands", "trend", "answer"} =>
          /\ Total(s.buckets) \in 0 .. searches
          /\ StatsLimit > Cardinality(Buckets) =>
                /\ s.summary.search <= Total(s.buckets)
                /\ Total(s.regions) <= Total(s.buckets)
    /\ pc \in {"trend", "answer"} => Total(s.lands) \in 0 .. clicks
    /\ pc = "answer" => AddsUp(s)

LoadOK(r) ==
    /\ r.pc \in {"off", "summary", "regions", "buckets", "lands", "trend", "answer"}
    /\ r.pc # "off" => CountedSoFar(r.pc, r.stats, Cardinality(Searches), Cardinality(Clicks))

SumInv ==
    /\ EverySearchHasBucket
    /\ DOMAIN load = LoadId /\ loads \in 0 .. MaxLoads
    /\ \A l \in LoadId : LoadOK(load[l])
    /\ ShownAddsUp

(* There are no more keys than rows. *)
LEMMA KeysAreFinite ==
    ASSUME NEW N, IsFiniteSet(N), NEW key, NEW K \in SUBSET {key[i] : i \in N}
    PROVE  IsFiniteSet(K)
<1> DEFINE all == {key[i] : i \in N}
           by == [i \in N |-> key[i]]
<1>1. by \in Surjection(N, all)
  BY DEF Surjection
<1>2. IsFiniteSet(all)
  <2> HIDE DEF all, by
  <2> QED
    BY <1>1, FS_Surjection DEF ExistsSurjection
<1> QED
  BY <1>2, FS_Subset

(* The rows that are counted. *)
LEMMA CountedAreFinite ==
    ASSUME EInv
    PROVE  /\ IsFiniteSet(DOMAIN mapLog)
           /\ \A rows \in SUBSET DOMAIN mapLog :
                 IsFiniteSet(rows) /\ Cardinality(rows) \in Nat
<1>1. DOMAIN mapLog = 1 .. Len(mapLog) /\ Len(mapLog) \in Nat
  BY DEF EInv, EventTypeOK
<1>2. IsFiniteSet(DOMAIN mapLog)
  BY <1>1, FS_Interval
<1> QED
  BY <1>2, FS_Subset, FS_CardinalityType

(* f is a list of how many rows of N there are with a key. *)
Lists(f, N, key) ==
    /\ DOMAIN f \subseteq {key[i] : i \in N}
    /\ \A k \in DOMAIN f : f[k] = Cardinality({i \in N : key[i] = k})

ListsAll(f, N, key) == Lists(f, N, key) /\ {key[i] : i \in N} \subseteq DOMAIN f

(* What a list of counts adds up to, whatever its limit cuts off. *)
LEMMA ListedAreCounted ==
    ASSUME EInv, NEW N \in SUBSET DOMAIN mapLog, NEW key, NEW f, Lists(f, N, key)
    PROVE  /\ Total(f) \in 0 .. Cardinality(N)
           /\ ListsAll(f, N, key) => Total(f) = Cardinality(N)
<1> DEFINE listed == {i \in N : key[i] \in DOMAIN f}
<1>1. IsFiniteSet(N) /\ Cardinality(N) \in Nat
  BY CountedAreFinite
<1>2. IsFiniteSet(DOMAIN f)
  BY <1>1, KeysAreFinite DEF Lists
<1>3. Total(f) = Cardinality(listed)
  BY <1>1, <1>2, SumOfCounts DEF Lists
<1>4. listed \in SUBSET N
  OBVIOUS
<1>5. ListsAll(f, N, key) => listed = N
  BY DEF ListsAll
<1> HIDE DEF listed
<1>6. Cardinality(listed) \in Nat /\ Cardinality(listed) <= Cardinality(N)
  BY <1>1, <1>4, FS_Subset, FS_CardinalityType
<1> QED
  BY <1>1, <1>3, <1>5, <1>6

LEMMA RegionsAreCounted ==
    ASSUME EInv
    PROVE  Total(FetchTopRegions(mapLog, StatsLimit)) \in 0 .. Cardinality(Searches)
<1> DEFINE N == {i \in DOMAIN mapLog : /\ IsSearch(mapLog[i])
                                       /\ mapLog[i].source = "user_input"
                                       /\ mapLog[i].region # Nothing}
           key == [i \in DOMAIN mapLog |-> mapLog[i].region]
           f == FetchTopRegions(mapLog, StatsLimit)
<1>1. Lists(f, N, key)
  BY DEF Lists, FetchTopRegions, Top, CountBy, Count
<1>2. N \in SUBSET DOMAIN mapLog /\ N \in SUBSET Searches
  BY DEF Searches
<1> HIDE DEF N, key, f
<1>3. Total(f) \in 0 .. Cardinality(N)
  BY <1>1, <1>2, ListedAreCounted
<1>4. /\ Cardinality(N) \in Nat /\ Cardinality(Searches) \in Nat
      /\ Cardinality(N) <= Cardinality(Searches)
  BY <1>2, CountedAreFinite, FS_Subset DEF Searches
<1> QED
  BY <1>3, <1>4 DEF f

LEMMA LandsAreCounted ==
    ASSUME EInv
    PROVE  Total(FetchTopClickedLands(mapLog, StatsLimit)) \in 0 .. Cardinality(Clicks)
<1> DEFINE N == {i \in DOMAIN mapLog : IsClick(mapLog[i]) /\ mapLog[i].land # Nothing}
           key == [i \in DOMAIN mapLog |-> mapLog[i].land]
           f == FetchTopClickedLands(mapLog, StatsLimit)
<1>1. Lists(f, N, key)
  BY DEF Lists, FetchTopClickedLands, Top, CountBy, Count
<1>2. N \in SUBSET DOMAIN mapLog /\ N \in SUBSET Clicks
  BY DEF Clicks
<1> HIDE DEF N, key, f
<1>3. Total(f) \in 0 .. Cardinality(N)
  BY <1>1, <1>2, ListedAreCounted
<1>4. /\ Cardinality(N) \in Nat /\ Cardinality(Clicks) \in Nat
      /\ Cardinality(N) <= Cardinality(Clicks)
  BY <1>2, CountedAreFinite, FS_Subset DEF Clicks
<1> QED
  BY <1>3, <1>4 DEF f

(* Of six buckets, a limit above five cuts off none. *)
LEMMA NoBucketIsCutOff ==
    ASSUME StatsLimit > Cardinality(Buckets), NEW K \in SUBSET (Buckets \cup {Overflow}),
           NEW k \in K, NEW before \in SUBSET (K \ {k})
    PROVE  Cardinality(before) < StatsLimit
<1> DEFINE all == Buckets \cup {Overflow}
<1>1. /\ IsFiniteSet(Buckets) /\ Cardinality(Buckets) \in Nat
      /\ IsFiniteSet(all) /\ Cardinality(all) = Cardinality(Buckets) + 1
  <2>1. IsFiniteSet(Buckets)
    <3>1. PICK a \in Int, b \in Int : a = 100 /\ b = 1000
      OBVIOUS
    <3>2. Buckets \in SUBSET (a .. b)
      BY <3>1 DEF Buckets
    <3>3. IsFiniteSet(a .. b)
      BY FS_Interval
    <3> QED
      BY <3>2, <3>3, FS_Subset
  <2>2. Overflow \notin Buckets
    BY DEF Buckets, Overflow
  <2> QED
    BY <2>1, <2>2, FS_AddElement, FS_CardinalityType
<1>2. k \in all /\ before \in SUBSET (all \ {k})
  OBVIOUS
<1> HIDE DEF all
<1>3. IsFiniteSet(all \ {k}) /\ Cardinality(all \ {k}) = Cardinality(Buckets)
  <2>1. IsFiniteSet(all \ {k}) /\ Cardinality(all \ {k}) = Cardinality(all) - 1
    BY <1>1, <1>2, FS_RemoveElement
  <2> QED
    BY <1>1, <2>1
<1>4. Cardinality(before) \in Nat /\ Cardinality(before) <= Cardinality(Buckets)
  BY <1>2, <1>3, FS_Subset, FS_CardinalityType
<1>5. StatsLimit \in Nat
  BY DashboardAssumption DEF DashboardAssumption
<1> QED
  BY <1>1, <1>4, <1>5

LEMMA BucketsAreCounted ==
    ASSUME EInv, EverySearchHasBucket
    PROVE  /\ Total(FetchTopMinAreaBuckets(mapLog, StatsLimit)) \in 0 .. Cardinality(Searches)
           /\ StatsLimit > Cardinality(Buckets) =>
                 Total(FetchTopMinAreaBuckets(mapLog, StatsLimit)) = Cardinality(Searches)
<1> DEFINE N == {i \in DOMAIN mapLog : IsSearch(mapLog[i]) /\ mapLog[i].bucket # Nothing}
           key == [i \in DOMAIN mapLog |-> mapLog[i].bucket]
           K == {key[i] : i \in N}
           counts == [k \in K |-> Cardinality({i \in N : key[i] = k})]
           before(k) == {q \in K : \/ counts[q] > counts[k]
                                   \/ counts[q] = counts[k] /\ q < k}
           f == FetchTopMinAreaBuckets(mapLog, StatsLimit)
<1>1. /\ DOMAIN f = {k \in K : Cardinality(before(k)) < StatsLimit}
      /\ \A k \in DOMAIN f : f[k] = counts[k]
  <2>1. CountBy(mapLog, LAMBDA row : IsSearch(row) /\ row.bucket # Nothing,
                LAMBDA row : row.bucket) = counts
    <3>1. K = {mapLog[i].bucket : i \in {j \in DOMAIN mapLog : IsSearch(mapLog[j]) /\ mapLog[j].bucket # Nothing}}
      OBVIOUS
    <3>2. \A k \in K : {i \in N : key[i] = k}
            = {i \in DOMAIN mapLog : (IsSearch(mapLog[i]) /\ mapLog[i].bucket # Nothing) /\ mapLog[i].bucket = k}
      OBVIOUS
    <3> HIDE DEF K, N, key
    <3> QED
      BY <3>1, <3>2 DEF CountBy, Count
  <2> HIDE DEF counts
  <2>2. DOMAIN counts = K
    BY DEF counts
  <2> QED
    BY <2>1, <2>2 DEF FetchTopMinAreaBuckets, Top
<1>2. N = Searches
  BY DEF Searches, EverySearchHasBucket, HasBucket
<1>3. K \in SUBSET (Buckets \cup {Overflow})
  <2>1. mapLog \in Seq(MapRows)
    BY DEF EInv, EventTypeOK
  <2>2. \A i \in DOMAIN mapLog : mapLog[i] \in MapRows
    BY <2>1
  <2> QED
    BY <2>2 DEF MapRows
<1>4. \A k \in K : counts[k] = Cardinality({i \in N : key[i] = k}) /\ counts[k] \in Nat
  <2>1. \A k : {i \in N : key[i] = k} \in SUBSET DOMAIN mapLog
    OBVIOUS
  <2> HIDE DEF N, key
  <2> QED
    BY <2>1, CountedAreFinite
<1>5. ASSUME StatsLimit > Cardinality(Buckets)
      PROVE  K \subseteq DOMAIN f
  <2> HIDE DEF K, counts
  <2>1. \A k \in K : before(k) \in SUBSET (K \ {k})
    <3>1. ASSUME NEW k \in K
          PROVE  k \notin before(k)
      <4>1. k \in Int
        BY <1>3 DEF Buckets, Overflow
      <4>2. counts[k] \in Nat
        BY <1>4
      <4>3. ~(counts[k] > counts[k]) /\ ~(k < k)
        BY <4>1, <4>2
      <4> QED
        BY <4>3
    <3> QED
      BY <3>1
  <2> HIDE DEF before, f
  <2> QED
    BY <1>1, <1>3, <1>5, <2>1, NoBucketIsCutOff
<1>6. N \in SUBSET DOMAIN mapLog
  OBVIOUS
<1> HIDE DEF N, key, f, counts, before
<1>7. Lists(f, N, key) /\ (StatsLimit > Cardinality(Buckets) => ListsAll(f, N, key))
  BY <1>1, <1>4, <1>5 DEF Lists, ListsAll
<1> HIDE DEF K
<1>8. /\ Total(f) \in 0 .. Cardinality(N)
      /\ ListsAll(f, N, key) => Total(f) = Cardinality(N)
  BY <1>6, <1>7, ListedAreCounted
<1> QED
  BY <1>2, <1>7, <1>8 DEF f

LEMMA DaysAreCounted ==
    ASSUME EInv
    PROVE  /\ Total(FetchDailyEventCounts(mapLog).search) = Cardinality(Searches)
           /\ Total(FetchDailyEventCounts(mapLog).click) = Cardinality(Clicks)
<1> DEFINE key == [i \in DOMAIN mapLog |-> DateOf(mapLog[i].at)]
           days == FetchDailyEventCounts(mapLog)
<1>1. ListsAll(days.search, Searches, key)
  <2>1. {key[i] : i \in Searches}
            = {DateOf(mapLog[i].at) : i \in {j \in DOMAIN mapLog : IsSearch(mapLog[j])}}
    BY DEF Searches
  <2>2. \A k : {i \in Searches : key[i] = k}
            = {i \in DOMAIN mapLog : IsSearch(mapLog[i]) /\ DateOf(mapLog[i].at) = k}
    BY DEF Searches
  <2> HIDE DEF key
  <2> QED
    BY <2>1, <2>2 DEF Lists, ListsAll, FetchDailyEventCounts, CountBy, Count
<1>2. ListsAll(days.click, Clicks, key)
  <2>1. {key[i] : i \in Clicks}
            = {DateOf(mapLog[i].at) : i \in {j \in DOMAIN mapLog : IsClick(mapLog[j])}}
    BY DEF Clicks
  <2>2. \A k : {i \in Clicks : key[i] = k}
            = {i \in DOMAIN mapLog : IsClick(mapLog[i]) /\ DateOf(mapLog[i].at) = k}
    BY DEF Clicks
  <2> HIDE DEF key
  <2> QED
    BY <2>1, <2>2 DEF Lists, ListsAll, FetchDailyEventCounts, CountBy, Count
<1>3. Searches \in SUBSET DOMAIN mapLog /\ Clicks \in SUBSET DOMAIN mapLog
  BY DEF Searches, Clicks
<1> HIDE DEF key, days
<1>4. Lists(days.search, Searches, key) /\ Lists(days.click, Clicks, key)
  BY <1>1, <1>2 DEF ListsAll
<1>5. Total(days.search) = Cardinality(Searches) /\ Total(days.click) = Cardinality(Clicks)
  BY <1>1, <1>2, <1>3, <1>4, ListedAreCounted
<1> QED
  BY <1>5 DEF days

-----------------------------------------------------------------------------
(* Each step keeps SumInv. *)

(* The log only grows. *)
LEMMA LogGrows ==
    ASSUME EInv, EInv', [EventNext]_eventVars
    PROVE  /\ Cardinality(Searches) \in Nat /\ Cardinality(Clicks) \in Nat
           /\ Cardinality(Searches') \in Nat /\ Cardinality(Clicks') \in Nat
           /\ Cardinality(Searches) <= Cardinality(Searches')
           /\ Cardinality(Clicks) <= Cardinality(Clicks')
<1>1. mapLog' = mapLog \/ \E t \in Threads : mapLog' = Append(mapLog, request[t].mapRow)
  BY DEF EventNext, eventVars, Tick, Crash, Request, PostMapEvent, InsertMapEvent,
     InsertRawQueryLog, Commit, Acknowledge, DatabaseFails
<1>2. /\ DOMAIN mapLog \subseteq DOMAIN mapLog'
      /\ \A i \in DOMAIN mapLog : mapLog'[i] = mapLog[i]
  <2>1. mapLog \in Seq(MapRows)
    BY DEF EInv, EventTypeOK
  <2> QED
    BY <1>1, <2>1
<1>3. Searches \in SUBSET Searches' /\ Clicks \in SUBSET Clicks'
  BY <1>2 DEF Searches, Clicks
<1>4. /\ Searches \in SUBSET DOMAIN mapLog /\ Clicks \in SUBSET DOMAIN mapLog
      /\ Searches' \in SUBSET DOMAIN mapLog' /\ Clicks' \in SUBSET DOMAIN mapLog'
  BY DEF Searches, Clicks
<1>5. /\ Cardinality(Searches) \in Nat /\ Cardinality(Clicks) \in Nat
  BY <1>4, CountedAreFinite
<1>6. ASSUME EInv'
      PROVE  /\ IsFiniteSet(Searches') /\ Cardinality(Searches') \in Nat
             /\ IsFiniteSet(Clicks') /\ Cardinality(Clicks') \in Nat
  <2>1. \A n \in Nat : IsFiniteSet(1 .. n)
    BY FS_Interval
  <2>2. DOMAIN mapLog' = 1 .. Len(mapLog') /\ Len(mapLog') \in Nat
    BY DEF EInv, EventTypeOK
  <2>3. IsFiniteSet(DOMAIN mapLog')
    BY <2>1, <2>2
  <2> QED
    BY <1>4, <2>3, FS_Subset, FS_CardinalityType
<1>7. /\ Cardinality(Searches) <= Cardinality(Searches')
      /\ Cardinality(Clicks) <= Cardinality(Clicks')
  BY <1>3, <1>6, FS_Subset
<1> QED
  BY <1>5, <1>6, <1>7

LEMMA CountedStays ==
    ASSUME NEW pc, NEW s, NEW n \in Nat, NEW m \in Nat, NEW n2 \in Nat, NEW m2 \in Nat,
           n <= n2, m <= m2, CountedSoFar(pc, s, n, m)
    PROVE  CountedSoFar(pc, s, n2, m2)
BY DEF CountedSoFar

(* Every search that is inserted has a bucket (min_area_bucket_for).        *)
LEMMA StepBuckets ==
    ASSUME EInv, EverySearchHasBucket, [EventNext]_eventVars
    PROVE  EverySearchHasBucket'
<1>1. ASSUME NEW p, NEW n, NEW at
      PROVE  HasBucket(MapRow(p, n, at))
  <2>1. MinAreaBucketFor(ParseMinArea(p.minArea)) # Nothing
    <3>1. MinAreaBucketFor(ParseMinArea(p.minArea)) \in Int
      BY BucketType DEF Buckets, Overflow
    <3> QED
      BY <3>1, EventLogAssumption DEF EventLogAssumption
  <2> QED
    BY <2>1 DEF HasBucket, IsSearch, MapRow
<1>2. CASE UNCHANGED eventVars
  BY <1>2 DEF eventVars, EverySearchHasBucket, Writing
<1>3. CASE Tick
  BY <1>3 DEF Tick, EverySearchHasBucket, Writing
<1>4. CASE Crash
  BY <1>4 DEF Crash, EverySearchHasBucket, Writing, Idle
<1>5. ASSUME NEW t \in Threads, Request(t)
      PROVE  EverySearchHasBucket'
  <2>1. DOMAIN request = Threads
    BY DEF EInv, EventTypeOK
  <2>2. CASE InsertMapEvent(t)
    <3> PICK row : row = MapRow(request[t].payload, request[t].n, now)
      OBVIOUS
    <3>1. HasBucket(row)
      BY <1>1
    <3>2. /\ mapLog' = mapLog
          /\ \A u \in Threads : request'[u] =
                IF u = t THEN [pc |-> "raw", n |-> request[t].n,
                               payload |-> request[t].payload, mapRow |-> row]
                ELSE request[u]
      BY <2>1, <2>2 DEF InsertMapEvent
    <3> QED
      BY <3>1, <3>2 DEF EverySearchHasBucket, Writing
  <2>3. CASE InsertRawQueryLog(t)
    <3>1. /\ mapLog' = mapLog /\ request[t].pc = "raw"
          /\ \A u \in Threads : u # t => request'[u] = request[u]
          /\ request'[t].mapRow = request[t].mapRow
      BY <2>1, <2>3 DEF InsertRawQueryLog
    <3> QED
      BY <3>1 DEF EverySearchHasBucket, Writing
  <2>4. CASE Commit(t)
    <3>1. /\ mapLog \in Seq(MapRows) /\ request[t].mapRow \in MapRows
          /\ HasBucket(request[t].mapRow)
      BY <2>4 DEF Commit, EInv, EventTypeOK, RequestTypeOK, EverySearchHasBucket, Writing
    <3>2. mapLog' = Append(mapLog, request[t].mapRow)
      BY <2>4 DEF Commit
    <3>3. \A i \in DOMAIN mapLog' : mapLog'[i] = request[t].mapRow
                                    \/ (i \in DOMAIN mapLog /\ mapLog'[i] = mapLog[i])
      BY <3>1, <3>2
    <3>4. \A u \in Threads : Writing(u)' => u # t /\ Writing(u) /\ request'[u] = request[u]
      BY <2>1, <2>4 DEF Commit, Writing
    <3> QED
      BY <3>1, <3>3, <3>4 DEF EverySearchHasBucket, HasBucket
  <2>5. CASE (\E p \in Payloads : PostMapEvent(t, p)) \/ Acknowledge(t) \/ DatabaseFails(t)
    <3>1. mapLog' = mapLog
      BY <2>5 DEF PostMapEvent, Acknowledge, DatabaseFails
    <3>2. \A u \in Threads : Writing(u)' => u # t /\ Writing(u) /\ request'[u] = request[u]
      BY <2>1, <2>5 DEF PostMapEvent, Acknowledge, DatabaseFails, Writing, Idle
    <3> QED
      BY <3>1, <3>2 DEF EverySearchHasBucket
  <2> QED
    BY <1>5, <2>2, <2>3, <2>4, <2>5 DEF Request
<1> QED
  BY <1>2, <1>3, <1>4, <1>5 DEF EventNext

(* A load goes on, or ends: what has to be shown of it. *)
LEMMA LoadGoesOn ==
    ASSUME EInv, SumInv, NEW l \in LoadId, NEW r, load' = [load EXCEPT ![l] = r], LoadOK(r),
           UNCHANGED <<eventVars, loads>>, ShownAddsUp'
    PROVE  SumInv'
<1>1. /\ DOMAIN load' = LoadId
      /\ \A k \in LoadId : load'[k] = IF k = l THEN r ELSE load[k]
  BY DEF SumInv
<1>2. UNCHANGED <<mapLog, request, loads>>
  BY DEF eventVars
<1>3. EverySearchHasBucket' /\ loads' \in 0 .. MaxLoads
  BY <1>2 DEF SumInv, EverySearchHasBucket, Writing
<1>4. \A k \in LoadId : LoadOK(load[k])' <=> LoadOK(load'[k])
  BY <1>2 DEF LoadOK, Searches, Clicks
<1>5. \A k \in LoadId : LoadOK(load[k])'
  BY <1>1, <1>4 DEF SumInv
<1> QED
  BY <1>1, <1>3, <1>5 DEF SumInv

LEMMA StepSum ==
    ASSUME EInv, EInv', SumInv, [Next]_vars, [EventNext]_eventVars
    PROVE  SumInv'
<1> DEFINE n == Cardinality(Searches)
           m == Cardinality(Clicks)
<1>1. n \in Nat /\ m \in Nat /\ n' \in Nat /\ m' \in Nat /\ n <= n' /\ m <= m'
  BY LogGrows
<1>2. ASSUME UNCHANGED pageVars
      PROVE  SumInv'
  <2>1. ASSUME NEW l \in LoadId
        PROVE  LoadOK(load[l])'
    <3> PICK pc, s : pc = load[l].pc /\ s = load[l].stats
      OBVIOUS
    <3>1. load' = load
      BY <1>2 DEF pageVars
    <3>2. LoadOK(load[l])
      BY DEF SumInv
    <3> HIDE DEF n, m
    <3>3. CountedSoFar(pc, s, n, m) => CountedSoFar(pc, s, n', m')
      BY <1>1, CountedStays
    <3> QED
      BY <3>1, <3>2, <3>3 DEF LoadOK, n, m
  <2>2. EverySearchHasBucket'
    BY StepBuckets DEF SumInv
  <2> QED
    BY <1>2, <2>1, <2>2 DEF SumInv, pageVars, ShownAddsUp
<1>3. CASE EventStep
  BY <1>2, <1>3 DEF EventStep
<1>4. CASE UNCHANGED vars
  BY <1>2, <1>4 DEF vars
<1>5. CASE Restart
  <2>1. EverySearchHasBucket'
    BY StepBuckets DEF SumInv
  <2>2. \A l \in LoadId : LoadOK(load[l])'
    BY <1>5 DEF Restart, LoadOK, NoLoad
  <2> QED
    BY <1>5, <2>1, <2>2 DEF SumInv, Restart, ShownAddsUp
<1>6. ASSUME NEW force \in BOOLEAN, LoadStats(force)
      PROVE  SumInv'
  <2> DEFINE asked == {i \in DOMAIN mapLog : IsSearch(mapLog[i]) /\ mapLog[i].n \in acked}
             s == [NoStats EXCEPT !.asked = AckedSearches]
             r == [pc |-> "summary", stats |-> s]
  <2>1. AckedSearches \in 0 .. n
    <3>1. AckedSearches = Cardinality(asked)
      BY DEF AckedSearches, Count
    <3>2. asked \in SUBSET Searches /\ asked \in SUBSET DOMAIN mapLog
          /\ Searches \in SUBSET DOMAIN mapLog
      BY DEF Searches
    <3> HIDE DEF asked
    <3> QED
      BY <1>1, <3>1, <3>2, CountedAreFinite, FS_Subset
  <2>2. LoadOK(r)
    BY <2>1 DEF LoadOK, CountedSoFar, NoStats
  <2> HIDE DEF s, n, m
  <2>3. /\ DOMAIN load' = LoadId
        /\ \A k \in LoadId : load'[k] = r \/ load'[k] = load[k]
    BY <1>6 DEF LoadStats, SumInv, r, s
  <2>4. UNCHANGED <<mapLog, request, shown>>
    BY <1>6 DEF LoadStats, eventVars
  <2>5. loads' \in 0 .. MaxLoads
    BY <1>6, DashboardAssumption DEF LoadStats, SumInv, DashboardAssumption
  <2>6. \A k \in LoadId : LoadOK(load[k])' <=> LoadOK(load'[k])
    BY <2>4 DEF LoadOK, Searches, Clicks
  <2>7. \A k \in LoadId : LoadOK(load'[k])
    BY <2>2, <2>3 DEF SumInv
  <2> QED
    BY <2>3, <2>4, <2>5, <2>6, <2>7 DEF SumInv, EverySearchHasBucket, Writing, ShownAddsUp
<1>7. ASSUME NEW l \in LoadId, Load(l)
      PROVE  SumInv'
  <2> PICK pc, s : pc = load[l].pc /\ s = load[l].stats
    OBVIOUS
  <2> HIDE DEF n, m
  <2>1. LoadOK(load[l]) /\ DOMAIN load = LoadId /\ EverySearchHasBucket /\ ShownAddsUp
    BY DEF SumInv
  <2>2. pc # "off" => CountedSoFar(pc, s, n, m)
    BY <2>1 DEF LoadOK, n, m
  <2>3. UNCHANGED <<eventVars, loads>>
    BY <1>7 DEF Load, ReadSummary, ReadRegions, ReadBuckets, ReadLands, ReadTrend, Read,
       Render, LoadFails
  <2>4. CASE ReadSummary(l)
    <3> DEFINE to == [s EXCEPT !.summary = FetchEventSummary(mapLog)]
    <3>1. /\ FetchEventSummary(mapLog).search = n
          /\ FetchEventSummary(mapLog).click = m
      BY DEF FetchEventSummary, Count, n, m, Searches, Clicks
    <3>2. pc = "summary" /\ shown' = shown
          /\ load' = [load EXCEPT ![l] = [pc |-> "regions", stats |-> to]]
      BY <2>4 DEF ReadSummary, Read
    <3>3. /\ DOMAIN to = DOMAIN s /\ to.summary = FetchEventSummary(mapLog)
          /\ to.asked = s.asked /\ to.regions = s.regions /\ to.buckets = s.buckets
          /\ to.lands = s.lands /\ to.trend = s.trend
      BY <2>2, <3>2 DEF CountedSoFar, NoStats
    <3> HIDE DEF to
    <3>4. CountedSoFar("regions", to, n, m)
      BY <1>1, <2>2, <3>1, <3>2, <3>3 DEF CountedSoFar
    <3>5. LoadOK([pc |-> "regions", stats |-> to])
      BY <3>4 DEF LoadOK, n, m
    <3> QED
      BY <2>1, <2>3, <3>2, <3>5, LoadGoesOn DEF ShownAddsUp
  <2>5. CASE ReadRegions(l)
    <3> DEFINE to == [s EXCEPT !.regions = FetchTopRegions(mapLog, StatsLimit)]
    <3>1. Total(FetchTopRegions(mapLog, StatsLimit)) \in 0 .. n
      BY RegionsAreCounted DEF n
    <3>2. pc = "regions" /\ shown' = shown
          /\ load' = [load EXCEPT ![l] = [pc |-> "buckets", stats |-> to]]
      BY <2>5 DEF ReadRegions, Read
    <3>3. /\ DOMAIN to = DOMAIN s /\ to.regions = FetchTopRegions(mapLog, StatsLimit)
          /\ to.asked = s.asked /\ to.summary = s.summary /\ to.buckets = s.buckets
          /\ to.lands = s.lands /\ to.trend = s.trend
      BY <2>2, <3>2 DEF CountedSoFar, NoStats
    <3> HIDE DEF to
    <3>4. CountedSoFar("buckets", to, n, m)
      BY <1>1, <2>2, <3>1, <3>2, <3>3 DEF CountedSoFar
    <3>5. LoadOK([pc |-> "buckets", stats |-> to])
      BY <3>4 DEF LoadOK, n, m
    <3> QED
      BY <2>1, <2>3, <3>2, <3>5, LoadGoesOn DEF ShownAddsUp
  <2>6. CASE ReadBuckets(l)
    <3> DEFINE to == [s EXCEPT !.buckets = FetchTopMinAreaBuckets(mapLog, StatsLimit)]
    <3>1. /\ Total(FetchTopMinAreaBuckets(mapLog, StatsLimit)) \in 0 .. n
          /\ StatsLimit > Cardinality(Buckets) =>
                Total(FetchTopMinAreaBuckets(mapLog, StatsLimit)) = n
      BY <2>1, BucketsAreCounted DEF n
    <3>2. pc = "buckets" /\ shown' = shown
          /\ load' = [load EXCEPT ![l] = [pc |-> "lands", stats |-> to]]
      BY <2>6 DEF ReadBuckets, Read
    <3>3. /\ DOMAIN to = DOMAIN s /\ to.buckets = FetchTopMinAreaBuckets(mapLog, StatsLimit)
          /\ to.asked = s.asked /\ to.summary = s.summary /\ to.regions = s.regions
          /\ to.lands = s.lands /\ to.trend = s.trend
      BY <2>2, <3>2 DEF CountedSoFar, NoStats
    <3> HIDE DEF to
    <3>4. CountedSoFar("lands", to, n, m)
      BY <1>1, <2>2, <3>1, <3>2, <3>3 DEF CountedSoFar
    <3>5. LoadOK([pc |-> "lands", stats |-> to])
      BY <3>4 DEF LoadOK, n, m
    <3> QED
      BY <2>1, <2>3, <3>2, <3>5, LoadGoesOn DEF ShownAddsUp
  <2>7. CASE ReadLands(l)
    <3> DEFINE to == [s EXCEPT !.lands = FetchTopClickedLands(mapLog, StatsLimit)]
    <3>1. Total(FetchTopClickedLands(mapLog, StatsLimit)) \in 0 .. m
      BY LandsAreCounted DEF m
    <3>2. pc = "lands" /\ shown' = shown
          /\ load' = [load EXCEPT ![l] = [pc |-> "trend", stats |-> to]]
      BY <2>7 DEF ReadLands, Read
    <3>3. /\ DOMAIN to = DOMAIN s /\ to.lands = FetchTopClickedLands(mapLog, StatsLimit)
          /\ to.asked = s.asked /\ to.summary = s.summary /\ to.regions = s.regions
          /\ to.buckets = s.buckets /\ to.trend = s.trend
      BY <2>2, <3>2 DEF CountedSoFar, NoStats
    <3> HIDE DEF to
    <3>4. CountedSoFar("trend", to, n, m)
      BY <1>1, <2>2, <3>1, <3>2, <3>3 DEF CountedSoFar
    <3>5. LoadOK([pc |-> "trend", stats |-> to])
      BY <3>4 DEF LoadOK, n, m
    <3> QED
      BY <2>1, <2>3, <3>2, <3>5, LoadGoesOn DEF ShownAddsUp
  <2>8. CASE ReadTrend(l)
    <3> DEFINE to == [s EXCEPT !.trend = FetchDailyEventCounts(mapLog)]
    <3>1. /\ Total(FetchDailyEventCounts(mapLog).search) = n
          /\ Total(FetchDailyEventCounts(mapLog).click) = m
      BY DaysAreCounted DEF n, m
    <3>2. pc = "trend" /\ shown' = shown
          /\ load' = [load EXCEPT ![l] = [pc |-> "answer", stats |-> to]]
      BY <2>8 DEF ReadTrend, Read
    <3>3. /\ DOMAIN to = DOMAIN s /\ to.trend = FetchDailyEventCounts(mapLog)
          /\ to.asked = s.asked /\ to.summary = s.summary /\ to.regions = s.regions
          /\ to.buckets = s.buckets /\ to.lands = s.lands
      BY <2>2, <3>2 DEF CountedSoFar, NoStats
    <3> HIDE DEF to
    <3>4. CountedSoFar("answer", to, n, m)
      BY <1>1, <2>2, <3>1, <3>2, <3>3 DEF CountedSoFar, AddsUp
    <3>5. LoadOK([pc |-> "answer", stats |-> to])
      BY <3>4 DEF LoadOK, n, m
    <3> QED
      BY <2>1, <2>3, <3>2, <3>5, LoadGoesOn DEF ShownAddsUp
  <2>9. ASSUME load' = [load EXCEPT ![l] = NoLoad], ShownAddsUp'
        PROVE  SumInv'
    <3>1. LoadOK(NoLoad)
      BY DEF LoadOK, NoLoad
    <3> QED
      BY <2>3, <2>9, <3>1, LoadGoesOn
  <2>10. CASE Render(l)
    <3>1. AddsUp(s) /\ shown' = [loaded |-> TRUE, stats |-> s]
      BY <2>2, <2>10 DEF Render, CountedSoFar
    <3>2. AddsUp(s)'
      BY <3>1 DEF AddsUp
    <3> QED
      BY <2>9, <2>10, <3>1 DEF Render, ShownAddsUp
  <2>11. CASE LoadFails(l)
    BY <2>1, <2>9, <2>11 DEF LoadFails, ShownAddsUp
  <2> QED
    BY <1>7, <2>4, <2>5, <2>6, <2>7, <2>8, <2>10, <2>11 DEF Load
<1> QED
  BY <1>3, <1>4, <1>5, <1>6, <1>7 DEF Next

LEMMA InitSum == Init => SumInv
<1> SUFFICES ASSUME Init
             PROVE  SumInv
  OBVIOUS
<1>1. Total(<<>>) = 0
  <2> DEFINE f == <<>>
             N == {}
  <2>1. /\ IsFiniteSet(N) /\ DOMAIN f = N /\ Cardinality(N) = 0
        /\ {i \in N : f[i] \in DOMAIN f} = {}
        /\ \A k \in DOMAIN f : f[k] = Cardinality({i \in N : f[i] = k})
    BY FS_EmptySet
  <2> HIDE DEF f, N
  <2>2. Total(f) = Cardinality({i \in N : f[i] \in DOMAIN f})
    BY <2>1, SumOfCounts
  <2> QED
    BY <2>1, <2>2 DEF f, N
<1>2. AddsUp(NoStats)
  BY <1>1 DEF AddsUp, NoStats
<1>3. DOMAIN mapLog = {} /\ \A t \in Threads : request[t].pc = "idle"
  BY DEF Init, EventInit, Idle
<1>4. DOMAIN load = LoadId /\ \A l \in LoadId : load[l].pc = "off"
  BY DEF Init, NoLoad
<1>5. MaxLoads \in Nat
  BY DashboardAssumption DEF DashboardAssumption
<1> QED
  BY <1>2, <1>3, <1>4, <1>5 DEF Init, SumInv, EverySearchHasBucket, Writing, LoadOK, ShownAddsUp

(* What the page shows adds up, whatever is committed between the SELECTs   *)
(* of get_admin_stats: each list of an answer has what was counted before.  *)
THEOREM ShownNumbersAddUp == Spec => []ShownAddsUp
<1>1. SumInv => ShownAddsUp
  BY DEF SumInv
<1>2. EInv /\ EInv' /\ SumInv /\ [Next]_vars /\ [EventNext]_eventVars => SumInv'
  BY StepSum
<1> QED
  BY EventInitInv, EventStepInv, InitSum, DashboardOnlyReads, <1>1, <1>2, PTL
     DEF Spec, EventSpec

-----------------------------------------------------------------------------
(* The journal: EventLog implements EventJournal. *)

(* Rows of both logs are those of one report, and the answers that are owed *)
(* are of different requests.                                               *)
RowsOfReport(r) ==
    /\ r.pc = "raw" => r.mapRow = MapRow(r.payload, r.n, r.mapRow.at)
    /\ r.pc = "commit" => r.mapRow = MapRow(r.rawRow.payload, r.n, r.mapRow.at)

LogsOfReports ==
    \A i \in 1 .. Len(rawLog) :
        mapLog[i] = MapRow(rawLog[i].payload, rawLog[i].n, mapLog[i].at)

AnswersAreOwn ==
    \A t, u \in Threads :
        request[t].pc = "answer" /\ request[u].pc = "answer" /\ request[t].n = request[u].n
            => t = u

ReportInv ==
    /\ LogsOfReports
    /\ \A t \in Threads : RowsOfReport(request[t])
    /\ AnswersAreOwn

LEMMA InitReports == EventInit => ReportInv
<1> SUFFICES ASSUME EventInit
             PROVE  ReportInv
  OBVIOUS
<1>1. Len(rawLog) = 0 /\ \A t \in Threads : request[t] = Idle
  BY DEF EventInit
<1> QED
  BY <1>1 DEF ReportInv, LogsOfReports, RowsOfReport, AnswersAreOwn, Idle

(* The rows that a request is given say what its report says. *)
LEMMA RowsAgree ==
    ASSUME NEW p \in Payloads, Accepted(p), NEW n \in Nat, NEW at \in Nat
    PROVE  /\ MapRow(p, n, at) = MapRow(p, n, MapRow(p, n, at).at)
           /\ RawRow(p, n, at).payload = p
BY RowTypes DEF RawRow

LEMMA StepReports == EInv /\ ReportInv /\ [EventNext]_eventVars => ReportInv'
<1> SUFFICES ASSUME EInv, ReportInv, [EventNext]_eventVars
             PROVE  ReportInv'
  OBVIOUS
<1>1. /\ now \in Nat /\ DOMAIN request = Threads
      /\ \A t \in Threads : RequestTypeOK(request[t]) /\ RowsOfReport(request[t])
  BY EventLogAssumption DEF EventLogAssumption, EInv, EventTypeOK, ReportInv
<1>2. ASSUME UNCHANGED <<mapLog, rawLog>>
      PROVE  LogsOfReports'
  BY <1>2 DEF ReportInv, LogsOfReports
<1>3. ASSUME NEW t \in Threads, UNCHANGED <<mapLog, rawLog>>,
             \A u \in Threads : u # t => request'[u] = request[u],
             RowsOfReport(request'[t]), request'[t].pc # "answer"
      PROVE  ReportInv'
  BY <1>1, <1>2, <1>3 DEF ReportInv, AnswersAreOwn
<1>4. CASE Tick \/ UNCHANGED eventVars
  <2>1. request' = request /\ UNCHANGED <<mapLog, rawLog>>
    BY <1>4 DEF Tick, eventVars
  <2> QED
    BY <1>1, <1>2, <2>1 DEF ReportInv, AnswersAreOwn
<1>5. CASE Crash
  <2>1. UNCHANGED <<mapLog, rawLog>> /\ \A t \in Threads : request'[t] = Idle
    BY <1>5 DEF Crash
  <2> QED
    BY <1>2, <2>1 DEF ReportInv, AnswersAreOwn, RowsOfReport, Idle
<1>6. ASSUME NEW t \in Threads, 
             \/ \E p \in Payloads : PostMapEvent(t, p)
             \/ Acknowledge(t) \/ DatabaseFails(t)
      PROVE  ReportInv'
  <2>1. /\ UNCHANGED <<mapLog, rawLog>> /\ request'[t].pc \in {"idle", "map"}
        /\ \A u \in Threads : u # t => request'[u] = request[u]
    BY <1>1, <1>6 DEF PostMapEvent, Acknowledge, DatabaseFails, Idle
  <2> QED
    BY <1>3, <2>1 DEF RowsOfReport
<1>7. ASSUME NEW t \in Threads, InsertMapEvent(t)
      PROVE  ReportInv'
  <2> DEFINE q == request[t]
             row == MapRow(q.payload, q.n, now)
  <2>1. /\ q.payload \in Payloads /\ Accepted(q.payload) /\ q.n \in Nat
        /\ UNCHANGED <<mapLog, rawLog>>
        /\ request' = [request EXCEPT ![t] = [pc |-> "raw", n |-> q.n, payload |-> q.payload,
                                              mapRow |-> row]]
    BY <1>1, <1>7 DEF InsertMapEvent, RequestTypeOK
  <2>2. row = MapRow(q.payload, q.n, row.at)
    BY <1>1, <2>1, RowsAgree
  <2> HIDE DEF row
  <2>3. /\ request'[t] = [pc |-> "raw", n |-> q.n, payload |-> q.payload, mapRow |-> row]
        /\ \A u \in Threads : u # t => request'[u] = request[u]
    BY <1>1, <2>1
  <2> QED
    BY <1>3, <2>1, <2>2, <2>3 DEF RowsOfReport
<1>8. ASSUME NEW t \in Threads, InsertRawQueryLog(t)
      PROVE  ReportInv'
  <2> DEFINE q == request[t]
             row == RawRow(q.payload, q.n, now)
  <2>1. /\ q.payload \in Payloads /\ Accepted(q.payload) /\ q.n \in Nat
        /\ q.mapRow = MapRow(q.payload, q.n, q.mapRow.at)
        /\ UNCHANGED <<mapLog, rawLog>>
        /\ request' = [request EXCEPT ![t] = [pc |-> "commit", n |-> q.n, mapRow |-> q.mapRow,
                                              rawRow |-> row]]
    BY <1>1, <1>8 DEF InsertRawQueryLog, RequestTypeOK, RowsOfReport
  <2>2. row.payload = q.payload
    BY <1>1, <2>1, RowsAgree
  <2> HIDE DEF row
  <2>3. /\ request'[t] = [pc |-> "commit", n |-> q.n, mapRow |-> q.mapRow, rawRow |-> row]
        /\ \A u \in Threads : u # t => request'[u] = request[u]
    BY <1>1, <2>1
  <2> QED
    BY <1>3, <2>1, <2>2, <2>3 DEF RowsOfReport
<1>9. ASSUME NEW t \in Threads, Commit(t)
      PROVE  ReportInv'
  <2> PICK len, q : len = Len(rawLog) /\ q = request[t]
    OBVIOUS
  <2>1. /\ q.pc = "commit" /\ q.mapRow \in MapRows /\ q.rawRow \in RawRows
        /\ q.rawRow.n = q.n /\ q.mapRow = MapRow(q.rawRow.payload, q.n, q.mapRow.at)
        /\ mapLog' = Append(mapLog, q.mapRow) /\ rawLog' = Append(rawLog, q.rawRow)
        /\ request' = [request EXCEPT ![t] = [pc |-> "answer", n |-> q.n]]
    BY <1>1, <1>9 DEF Commit, RequestTypeOK, RowsOfReport, EInv, RowsAreOneEvent, RowsOfRequest
  <2>2. /\ mapLog \in Seq(MapRows) /\ rawLog \in Seq(RawRows)
        /\ len \in Nat /\ Len(mapLog) = len
    BY DEF EInv, EventTypeOK, SameRows
  <2>3. /\ Len(rawLog') = len + 1
        /\ mapLog'[len + 1] = q.mapRow /\ rawLog'[len + 1] = q.rawRow
        /\ \A i \in 1 .. len : mapLog'[i] = mapLog[i] /\ rawLog'[i] = rawLog[i]
    BY <2>1, <2>2
  <2>4. ASSUME NEW i \in 1 .. len + 1
        PROVE  mapLog'[i] = MapRow(rawLog'[i].payload, rawLog'[i].n, mapLog'[i].at)
    <3>1. CASE i \in 1 .. len
      BY <2>3, <3>1 DEF ReportInv, LogsOfReports
    <3>2. CASE i = len + 1
      BY <2>1, <2>3, <3>2
    <3> QED
      BY <2>2, <3>1, <3>2
  <2>5. /\ request'[t] = [pc |-> "answer", n |-> q.n]
        /\ \A u \in Threads : u # t => request'[u] = request[u]
    BY <1>1, <2>1
  (* The request was in no log, and what is owed an answer is.              *)
  <2>6. \A u \in Threads : request[u].pc = "answer" => request[u].n # q.n
    BY <2>1 DEF EInv, NumbersAreFresh, AnswersAreCommitted, Pending
  <2>7. AnswersAreOwn'
    BY <2>5, <2>6 DEF ReportInv, AnswersAreOwn
  <2>8. LogsOfReports'
    BY <2>3, <2>4 DEF LogsOfReports
  <2> QED
    BY <1>1, <2>5, <2>7, <2>8 DEF ReportInv, RowsOfReport
<1> QED
  BY <1>4, <1>5, <1>6, <1>7, <1>8, <1>9 DEF EventNext, Request

(* With the dashboard at work or not, the two logs have rows of the same    *)
(* reports in the same order, no request twice, and each that was answered  *)
(* with success.                                                            *)
THEOREM LogsTellTheSame == Spec => []LogsAgree
<1>1. EInv /\ ReportInv => LogsAgree
  <2> SUFFICES ASSUME EInv, ReportInv
               PROVE  LogsAgree
    OBVIOUS
  <2>1. SameRows /\ mapLog \in Seq(MapRows) /\ rawLog \in Seq(RawRows)
    BY DEF EInv, EventTypeOK
  <2>2. DOMAIN mapLog = 1 .. Len(rawLog)
    BY <2>1 DEF SameRows
  <2>3. \A i \in DOMAIN mapLog :
            mapLog[i] = MapRow(rawLog[i].payload, rawLog[i].n, mapLog[i].at)
    BY <2>2 DEF ReportInv, LogsOfReports
  <2> QED
    BY <2>1, <2>3 DEF LogsAgree, SameRows
<1> QED
  BY EventInitInv, EventStepInv, InitReports, StepReports, DashboardOnlyReads, <1>1, PTL
     DEF EventSpec

(* The requests under way, by their threads. *)
LEMMA UnderWay ==
    /\ Unrecorded = {ReportOf(request[t]) : t \in {t \in Threads : Pending(request[t])}}
    /\ Unanswered = {request[t].n : t \in {t \in Threads : request[t].pc = "answer"}}
    /\ Unrecorded' = {ReportOf(request'[t]) : t \in {t \in Threads : Pending(request'[t])}}
    /\ Unanswered' = {request'[t].n : t \in {t \in Threads : request'[t].pc = "answer"}}
BY DEF Unrecorded, Unanswered, RequestsAt, Pending, ReportOf

(* Of the requests, one moves on. *)
LEMMA OneMovesOn ==
    ASSUME EInv, NEW t \in Threads, \A u \in Threads : u # t => request'[u] = request[u]
    PROVE  /\ Pending(request[t]) => Unrecorded \ {ReportOf(request[t])} =
                {ReportOf(request[u]) : u \in {u \in Threads \ {t} : Pending(request[u])}}
           /\ ~Pending(request[t]) => Unrecorded =
                {ReportOf(request[u]) : u \in {u \in Threads \ {t} : Pending(request[u])}}
           /\ ~Pending(request'[t]) => Unrecorded' =
                {ReportOf(request[u]) : u \in {u \in Threads \ {t} : Pending(request[u])}}
           /\ Pending(request'[t]) => Unrecorded' = {ReportOf(request'[t])} \cup
                {ReportOf(request[u]) : u \in {u \in Threads \ {t} : Pending(request[u])}}
           /\ Pending(request[t]) => ReportOf(request[t]) \in Unrecorded
<1> DEFINE Rest == {ReportOf(request[u]) : u \in {u \in Threads \ {t} : Pending(request[u])}}
<1>1. Pending(request[t]) => ReportOf(request[t]) \notin Rest
  BY DEF EInv, NumbersAreFresh, ReportOf
<1>2. Unrecorded = Rest \cup {ReportOf(request[u]) : u \in {u \in {t} : Pending(request[u])}}
  BY UnderWay
<1>3. Unrecorded' = Rest \cup {ReportOf(request'[u]) : u \in {u \in {t} : Pending(request'[u])}}
  BY UnderWay
<1> HIDE DEF Rest
<1>4. /\ Pending(request[t]) => Unrecorded \ {ReportOf(request[t])} = Rest
      /\ ~Pending(request[t]) => Unrecorded = Rest
      /\ ~Pending(request'[t]) => Unrecorded' = Rest
      /\ Pending(request'[t]) => Unrecorded' = {ReportOf(request'[t])} \cup Rest
      /\ Pending(request[t]) => ReportOf(request[t]) \in Unrecorded
  BY <1>1, <1>2, <1>3
<1> QED
  BY <1>4 DEF Rest

LEMMA OneIsAnswered ==
    ASSUME ReportInv, NEW t \in Threads, \A u \in Threads : u # t => request'[u] = request[u]
    PROVE  /\ request[t].pc = "answer" /\ request'[t].pc # "answer" =>
                Unanswered' = Unanswered \ {request[t].n} /\ request[t].n \in Unanswered
           /\ request[t].pc # "answer" /\ request'[t].pc # "answer" => Unanswered' = Unanswered
           /\ request[t].pc # "answer" /\ request'[t].pc = "answer" =>
                Unanswered' = Unanswered \cup {request'[t].n}
<1> DEFINE Rest == {request[u].n : u \in {u \in Threads \ {t} : request[u].pc = "answer"}}
<1>1. request[t].pc = "answer" => request[t].n \notin Rest
  BY DEF ReportInv, AnswersAreOwn
<1>2. Unanswered = Rest \cup {request[u].n : u \in {u \in {t} : request[u].pc = "answer"}}
  BY UnderWay
<1>3. Unanswered' = Rest \cup {request'[u].n : u \in {u \in {t} : request'[u].pc = "answer"}}
  BY UnderWay
<1> HIDE DEF Rest
<1> QED
  BY <1>1, <1>2, <1>3

(* No row is torn. *)
Entries == [n : Nat, report : Payloads]

RecordedWhole ==
    /\ Recorded \in Seq(Entries) /\ Len(Recorded) = Len(rawLog)
    /\ \A i \in 1 .. Len(rawLog) :
          Recorded[i] = [n |-> rawLog[i].n, report |-> rawLog[i].payload]

LEMMA RecordedIsWhole == EInv => RecordedWhole
<1> SUFFICES ASSUME EInv
             PROVE  RecordedWhole
  OBVIOUS
<1> DEFINE len == Len(rawLog)
<1>1. /\ rawLog \in Seq(RawRows) /\ len \in Nat
      /\ DOMAIN rawLog = 1 .. len /\ DOMAIN mapLog = 1 .. len
      /\ \A i \in 1 .. len : mapLog[i].n = rawLog[i].n
  BY DEF EInv, EventTypeOK, SameRows
<1>2. \A i \in 1 .. len : [n |-> rawLog[i].n, report |-> rawLog[i].payload] \in Entries
  <2>1. \A i \in 1 .. len : rawLog[i] \in RawRows
    BY <1>1
  <2> QED
    BY <2>1 DEF RawRows, Entries
<1>3. Recorded = [i \in 1 .. len |-> [n |-> rawLog[i].n, report |-> rawLog[i].payload]]
  BY <1>1 DEF Recorded
<1> HIDE DEF len
<1>4. Recorded \in [1 .. len -> Entries]
  BY <1>2, <1>3
<1>5. Recorded \in Seq(Entries) /\ Len(Recorded) = len
  BY <1>1, <1>4
<1> QED
  BY <1>3, <1>5 DEF len, RecordedWhole

LEMMA InitJournal == EventInit => Journal!JInit
<1> SUFFICES ASSUME EventInit
             PROVE  Journal!JInit
  OBVIOUS
<1>1. /\ mapLog = <<>> /\ rawLog = <<>> /\ events = 0 /\ acked = {}
      /\ \A t \in Threads : request[t].pc = "idle"
  BY DEF EventInit, Idle
<1>2. Unrecorded = {} /\ Unanswered = {}
  BY <1>1, UnderWay DEF Pending
<1>3. Recorded = <<>>
  BY <1>1 DEF Recorded
<1> QED
  BY <1>1, <1>2, <1>3 DEF Journal!JInit

(* Each step of EventLog is a step of the journal, or none. *)
LEMMA StepJournal ==
    /\ EInv /\ ReportInv /\ RecordedWhole /\ RecordedWhole'
    /\ [EventNext]_eventVars
    => [Journal!JNext]_(Journal!journalVars)
<1> SUFFICES ASSUME EInv, ReportInv, RecordedWhole, RecordedWhole', [EventNext]_eventVars
             PROVE  Journal!JNext \/ UNCHANGED Journal!journalVars
  OBVIOUS
<1>1. /\ DOMAIN request = Threads
      /\ \A t \in Threads : RequestTypeOK(request[t]) /\ RowsOfRequest(request[t])
  BY DEF EInv, EventTypeOK, RowsAreOneEvent
<1>2. UNCHANGED <<mapLog, rawLog>> => Recorded' = Recorded
  BY DEF Recorded
<1>3. UNCHANGED request => Unrecorded' = Unrecorded /\ Unanswered' = Unanswered
  BY DEF Unrecorded, Unanswered, RequestsAt
<1>4. CASE Tick \/ UNCHANGED eventVars
  <2>1. UNCHANGED <<mapLog, rawLog, request, events, acked>>
    BY <1>4 DEF Tick, eventVars
  <2> QED
    BY <1>2, <1>3, <2>1 DEF Journal!journalVars
<1>5. CASE Crash
  <2>1. /\ UNCHANGED <<mapLog, rawLog, events, acked>>
        /\ \A t \in Threads : request'[t].pc = "idle"
    BY <1>5 DEF Crash, Idle
  <2>2. Unrecorded' = {} /\ Unanswered' = {}
    BY <2>1, UnderWay DEF Pending
  <2> QED
    BY <1>2, <2>1, <2>2 DEF Journal!JNext, Journal!LoseAll
<1>6. ASSUME NEW t \in Threads, NEW p \in Payloads, PostMapEvent(t, p)
      PROVE  Journal!JNext
  <2>1. /\ UNCHANGED <<mapLog, rawLog, acked>> /\ events' = events + 1
        /\ request[t].pc = "idle"
        /\ request'[t] = IF Accepted(p) THEN [pc |-> "map", n |-> events + 1, payload |-> p]
                         ELSE Idle
        /\ \A u \in Threads : u # t => request'[u] = request[u]
    BY <1>1, <1>6 DEF PostMapEvent
  <2>2. request'[t].pc \in {"map", "idle"} /\ ~Pending(request[t])
    BY <2>1 DEF Idle, Pending
  <2>3. Unanswered' = Unanswered
    BY <2>1, <2>2, OneIsAnswered
  <2>4. CASE Accepted(p)
    <3>1. Pending(request'[t]) /\ ReportOf(request'[t]) = [n |-> events', report |-> p]
      BY <2>1, <2>4 DEF Pending, ReportOf
    <3>2. Unrecorded' = Unrecorded \cup {[n |-> events', report |-> p]}
      BY <2>1, <2>2, <3>1, OneMovesOn
    <3> QED
      BY <1>2, <2>1, <2>3, <2>4, <3>2 DEF Journal!JNext, Journal!Receive
  <2>5. CASE ~Accepted(p)
    <3>1. ~Pending(request'[t])
      BY <2>1, <2>5 DEF Pending, Idle
    <3>2. Unrecorded' = Unrecorded
      BY <2>1, <2>2, <3>1, OneMovesOn
    <3> QED
      BY <1>2, <2>1, <2>3, <3>2 DEF Journal!JNext, Journal!Receive
  <2> QED
    BY <2>4, <2>5
<1>7. ASSUME NEW t \in Threads, InsertMapEvent(t) \/ InsertRawQueryLog(t)
      PROVE  UNCHANGED Journal!journalVars
  <2>1. /\ UNCHANGED <<mapLog, rawLog, events, acked>>
        /\ Pending(request[t]) /\ Pending(request'[t])
        /\ ReportOf(request'[t]) = ReportOf(request[t])
        /\ \A u \in Threads : u # t => request'[u] = request[u]
    BY <1>1, <1>7 DEF InsertMapEvent, InsertRawQueryLog, Pending, ReportOf, RawRow
  <2>2. request[t].pc # "answer" /\ request'[t].pc # "answer"
    BY <2>1 DEF Pending
  <2>3. Unrecorded' = Unrecorded
    BY <2>1, OneMovesOn
  <2>4. Unanswered' = Unanswered
    BY <2>1, <2>2, OneIsAnswered
  <2> QED
    BY <1>2, <2>1, <2>3, <2>4 DEF Journal!journalVars
<1>8. ASSUME NEW t \in Threads, DatabaseFails(t)
      PROVE  Journal!JNext
  <2>1. /\ UNCHANGED <<mapLog, rawLog, events, acked>>
        /\ Pending(request[t]) /\ request'[t].pc = "idle"
        /\ \A u \in Threads : u # t => request'[u] = request[u]
    BY <1>1, <1>8 DEF DatabaseFails, Pending, Idle
  <2>2. ~Pending(request'[t]) /\ request[t].pc # "answer"
    BY <2>1 DEF Pending
  <2>3. Unrecorded' = Unrecorded \ {ReportOf(request[t])} /\ ReportOf(request[t]) \in Unrecorded
    BY <2>1, <2>2, OneMovesOn
  <2>4. Unanswered' = Unanswered
    BY <2>1, <2>2, OneIsAnswered
  <2> QED
    BY <1>2, <2>1, <2>3, <2>4 DEF Journal!JNext, Journal!Lose
<1>9. ASSUME NEW t \in Threads, Commit(t)
      PROVE  Journal!JNext
  <2> PICK len, q : len = Len(rawLog) /\ q = request[t]
    OBVIOUS
  <2> DEFINE entry == ReportOf(q)
  <2>1. /\ UNCHANGED <<events, acked>> /\ q.pc = "commit"
        /\ rawLog' = Append(rawLog, q.rawRow) /\ q.rawRow \in RawRows /\ q.rawRow.n = q.n
        /\ request'[t] = [pc |-> "answer", n |-> q.n]
        /\ \A u \in Threads : u # t => request'[u] = request[u]
    BY <1>1, <1>9 DEF Commit, RequestTypeOK, RowsOfRequest
  <2>2. /\ entry = [n |-> q.rawRow.n, report |-> q.rawRow.payload] /\ entry.n = q.n
        /\ entry \in Entries
    BY <2>1 DEF ReportOf, Entries, RawRows
  <2>3. Pending(q) /\ ~Pending(request'[t]) /\ request'[t].pc = "answer" /\ q.pc # "answer"
    BY <2>1 DEF Pending
  <2> HIDE DEF entry
  <2>4. Unrecorded' = Unrecorded \ {entry} /\ entry \in Unrecorded
    BY <2>1, <2>3, OneMovesOn DEF entry
  <2>5. Unanswered' = Unanswered \cup {entry.n}
    BY <2>1, <2>2, <2>3, OneIsAnswered
  <2>6. Recorded' = Append(Recorded, entry)
    <3>1. rawLog \in Seq(RawRows) /\ len \in Nat
      BY DEF EInv, EventTypeOK
    <3>2. /\ Len(rawLog') = len + 1 /\ rawLog'[len + 1] = q.rawRow
          /\ \A i \in 1 .. len : rawLog'[i] = rawLog[i]
      BY <2>1, <3>1
    <3>3. /\ Recorded \in Seq(Entries) /\ Len(Recorded) = len
          /\ \A i \in 1 .. len :
                Recorded[i] = [n |-> rawLog[i].n, report |-> rawLog[i].payload]
      BY DEF RecordedWhole
    <3>4. /\ Recorded' \in Seq(Entries) /\ Len(Recorded') = len + 1
          /\ \A i \in 1 .. len + 1 :
                Recorded'[i] = [n |-> rawLog'[i].n, report |-> rawLog'[i].payload]
      BY <3>2 DEF RecordedWhole
    <3>5. /\ Append(Recorded, entry) \in Seq(Entries)
          /\ Len(Append(Recorded, entry)) = len + 1
          /\ \A i \in 1 .. len : Append(Recorded, entry)[i] = Recorded[i]
          /\ Append(Recorded, entry)[len + 1] = entry
      BY <2>2, <3>3, AppendProperties
    <3>6. ASSUME NEW i \in 1 .. len + 1
          PROVE  Recorded'[i] = Append(Recorded, entry)[i]
      <4>1. CASE i \in 1 .. len
        <5>1. rawLog'[i] = rawLog[i] /\ Append(Recorded, entry)[i] = Recorded[i]
          BY <3>2, <3>5, <4>1
        <5>2. Recorded[i] = [n |-> rawLog[i].n, report |-> rawLog[i].payload]
          BY <3>3, <4>1
        <5>3. Recorded'[i] = [n |-> rawLog'[i].n, report |-> rawLog'[i].payload]
          BY <3>4
        <5> QED
          BY <5>1, <5>2, <5>3
      <4>2. CASE i = len + 1
        <5>1. rawLog'[i] = q.rawRow /\ Append(Recorded, entry)[i] = entry
          BY <3>2, <3>5, <4>2
        <5>2. Recorded'[i] = [n |-> rawLog'[i].n, report |-> rawLog'[i].payload]
          BY <3>4
        <5> QED
          BY <2>2, <5>1, <5>2
      <4>3. i \in 1 .. len \/ i = len + 1
        BY <3>1
      <4> QED
        BY <4>1, <4>2, <4>3
    <3> QED
      BY <3>4, <3>5, <3>6, SeqEqual
  <2> QED
    BY <2>1, <2>4, <2>5, <2>6 DEF Journal!JNext, Journal!Record
<1>10. ASSUME NEW t \in Threads, Acknowledge(t)
       PROVE  Journal!JNext
  <2>1. /\ UNCHANGED <<mapLog, rawLog, events>> /\ request[t].pc = "answer"
        /\ acked' = acked \cup {request[t].n} /\ request'[t].pc = "idle"
        /\ \A u \in Threads : u # t => request'[u] = request[u]
    BY <1>1, <1>10 DEF Acknowledge, Idle
  <2>2. ~Pending(request[t]) /\ ~Pending(request'[t])
    BY <2>1 DEF Pending
  <2>3. Unrecorded' = Unrecorded
    BY <2>1, <2>2, OneMovesOn
  <2>4. Unanswered' = Unanswered \ {request[t].n} /\ request[t].n \in Unanswered
    BY <2>1, OneIsAnswered
  <2> QED
    BY <1>2, <2>1, <2>3, <2>4 DEF Journal!JNext, Journal!Tell
<1> QED
  BY <1>4, <1>5, <1>6, <1>7, <1>8, <1>9, <1>10 DEF EventNext, Request

(* Every accepted report is recorded once, in both logs, or not at all; only*)
(* then is it answered with success, and nothing that is recorded is ever   *)
(* taken back: not by a failure, a crash, another request or the dashboard. *)
THEOREM KeepsAJournal == Spec => ImplementsJournal
<1> QED
  BY EventInitInv, EventStepInv, InitReports, StepReports, InitJournal, StepJournal,
     RecordedIsWhole, DashboardOnlyReads, PTL DEF EventSpec, ImplementsJournal, Journal!JSpec
==============================================================================
