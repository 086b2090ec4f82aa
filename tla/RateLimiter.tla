----------------------------- MODULE RateLimiter -----------------------------
(***************************************************************************)
(* The sliding-window limiter of the public API, and the requests that go  *)
(* through it.                                                             *)
(*                                                                         *)
(*   app/rate_limit.py           SlidingWindowRateLimiter                  *)
(*   app/routers/map_router.py   _allow_rate_limited_event,                *)
(*                               get_public_download                       *)
(*   app/core/runtime_config.py  the limit that an admin may change        *)
(*                                                                         *)
(* allow() reads the clock before it takes the lock, so a thread may enter *)
(* the critical section with a reading that is older than those of threads *)
(* that overtook it: buckets need not be sorted.  Time is an integer       *)
(* number of ticks; the clock does not go back.                            *)
(***************************************************************************)
EXTENDS Integers, Sequences, FiniteSets

CONSTANTS Threads,         \* the threads that serve requests
          Keys,            \* limiter keys: events:<ip>, events:global, ...
          Routes,          \* the keys each kind of request is checked against
          InitialLimit,    \* the limit of each key
          Reloadable,      \* the keys whose limit is a setting of the admin
          NewLimits,       \* the values an admin may give it
          Window,          \* RATE_LIMIT_WINDOW_SECONDS, in ticks
          TicksPerSecond,
          MaxTracked,      \* MAX_TRACKED_KEYS
          MaxStall,        \* bound: ticks between a reading and its use
          MaxTime          \* bound: the clock

ASSUME LimiterAssumption ==
    /\ Routes \subseteq Seq(Keys) /\ <<>> \notin Routes
    /\ InitialLimit \in [Keys -> Nat]
    /\ \A k \in Keys \ Reloadable : InitialLimit[k] > 0
    /\ Reloadable \subseteq Keys
    /\ NewLimits \subseteq Nat
    /\ Window \in Nat \ {0}
    /\ TicksPerSecond \in Nat \ {0}
    /\ MaxTracked \in Nat \ {0}
    /\ MaxStall \in Nat
    /\ MaxTime \in Nat

VARIABLES
    clock,
    limit,     \* the limits in force
    tracked,   \* the keys of the dictionary _events
    bucket,    \* their deques; empty for a key that is not tracked
    thread,    \* what each thread is doing
    log        \* history: every event that was let through, by key

vars == <<clock, limit, tracked, bucket, thread, log>>

-----------------------------------------------------------------------------
(* checks: the keys the request has still to pass; limit, now: the          *)
(* arguments and local variables of allow; retry: Retry-After.              *)
ThreadPc == {"idle", "read", "lock", "limited", "error"}

ThreadState ==
    [pc : ThreadPc, checks : Seq(Keys), limit : Nat, now : Nat, retry : Nat]

IdleThread == [pc |-> "idle", checks |-> <<>>, limit |-> 0, now |-> 0, retry |-> 0]

(* When an event was let through, and the reading it was entered with. *)
Grant == [at : Nat, now : Nat]

Init ==
    /\ clock = 0
    /\ limit = InitialLimit
    /\ tracked = {}
    /\ bucket = [k \in Keys |-> <<>>]
    /\ thread = [t \in Threads |-> IdleThread]
    /\ log = [k \in Keys |-> <<>>]

Key(t) == Head(thread[t].checks)

Tick ==
    /\ clock < MaxTime
    /\ \A t \in Threads : thread[t].pc = "lock" => clock < thread[t].now + MaxStall
    /\ clock' = clock + 1
    /\ UNCHANGED <<limit, tracked, bucket, thread, log>>

(* update_settings replaces the configuration the next request reads. *)
ChangeLimit(k) ==
    /\ \E new \in NewLimits : limit' = [limit EXCEPT ![k] = new]
    /\ UNCHANGED <<clock, tracked, bucket, thread, log>>

Request(t) ==
    /\ thread[t].pc \in {"idle", "limited", "error"}
    /\ \E route \in Routes :
          thread' = [thread EXCEPT ![t] = [IdleThread EXCEPT !.pc = "read",
                                                             !.checks = route]]
    /\ UNCHANGED <<clock, limit, tracked, bucket, log>>

ReadClock(t) ==
    /\ thread[t].pc = "read"
    /\ thread' = [thread EXCEPT ![t].pc = "lock", ![t].now = clock,
                                ![t].limit = limit[Key(t)]]
    /\ UNCHANGED <<clock, limit, tracked, bucket, log>>

-----------------------------------------------------------------------------
(* The critical section of allow. *)

(* Variants: the oldest entry decides; nothing is ever evicted. *)
EvictedByOldest(cutoff) ==
    IF Cardinality(tracked) >= MaxTracked
    THEN {k \in tracked : bucket[k] = <<>> \/ bucket[k][1] <= cutoff}
    ELSE {}

EvictedNever(cutoff) == {}

(* _evict_expired, when the dictionary is full: the keys it deletes. *)
Evicted(cutoff) ==
    IF Cardinality(tracked) >= MaxTracked
    THEN {k \in tracked : bucket[k] = <<>> \/ bucket[k][Len(bucket[k])] <= cutoff}
    ELSE {}

(* Variant: nothing is removed. *)
ExpiredNever(b, cutoff, n) == n = 0

(* popleft removes the first n entries: it stops at the first one that is   *)
(* in the window, whatever follows.                                         *)
Expired(b, cutoff, n) ==
    /\ \A i \in 1 .. n : b[i] <= cutoff
    /\ n < Len(b) => b[n + 1] > cutoff

Live(b, cutoff) ==
    LET n == CHOOSE n \in 0 .. Len(b) : Expired(b, cutoff, n)
    IN  SubSeq(b, n + 1, Len(b))

(* Variant: rounding down. *)
RoundDown(ticks) == IF ticks < TicksPerSecond THEN 1 ELSE ticks \div TicksPerSecond

Full(b, max) == Len(b) >= max

(* max(1, int(math.ceil(...))), in seconds *)
RetryAfter(ticks) ==
    IF ticks < 1 THEN 1 ELSE (ticks + TicksPerSecond - 1) \div TicksPerSecond

(* What the request goes on with when its first check lets it through. *)
NextCheck(th) ==
    IF Len(th.checks) = 1
    THEN IdleThread
    ELSE [IdleThread EXCEPT !.pc = "read", !.checks = Tail(th.checks)]

Cutoff(t) == thread[t].now - Window

(* The bucket of the request after the eviction and the loop of popleft. *)
LiveBucket(t) ==
    Live(IF Key(t) \in Evicted(Cutoff(t)) THEN <<>> ELSE bucket[Key(t)], Cutoff(t))

(* What the call leaves: entries in the bucket of its key, and nothing of   *)
(* the keys it evicted.                                                     *)
Leave(t, entries) ==
    /\ tracked' = (tracked \ Evicted(Cutoff(t))) \cup {Key(t)}
    /\ bucket' = [k \in Keys |->
                     IF k = Key(t) THEN entries
                     ELSE IF k \in Evicted(Cutoff(t)) THEN <<>>
                     ELSE bucket[k]]

Admit(t) ==
    /\ thread[t].pc = "lock"
    /\ ~Full(LiveBucket(t), thread[t].limit)
    /\ Leave(t, Append(LiveBucket(t), thread[t].now))
    /\ log' = [log EXCEPT ![Key(t)] = Append(@, [at |-> clock, now |-> thread[t].now])]
    /\ thread' = [thread EXCEPT ![t] = NextCheck(thread[t])]
    /\ UNCHANGED <<clock, limit>>

Reject(t) ==
    /\ thread[t].pc = "lock"
    /\ Full(LiveBucket(t), thread[t].limit)
    /\ LiveBucket(t) # <<>>
    /\ Leave(t, LiveBucket(t))
    /\ LET ticks == LiveBucket(t)[1] + Window - thread[t].now
       IN  thread' = [thread EXCEPT ![t] = [IdleThread EXCEPT
                                                !.pc = "limited",
                                                !.retry = RetryAfter(ticks)]]
    /\ UNCHANGED <<clock, limit, log>>

(* bucket[0] of an empty deque: the limit is 0.  The exception leaves the   *)
(* lock and the handler, and the answer is a 500.                           *)
RejectFails(t) ==
    /\ thread[t].pc = "lock"
    /\ Full(LiveBucket(t), thread[t].limit)
    /\ LiveBucket(t) = <<>>
    /\ Leave(t, <<>>)
    /\ thread' = [thread EXCEPT ![t] = [IdleThread EXCEPT !.pc = "error"]]
    /\ UNCHANGED <<clock, limit, log>>

-----------------------------------------------------------------------------
Allow(t) == Admit(t) \/ Reject(t) \/ RejectFails(t)

Next ==
    \/ Tick
    \/ \E k \in Reloadable : ChangeLimit(k)
    \/ \E t \in Threads : Request(t) \/ ReadClock(t) \/ Allow(t)

Spec == Init /\ [][Next]_vars

-----------------------------------------------------------------------------
TypeOK ==
    /\ clock \in Nat
    /\ limit \in [Keys -> Nat]
    /\ tracked \subseteq Keys
    /\ bucket \in [Keys -> Seq(Nat)]
    /\ thread \in [Threads -> ThreadState]
    /\ log \in [Keys -> Seq(Grant)]
    /\ \A k \in Keys \ tracked : bucket[k] = <<>>

(* The limit of a key is respected whatever the threads do between reading  *)
(* the clock and taking the lock, and whatever is evicted: an event and the *)
(* one that follows it limit places later are a whole window apart, less    *)
(* the time for which a thread may be held up between the two.  Without     *)
(* such delays (MaxStall = 0) it is the promise of the sliding window.      *)
LimitHolds ==
    \A k \in Keys \ Reloadable :
        \A i \in 1 .. Len(log[k]) - limit[k] :
            log[k][i + limit[k]].at + MaxStall >= log[k][i].at + Window

Rejected(t) == thread[t].pc = "lock" /\ thread'[t].pc = "limited"

(* Nobody is turned away for events that are past: a request is answered    *)
(* 429 only if as many events as the limit were let through less than a     *)
(* window before it read the clock.                                         *)
RejectsOnlyWhenFull ==
    [][\A t \in Threads : Rejected(t) =>
          LET granted == log[Key(t)]
              max     == thread[t].limit
          IN  /\ Len(granted) >= max
              /\ max > 0 => granted[Len(granted) - max + 1].at > Cutoff(t)]_vars

(* Retry-After is enough: a client that waits as long is let through unless *)
(* others were in the meantime.  (For a limit that is never lowered: the    *)
(* entry that runs out first makes room only in a bucket that is not        *)
(* overfull.)                                                               *)
RetryAfterSuffices ==
    [][\A t \in Threads : (Rejected(t) /\ Key(t) \notin Reloadable) =>
          LET later == clock + thread'[t].retry * TicksPerSecond
          IN  ~Full(Live(bucket'[Key(t)], later - Window), limit[Key(t)])]_vars

(* The dictionary grows past MAX_TRACKED_KEYS only for clients that are     *)
(* active: every other key it then holds had an event within the window.    *)
GrowsOnlyForActiveKeys ==
    [][\A t \in Threads :
          (/\ thread[t].pc = "lock" /\ thread'[t].pc # "lock"
           /\ Cardinality(tracked') > MaxTracked)
          => \A k \in tracked' \ {Key(t)} :
                log[k] # <<>> /\ log[k][Len(log[k])].at > Cutoff(t)]_vars
=============================================================================
