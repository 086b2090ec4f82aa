-------------------------- MODULE RateLimiterProofs --------------------------
(***************************************************************************)
(* The limit of every key holds, for any number of threads, keys and       *)
(* requests, any window, and any bound on how long a thread is held up.    *)
(*                                                                         *)
(* The inductive invariant ties the deque of a key to the history of the   *)
(* events that were let through: the deque holds the readings of the last  *)
(* ones, and those that are no longer in it are almost a window old,       *)
(* whether popleft or an eviction dropped them.                            *)
(***************************************************************************)
EXTENDS RateLimiter, SequenceTheorems, FiniteSetTheorems, WellFoundedInduction, TLAPS

(* The readings of the deque are those of the last events. *)
BucketIsRecent ==
    \A k \in Keys :
        /\ Len(bucket[k]) <= Len(log[k])
        /\ \A i \in 1 .. Len(bucket[k]) :
              bucket[k][i] = log[k][Len(log[k]) - Len(bucket[k]) + i].now

(* Events are in the order they were let through, each with a reading that *)
(* was at most MaxStall old.                                                *)
LogIsOrdered ==
    \A k \in Keys : \A i \in 1 .. Len(log[k]) :
        /\ log[k][i].now <= log[k][i].at
        /\ log[k][i].at <= log[k][i].now + MaxStall
        /\ log[k][i].at <= clock
        /\ \A j \in i .. Len(log[k]) : log[k][i].at <= log[k][j].at

(* What the deque has forgotten is past, but for the time a thread may be  *)
(* held up.                                                                 *)
ForgottenIsPast ==
    \A k \in Keys : \A i \in 1 .. Len(log[k]) - Len(bucket[k]) :
        log[k][i].at + Window <= clock + MaxStall

(* A thread that is about to enter the critical section. *)
ReadingsAreRecent ==
    \A t \in Threads :
        /\ thread[t].pc \in {"read", "lock"} => thread[t].checks # <<>>
        /\ thread[t].pc = "lock" =>
              /\ thread[t].now <= clock
              /\ clock <= thread[t].now + MaxStall
              /\ Key(t) \notin Reloadable => thread[t].limit = limit[Key(t)]

IInv ==
    /\ TypeOK
    /\ BucketIsRecent
    /\ LogIsOrdered
    /\ ForgottenIsPast
    /\ ReadingsAreRecent
    /\ LimitHolds

-----------------------------------------------------------------------------
(* A set of naturals that is not empty has a least element. *)
LEMMA LeastNatural ==
    ASSUME NEW T \in SUBSET Nat, T # {}
    PROVE  \E x \in T : \A y \in T : x <= y
<1> DEFINE R == OpToRel(<, Nat)
<1>1. IsWellFoundedOn(R, Nat)
    BY NatLessThanWellFounded
<1>2. \E x \in T : \A y \in T : ~ (<<y, x>> \in R)
    <2> HIDE DEF R
    <2> QED BY <1>1, WFMin
<1>3. \A x, y \in Nat : y < x => <<y, x>> \in R
    BY DEF OpToRel
<1>4. PICK x \in T : \A y \in T : ~ (<<y, x>> \in R)
    BY <1>2
<1>5. ASSUME NEW y \in T PROVE x <= y
    <2>1. x \in Nat /\ y \in Nat
        OBVIOUS
    <2>2. ~ (<<y, x>> \in R)
        BY <1>4
    <2>3. ~ (y < x)
        <3> HIDE DEF R
        <3> QED BY <1>3, <2>1, <2>2
    <2> QED BY <2>1, <2>3
<1> QED BY <1>5

(* The loop of popleft ends: there is a first entry that is in the window,  *)
(* or none, and what remains is a suffix of the bucket.                     *)
LEMMA LiveIsSuffix ==
    ASSUME NEW b \in Seq(Nat), NEW cutoff \in Int
    PROVE  \E n \in 0 .. Len(b) :
              /\ Live(b, cutoff) = SubSeq(b, n + 1, Len(b))
              /\ \A i \in 1 .. n : b[i] <= cutoff
              /\ n < Len(b) => b[n + 1] > cutoff
<1> DEFINE T == {n \in 0 .. Len(b) : n < Len(b) => b[n + 1] > cutoff}
<1>1. T \subseteq Nat /\ Len(b) \in T
    OBVIOUS
<1>2. PICK n \in T : \A m \in T : n <= m
    BY <1>1, LeastNatural
<1>3. \A i \in 1 .. n : b[i] <= cutoff
    <2> SUFFICES ASSUME NEW i \in 1 .. n PROVE b[i] <= cutoff
        OBVIOUS
    <2>1. n \in 0 .. Len(b) /\ i \in 1 .. Len(b) /\ b[i] \in Nat
        OBVIOUS
    <2>2. i - 1 \notin T
        <3> HIDE DEF T
        <3> QED BY <1>1, <1>2, <2>1
    <2>3. i - 1 \in 0 .. Len(b) /\ (i - 1) + 1 = i
        BY <2>1
    <2> QED BY <2>1, <2>2, <2>3
<1>4. \E m \in 0 .. Len(b) : Expired(b, cutoff, m)
    BY <1>2, <1>3 DEF Expired
<1> DEFINE m == CHOOSE m \in 0 .. Len(b) : Expired(b, cutoff, m)
<1>5. m \in 0 .. Len(b) /\ Expired(b, cutoff, m)
    BY <1>4
<1>6. Live(b, cutoff) = SubSeq(b, m + 1, Len(b))
    BY DEF Live
<1> HIDE DEF m
<1> QED BY <1>5, <1>6 DEF Expired

-----------------------------------------------------------------------------
LEMMA InitIInv == Init => IInv
<1> SUFFICES ASSUME Init PROVE IInv
    OBVIOUS
<1> USE LimiterAssumption DEF Init
<1>1. TypeOK
    BY DEF TypeOK, ThreadState, ThreadPc, IdleThread
<1>2. BucketIsRecent /\ LogIsOrdered /\ ForgottenIsPast /\ LimitHolds
    BY DEF BucketIsRecent, LogIsOrdered, ForgottenIsPast, LimitHolds
<1>3. ReadingsAreRecent
    BY DEF ReadingsAreRecent, IdleThread
<1> QED BY <1>1, <1>2, <1>3 DEF IInv

-----------------------------------------------------------------------------
(* A thread in the critical section has arguments of the right kinds. *)
LEMMA LockedThread ==
    ASSUME IInv, NEW t \in Threads, thread[t].pc = "lock"
    PROVE  /\ Key(t) \in Keys
           /\ thread[t] \in ThreadState
           /\ thread[t].now \in Nat /\ thread[t].limit \in Nat
           /\ Cutoff(t) = thread[t].now - Window /\ Cutoff(t) \in Int
           /\ thread[t].now <= clock /\ clock <= thread[t].now + MaxStall
           /\ clock \in Nat /\ Window \in Nat \ {0} /\ MaxStall \in Nat
<1>1. thread[t] \in ThreadState /\ clock \in Nat
    BY DEF IInv, TypeOK
<1>2. thread[t].checks \in Seq(Keys) /\ thread[t].checks # <<>>
    BY <1>1 DEF ThreadState, IInv, ReadingsAreRecent
<1>3. Key(t) \in Keys
    BY <1>2 DEF Key
<1>4. thread[t].now \in Nat /\ thread[t].limit \in Nat
    BY <1>1 DEF ThreadState
<1>5. thread[t].now <= clock /\ clock <= thread[t].now + MaxStall
    BY DEF IInv, ReadingsAreRecent
<1>6. Window \in Nat \ {0} /\ MaxStall \in Nat
    BY LimiterAssumption
<1> QED BY <1>1, <1>3, <1>4, <1>5, <1>6 DEF Cutoff

LEMMA KeyTypes ==
    ASSUME IInv, NEW k \in Keys
    PROVE  /\ bucket[k] \in Seq(Nat)
           /\ log[k] \in Seq(Grant)
           /\ \A i \in 1 .. Len(log[k]) : log[k][i].at \in Nat /\ log[k][i].now \in Nat
<1>1. bucket[k] \in Seq(Nat) /\ log[k] \in Seq(Grant)
    BY DEF IInv, TypeOK
<1>2. \A i \in 1 .. Len(log[k]) : log[k][i] \in Grant
    BY <1>1
<1> QED BY <1>1, <1>2 DEF Grant

(* What the thread takes for past is past, but for the time it was held up, *)
(* and so is everything before it.                                          *)
LEMMA StaleIsPast ==
    ASSUME IInv, NEW t \in Threads, thread[t].pc = "lock",
           NEW k \in Keys, NEW i \in 1 .. Len(log[k]),
           log[k][i].now <= Cutoff(t)
    PROVE  \A j \in 1 .. i : log[k][j].at + Window <= clock + MaxStall
<1> SUFFICES ASSUME NEW j \in 1 .. i
             PROVE  log[k][j].at + Window <= clock + MaxStall
    OBVIOUS
<1>1. log[k] \in Seq(Grant) /\ Len(log[k]) \in Nat
    BY KeyTypes
<1>2. j \in 1 .. Len(log[k]) /\ i \in j .. Len(log[k])
    BY <1>1
<1>3. /\ log[k][j].at <= log[k][i].at
      /\ log[k][i].at <= log[k][i].now + MaxStall
    BY <1>2 DEF IInv, LogIsOrdered
<1>4. /\ log[k][j].at \in Nat /\ log[k][i].at \in Nat /\ log[k][i].now \in Nat
    BY <1>2, KeyTypes
<1>5. /\ Cutoff(t) = thread[t].now - Window /\ thread[t].now \in Nat
      /\ thread[t].now <= clock /\ clock \in Nat
      /\ Window \in Nat /\ MaxStall \in Nat
    BY LockedThread
<1>6. log[k][i].now + Window <= clock
    BY <1>4, <1>5
<1> DEFINE x == log[k][j].at
           y == log[k][i].at
           r == log[k][i].now
<1>7. /\ x \in Nat /\ y \in Nat /\ r \in Nat /\ x <= y
      /\ y <= r + MaxStall /\ r + Window <= clock
    BY <1>3, <1>4, <1>6
<1> HIDE DEF x, y, r
<1>8. x + Window <= clock + MaxStall
    BY <1>5, <1>7
<1> QED BY <1>8 DEF x

LEMMA EvictedIsPast ==
    ASSUME IInv, NEW t \in Threads, thread[t].pc = "lock",
           NEW k \in Evicted(Cutoff(t))
    PROVE  /\ k \in Keys
           /\ \A i \in 1 .. Len(log[k]) : log[k][i].at + Window <= clock + MaxStall
<1>1. k \in Keys /\ (bucket[k] = <<>> \/ bucket[k][Len(bucket[k])] <= Cutoff(t))
    BY DEF Evicted, IInv, TypeOK
<1>2. bucket[k] \in Seq(Nat) /\ log[k] \in Seq(Grant)
    BY <1>1, KeyTypes
<1>3. Len(bucket[k]) \in Nat /\ Len(log[k]) \in Nat
    BY <1>2
<1>4. CASE bucket[k] = <<>>
    <2>1. Len(bucket[k]) = 0
        BY <1>4
    <2>2. 1 .. Len(log[k]) - Len(bucket[k]) = 1 .. Len(log[k])
        BY <2>1, <1>3
    <2> QED BY <1>1, <2>2 DEF IInv, ForgottenIsPast
<1>5. CASE bucket[k] # <<>> /\ bucket[k][Len(bucket[k])] <= Cutoff(t)
    <2>1. Len(bucket[k]) \in 1 .. Len(bucket[k])
        BY <1>5, <1>2, <1>3, EmptySeq
    <2>2. Len(bucket[k]) <= Len(log[k])
        BY <1>1 DEF IInv, BucketIsRecent
    <2>3. bucket[k][Len(bucket[k])]
            = log[k][Len(log[k]) - Len(bucket[k]) + Len(bucket[k])].now
        BY <1>1, <2>1 DEF IInv, BucketIsRecent
    <2>4. /\ Len(log[k]) \in 1 .. Len(log[k])
          /\ Len(log[k]) - Len(bucket[k]) + Len(bucket[k]) = Len(log[k])
        BY <1>3, <2>1, <2>2
    <2>5. log[k][Len(log[k])].now <= Cutoff(t)
        BY <1>5, <2>3, <2>4
    <2> QED BY <1>1, <2>4, <2>5, StaleIsPast
<1> QED BY <1>1, <1>4, <1>5

(* What remains in the bucket of the request: the readings of the last      *)
(* events of its key, and all others are past.                              *)
LEMMA LiveBucketFacts ==
    ASSUME IInv, NEW t \in Threads, thread[t].pc = "lock"
    PROVE  LET live == LiveBucket(t)
               past == log[Key(t)]
           IN  /\ live \in Seq(Nat)
               /\ Len(live) <= Len(past)
               /\ \A i \in 1 .. Len(live) :
                     live[i] = past[Len(past) - Len(live) + i].now
               /\ \A i \in 1 .. Len(past) - Len(live) :
                     past[i].at + Window <= clock + MaxStall
<1> DEFINE k == Key(t)
           past == log[k]
           b == IF k \in Evicted(Cutoff(t)) THEN <<>> ELSE bucket[k]
<1>1. k \in Keys /\ Cutoff(t) \in Int
    BY LockedThread
<1>2. bucket[k] \in Seq(Nat) /\ past \in Seq(Grant) /\ Len(past) \in Nat
    BY <1>1, KeyTypes
<1>3. /\ b \in Seq(Nat) /\ Len(b) \in Nat /\ Len(b) <= Len(past)
      /\ \A i \in 1 .. Len(b) : b[i] = past[Len(past) - Len(b) + i].now
      /\ \A i \in 1 .. Len(past) - Len(b) : past[i].at + Window <= clock + MaxStall
    <2>1. CASE k \in Evicted(Cutoff(t))
        <3>1. b = <<>> /\ Len(b) = 0 /\ b \in Seq(Nat)
            BY <2>1
        <3>2. \A i \in 1 .. Len(past) : past[i].at + Window <= clock + MaxStall
            BY <2>1, EvictedIsPast
        <3> HIDE DEF b
        <3> QED BY <3>1, <3>2, <1>2
    <2>2. CASE k \notin Evicted(Cutoff(t))
        <3>1. b = bucket[k]
            BY <2>2
        <3>2. /\ Len(bucket[k]) <= Len(past)
              /\ \A i \in 1 .. Len(bucket[k]) :
                    bucket[k][i] = past[Len(past) - Len(bucket[k]) + i].now
            BY <1>1 DEF IInv, BucketIsRecent
        <3>3. \A i \in 1 .. Len(past) - Len(bucket[k]) :
                  past[i].at + Window <= clock + MaxStall
            BY <1>1 DEF IInv, ForgottenIsPast
        <3> HIDE DEF b, past, k
        <3>4. Len(bucket[k]) \in Nat
            BY <1>2
        <3> QED BY <3>1, <3>2, <3>3, <3>4, <1>2
    <2> QED BY <2>1, <2>2
<1>4. LiveBucket(t) = Live(b, Cutoff(t))
    BY DEF LiveBucket
<1> HIDE DEF b
<1>5. PICK n \in 0 .. Len(b) :
          /\ Live(b, Cutoff(t)) = SubSeq(b, n + 1, Len(b))
          /\ \A i \in 1 .. n : b[i] <= Cutoff(t)
    BY <1>1, <1>3, LiveIsSuffix
<1> DEFINE live == SubSeq(b, n + 1, Len(b))
<1>6. /\ live \in Seq(Nat)
      /\ Len(live) = Len(b) - n
      /\ \A i \in 1 .. Len(b) - n : live[i] = b[i + n]
    <2>1. CASE n < Len(b)
        BY <1>3, <2>1
    <2>2. CASE n = Len(b)
        BY <1>3, <2>2
    <2> QED BY <1>3, <2>1, <2>2
<1> HIDE DEF live
<1>7. Len(live) <= Len(past) /\ Len(live) \in Nat
    BY <1>2, <1>3, <1>6
<1>8. ASSUME NEW i \in 1 .. Len(live)
      PROVE  live[i] = past[Len(past) - Len(live) + i].now
    <2>1. i + n \in 1 .. Len(b) /\ i \in 1 .. Len(b) - n
        BY <1>3, <1>6
    <2>2. Len(past) - Len(b) + (i + n) = Len(past) - Len(live) + i
        <3> HIDE DEF past
        <3> QED BY <1>2, <1>3, <1>6, <2>1
    <2>3. live[i] = b[i + n]
        BY <1>6, <2>1
    <2>4. b[i + n] = past[Len(past) - Len(b) + (i + n)].now
        BY <1>3, <2>1
    <2> HIDE DEF past
    <2> QED BY <2>2, <2>3, <2>4
<1>9. ASSUME NEW i \in 1 .. Len(past) - Len(live)
      PROVE  past[i].at + Window <= clock + MaxStall
    <2>1. CASE n = 0 \/ i \in 1 .. Len(past) - Len(b)
        <3>1. i \in 1 .. Len(past) - Len(b)
            BY <2>1, <1>2, <1>3, <1>6
        <3> QED BY <3>1, <1>3
    <2>2. CASE n # 0 /\ i \notin 1 .. Len(past) - Len(b)
        <3> DEFINE last == Len(past) - Len(b) + n
        <3>1. n \in 1 .. n /\ n \in 1 .. Len(b)
            BY <2>2, <1>3
        <3>2. past[last].now <= Cutoff(t)
            BY <3>1, <1>3, <1>5
        <3>3. last \in 1 .. Len(past) /\ i \in 1 .. last
            BY <3>1, <1>2, <1>3, <1>6
        <3> HIDE DEF last
        <3> QED BY <3>2, <3>3, <1>1, StaleIsPast
    <2> QED BY <2>1, <2>2
<1> QED BY <1>4, <1>5, <1>6, <1>7, <1>8, <1>9 DEF live

-----------------------------------------------------------------------------
(* What a call leaves of the keys: of its own, the entries; of the others,  *)
(* nothing that breaks the invariant.                                       *)
LEMMA LeaveTypes ==
    ASSUME IInv, NEW t \in Threads, thread[t].pc = "lock",
           NEW entries \in Seq(Nat), Leave(t, entries)
    PROVE  /\ tracked' \subseteq Keys
           /\ bucket' \in [Keys -> Seq(Nat)]
           /\ \A k \in Keys \ tracked' : bucket'[k] = <<>>
           /\ bucket'[Key(t)] = entries
<1>1. Key(t) \in Keys
    BY LockedThread
<1>2. bucket \in [Keys -> Seq(Nat)] /\ tracked \subseteq Keys
    BY DEF IInv, TypeOK
<1>3. tracked' \subseteq Keys /\ bucket'[Key(t)] = entries
    BY <1>1, <1>2 DEF Leave
<1>4. <<>> \in Seq(Nat)
    OBVIOUS
<1>5. bucket' \in [Keys -> Seq(Nat)]
    BY <1>2, <1>4 DEF Leave
<1>6. \A k \in Keys \ tracked' : bucket'[k] = <<>>
    <2> SUFFICES ASSUME NEW k \in Keys \ tracked' PROVE bucket'[k] = <<>>
        OBVIOUS
    <2>1. k # Key(t) /\ (k \in Evicted(Cutoff(t)) \/ k \notin tracked)
        BY DEF Leave
    <2>2. k \notin tracked => bucket[k] = <<>>
        BY DEF IInv, TypeOK
    <2> QED BY <2>1, <2>2 DEF Leave
<1> QED BY <1>3, <1>5, <1>6

LEMMA LeaveKeepsOthers ==
    ASSUME IInv, NEW t \in Threads, thread[t].pc = "lock",
           NEW entries, Leave(t, entries), NEW k \in Keys, k # Key(t)
    PROVE  /\ Len(bucket'[k]) <= Len(log[k])
           /\ \A i \in 1 .. Len(bucket'[k]) :
                 bucket'[k][i] = log[k][Len(log[k]) - Len(bucket'[k]) + i].now
           /\ \A i \in 1 .. Len(log[k]) - Len(bucket'[k]) :
                 log[k][i].at + Window <= clock + MaxStall
<1>1. CASE k \in Evicted(Cutoff(t))
    <2>1. bucket'[k] = <<>>
        BY <1>1 DEF Leave
    <2>2. Len(bucket'[k]) = 0
        BY <2>1
    <2>3. Len(log[k]) \in Nat
        BY KeyTypes
    <2>4. \A i \in 1 .. Len(log[k]) : log[k][i].at + Window <= clock + MaxStall
        BY <1>1, EvictedIsPast
    <2> QED BY <2>2, <2>3, <2>4
<1>2. CASE k \notin Evicted(Cutoff(t))
    <2>1. bucket'[k] = bucket[k]
        BY <1>2 DEF Leave
    <2> QED BY <2>1 DEF IInv, BucketIsRecent, ForgottenIsPast
<1> QED BY <1>1, <1>2

-----------------------------------------------------------------------------
(* The steps outside of the critical section. *)
LEMMA TickStep == IInv /\ Tick => IInv'
<1> SUFFICES ASSUME IInv, Tick PROVE IInv'
    OBVIOUS
<1> USE LimiterAssumption
<1>1. clock \in Nat /\ clock' = clock + 1
    BY DEF IInv, TypeOK, Tick
<1>2. TypeOK'
    BY <1>1 DEF IInv, TypeOK, Tick
<1>3. BucketIsRecent' /\ LimitHolds'
    BY DEF IInv, BucketIsRecent, LimitHolds, Tick
<1>4. LogIsOrdered'
    <2> SUFFICES ASSUME NEW k \in Keys, NEW i \in 1 .. Len(log[k])
                 PROVE  /\ log[k][i].now <= log[k][i].at
                        /\ log[k][i].at <= log[k][i].now + MaxStall
                        /\ log[k][i].at <= clock'
                        /\ \A j \in i .. Len(log[k]) : log[k][i].at <= log[k][j].at
        BY DEF LogIsOrdered, Tick
    <2>1. log[k][i].at \in Nat
        BY KeyTypes
    <2>2. log[k][i].at <= clock
        BY DEF IInv, LogIsOrdered
    <2> DEFINE x == log[k][i].at
    <2>3. x <= clock'
        <3>1. x \in Nat /\ x <= clock
            BY <2>1, <2>2
        <3> HIDE DEF x
        <3> QED BY <3>1, <1>1
    <2> QED BY <2>3 DEF IInv, LogIsOrdered
<1>5. ForgottenIsPast'
    <2> SUFFICES ASSUME NEW k \in Keys, NEW i \in 1 .. Len(log[k]) - Len(bucket[k])
                 PROVE  log[k][i].at + Window <= clock' + MaxStall
        BY DEF ForgottenIsPast, Tick
    <2>1. bucket[k] \in Seq(Nat) /\ log[k] \in Seq(Grant)
        BY KeyTypes
    <2>2. i \in 1 .. Len(log[k])
        BY <2>1
    <2>3. log[k][i].at \in Nat
        BY <2>2, KeyTypes
    <2> DEFINE x == log[k][i].at
    <2>4. x \in Nat /\ x + Window <= clock + MaxStall
        BY <2>3 DEF IInv, ForgottenIsPast
    <2> HIDE DEF x
    <2>5. x + Window <= clock' + MaxStall
        BY <2>4, <1>1
    <2> QED BY <2>5 DEF x
<1>6. ReadingsAreRecent'
    <2> SUFFICES ASSUME NEW t \in Threads, thread[t].pc = "lock"
                 PROVE  thread[t].now <= clock' /\ clock' <= thread[t].now + MaxStall
        BY DEF IInv, ReadingsAreRecent, Tick, Key
    <2>1. thread[t].now \in Nat /\ thread[t].now <= clock
        BY LockedThread
    <2>2. clock < thread[t].now + MaxStall
        BY DEF Tick
    <2> QED BY <1>1, <2>1, <2>2
<1> QED BY <1>2, <1>3, <1>4, <1>5, <1>6 DEF IInv

(* The limits, the buckets and the history change in no step of the         *)
(* threads outside of the critical section.                                 *)
LEMMA ThreadOnlyStep ==
    ASSUME IInv, UNCHANGED <<clock, limit, tracked, bucket, log>>,
           thread' \in [Threads -> ThreadState], ReadingsAreRecent'
    PROVE  IInv'
<1>1. TypeOK'
    BY DEF IInv, TypeOK
<1>2. BucketIsRecent' /\ LimitHolds'
    BY DEF IInv, BucketIsRecent, LimitHolds
<1>3. LogIsOrdered' /\ ForgottenIsPast'
    BY DEF IInv, LogIsOrdered, ForgottenIsPast
<1> QED BY <1>1, <1>2, <1>3 DEF IInv

LEMMA RequestStep ==
    ASSUME IInv, NEW t \in Threads, Request(t)
    PROVE  IInv'
<1>1. PICK route \in Routes :
          thread' = [thread EXCEPT ![t] = [IdleThread EXCEPT !.pc = "read",
                                                             !.checks = route]]
    BY DEF Request
<1>2. route \in Seq(Keys) /\ route # <<>>
    BY LimiterAssumption
<1>3. thread \in [Threads -> ThreadState]
    BY DEF IInv, TypeOK
<1>4. [IdleThread EXCEPT !.pc = "read", !.checks = route] \in ThreadState
    BY <1>2 DEF IdleThread, ThreadState, ThreadPc
<1>5. thread' \in [Threads -> ThreadState]
    BY <1>1, <1>3, <1>4
<1>6. UNCHANGED <<clock, limit, tracked, bucket, log>>
    BY DEF Request
<1>7. ReadingsAreRecent'
    <2> SUFFICES ASSUME NEW u \in Threads
                 PROVE  /\ thread'[u].pc \in {"read", "lock"} => thread'[u].checks # <<>>
                        /\ thread'[u].pc = "lock" =>
                              /\ thread'[u].now <= clock
                              /\ clock <= thread'[u].now + MaxStall
                              /\ Head(thread'[u].checks) \notin Reloadable =>
                                    thread'[u].limit = limit[Head(thread'[u].checks)]
        BY <1>6 DEF ReadingsAreRecent, Key
    <2>1. CASE u = t
        <3>1. thread'[u] = [IdleThread EXCEPT !.pc = "read", !.checks = route]
            BY <1>1, <1>3, <2>1
        <3> QED BY <3>1, <1>2 DEF IdleThread
    <2>2. CASE u # t
        <3>1. thread'[u] = thread[u]
            BY <1>1, <1>3, <2>2
        <3> QED BY <3>1 DEF IInv, ReadingsAreRecent, Key
    <2> QED BY <2>1, <2>2
<1> QED BY <1>5, <1>6, <1>7, ThreadOnlyStep

LEMMA ReadClockStep ==
    ASSUME IInv, NEW t \in Threads, ReadClock(t)
    PROVE  IInv'
<1>1. thread \in [Threads -> ThreadState] /\ clock \in Nat /\ limit \in [Keys -> Nat]
    BY DEF IInv, TypeOK
<1>2. thread[t].checks \in Seq(Keys) /\ thread[t].checks # <<>>
    BY <1>1 DEF ThreadState, IInv, ReadingsAreRecent, ReadClock
<1>3. limit[Key(t)] \in Nat
    BY <1>1, <1>2 DEF Key
<1> DEFINE new == [thread[t] EXCEPT !.pc = "lock", !.now = clock, !.limit = limit[Key(t)]]
<1>4. thread' = [thread EXCEPT ![t] = new]
    BY <1>1 DEF ReadClock
<1>5. /\ new \in ThreadState /\ new.pc = "lock" /\ new.now = clock
      /\ new.limit = limit[Key(t)] /\ new.checks = thread[t].checks
    <2>1. thread[t] \in ThreadState /\ "lock" \in ThreadPc
        BY <1>1 DEF ThreadPc
    <2> QED BY <2>1, <1>1, <1>3 DEF ThreadState
<1> HIDE DEF new
<1>6. thread' \in [Threads -> ThreadState]
    BY <1>1, <1>4, <1>5
<1>7. UNCHANGED <<clock, limit, tracked, bucket, log>>
    BY DEF ReadClock
<1>8. ReadingsAreRecent'
    <2> SUFFICES ASSUME NEW u \in Threads
                 PROVE  /\ thread'[u].pc \in {"read", "lock"} => thread'[u].checks # <<>>
                        /\ thread'[u].pc = "lock" =>
                              /\ thread'[u].now <= clock
                              /\ clock <= thread'[u].now + MaxStall
                              /\ Head(thread'[u].checks) \notin Reloadable =>
                                    thread'[u].limit = limit[Head(thread'[u].checks)]
        BY <1>7 DEF ReadingsAreRecent, Key
    <2>1. CASE u = t
        <3>1. thread'[u] = new
            BY <1>1, <1>4, <2>1
        <3>2. clock <= clock /\ clock <= clock + MaxStall
            BY <1>1, LimiterAssumption
        <3> QED BY <3>1, <3>2, <1>2, <1>5 DEF Key
    <2>2. CASE u # t
        <3>1. thread'[u] = thread[u]
            BY <1>1, <1>4, <2>2
        <3> QED BY <3>1 DEF IInv, ReadingsAreRecent, Key
    <2> QED BY <2>1, <2>2
<1> QED BY <1>6, <1>7, <1>8, ThreadOnlyStep

LEMMA ChangeLimitStep ==
    ASSUME IInv, NEW k \in Reloadable, ChangeLimit(k)
    PROVE  IInv'
<1>1. PICK new \in NewLimits : limit' = [limit EXCEPT ![k] = new]
    BY DEF ChangeLimit
<1>2. new \in Nat
    BY LimiterAssumption
<1>3. limit \in [Keys -> Nat]
    BY DEF IInv, TypeOK
<1>4. \A q \in Keys \ Reloadable : limit'[q] = limit[q]
    BY <1>1, <1>3
<1>5. UNCHANGED <<clock, tracked, bucket, thread, log>>
    BY DEF ChangeLimit
<1>6. TypeOK'
    BY <1>1, <1>2, <1>3, <1>5 DEF IInv, TypeOK
<1>7. BucketIsRecent' /\ LogIsOrdered' /\ ForgottenIsPast'
    BY <1>5 DEF IInv, BucketIsRecent, LogIsOrdered, ForgottenIsPast
<1>8. ReadingsAreRecent'
    <2>1. \A t \in Threads : thread[t].pc = "lock" => Key(t) \in Keys
        BY LockedThread
    <2>2. \A t \in Threads : Key(t)' = Key(t)
        BY <1>5 DEF Key
    <2> QED BY <2>1, <2>2, <1>4, <1>5 DEF IInv, ReadingsAreRecent
<1>9. LimitHolds'
    BY <1>4, <1>5 DEF IInv, LimitHolds
<1> QED BY <1>6, <1>7, <1>8, <1>9 DEF IInv

-----------------------------------------------------------------------------
(* After a call the thread is outside of the critical section. *)
LEMMA ThreadLeaves ==
    ASSUME IInv, NEW t \in Threads, NEW new \in ThreadState, new.pc # "lock",
           new.pc = "read" => new.checks # <<>>,
           thread' = [thread EXCEPT ![t] = new], UNCHANGED <<clock, limit>>
    PROVE  thread' \in [Threads -> ThreadState] /\ ReadingsAreRecent'
<1>1. thread \in [Threads -> ThreadState]
    BY DEF IInv, TypeOK
<1>2. thread' \in [Threads -> ThreadState]
    BY <1>1
<1>3. ASSUME NEW u \in Threads
      PROVE  /\ thread'[u].pc \in {"read", "lock"} => thread'[u].checks # <<>>
             /\ thread'[u].pc = "lock" =>
                   /\ thread'[u].now <= clock
                   /\ clock <= thread'[u].now + MaxStall
                   /\ Head(thread'[u].checks) \notin Reloadable =>
                         thread'[u].limit = limit[Head(thread'[u].checks)]
    <2>1. CASE u = t
        <3>1. thread'[u] = new
            BY <1>1, <2>1
        <3> QED BY <3>1
    <2>2. CASE u # t
        <3>1. thread'[u] = thread[u]
            BY <1>1, <2>2
        <3> QED BY <3>1 DEF IInv, ReadingsAreRecent, Key
    <2> QED BY <2>1, <2>2
<1>4. ReadingsAreRecent'
    BY <1>3 DEF ReadingsAreRecent, Key
<1> QED BY <1>2, <1>4

(* A request that is turned away leaves what is in the window. *)
LEMMA TurnedAwayStep ==
    ASSUME IInv, NEW t \in Threads, thread[t].pc = "lock",
           Leave(t, LiveBucket(t)), UNCHANGED <<clock, limit, log>>,
           NEW new \in ThreadState, new.pc \notin {"lock", "read"},
           thread' = [thread EXCEPT ![t] = new]
    PROVE  IInv'
<1>1. LiveBucket(t) \in Seq(Nat)
    BY LiveBucketFacts
<1>2. TypeOK'
    BY <1>1, LeaveTypes, ThreadLeaves DEF IInv, TypeOK
<1>3. ReadingsAreRecent'
    BY ThreadLeaves
<1>4. LogIsOrdered' /\ LimitHolds'
    BY DEF IInv, LogIsOrdered, LimitHolds
<1>5. ASSUME NEW k \in Keys
      PROVE  /\ Len(bucket'[k]) <= Len(log[k])
             /\ \A i \in 1 .. Len(bucket'[k]) :
                   bucket'[k][i] = log[k][Len(log[k]) - Len(bucket'[k]) + i].now
             /\ \A i \in 1 .. Len(log[k]) - Len(bucket'[k]) :
                   log[k][i].at + Window <= clock + MaxStall
    <2>1. CASE k = Key(t)
        <3>1. bucket'[k] = LiveBucket(t)
            BY <1>1, <2>1, LeaveTypes
        <3> QED BY <2>1, <3>1, LiveBucketFacts
    <2>2. CASE k # Key(t)
        BY <2>2, LeaveKeepsOthers
    <2> QED BY <2>1, <2>2
<1>6. BucketIsRecent' /\ ForgottenIsPast'
    BY <1>5 DEF BucketIsRecent, ForgottenIsPast
<1> QED BY <1>2, <1>3, <1>4, <1>6 DEF IInv

(* The quotient rounded up is a natural number. *)
LEMMA RetryAfterType ==
    ASSUME NEW ticks \in Int
    PROVE  RetryAfter(ticks) \in Nat
<1>1. TicksPerSecond \in Nat /\ TicksPerSecond > 0
    BY LimiterAssumption
<1>2. CASE ticks < 1
    BY <1>2 DEF RetryAfter
<1>3. CASE ~ (ticks < 1)
    <2> DEFINE n == ticks + TicksPerSecond - 1
               q == n \div TicksPerSecond
    <2>1. n \in Int /\ n >= 0
        BY <1>1, <1>3
    <2>2. q \in Int /\ q >= 0
        <3> HIDE DEF n
        <3> QED BY <1>1, <2>1
    <2>3. RetryAfter(ticks) = q
        BY <1>3 DEF RetryAfter
    <2> HIDE DEF q
    <2> QED BY <2>2, <2>3
<1> QED BY <1>2, <1>3

(* A thread that has been answered carries nothing on. *)
LEMMA IdleThreadType ==
    ASSUME NEW pc \in ThreadPc, NEW retry \in Nat
    PROVE  /\ IdleThread \in ThreadState
           /\ [IdleThread EXCEPT !.pc = pc] \in ThreadState
           /\ [IdleThread EXCEPT !.pc = pc, !.retry = retry] \in ThreadState
<1>1. <<>> \in Seq(Keys)
    OBVIOUS
<1>2. IdleThread \in ThreadState
    BY <1>1 DEF IdleThread, ThreadState, ThreadPc
<1> QED BY <1>2 DEF ThreadState

LEMMA RejectStep ==
    ASSUME IInv, NEW t \in Threads, Reject(t)
    PROVE  IInv'
<1>1. /\ thread[t].pc = "lock" /\ Leave(t, LiveBucket(t))
      /\ UNCHANGED <<clock, limit, log>>
    BY DEF Reject
<1> DEFINE ticks == LiveBucket(t)[1] + Window - thread[t].now
           new == [IdleThread EXCEPT !.pc = "limited", !.retry = RetryAfter(ticks)]
<1>2. thread' = [thread EXCEPT ![t] = new]
    BY DEF Reject
<1>3. ticks \in Int
    <2>1. LiveBucket(t) \in Seq(Nat) /\ LiveBucket(t) # <<>>
        BY <1>1, LiveBucketFacts DEF Reject
    <2>2. LiveBucket(t)[1] \in Nat
        BY <2>1
    <2>3. thread[t].now \in Nat /\ Window \in Nat
        BY <1>1, LockedThread
    <2> QED BY <2>2, <2>3
<1> HIDE DEF ticks
<1>4. RetryAfter(ticks) \in Nat
    BY <1>3, RetryAfterType
<1>5. new \in ThreadState /\ new.pc \notin {"lock", "read"}
    BY <1>4, IdleThreadType DEF IdleThread, ThreadPc
<1> HIDE DEF new
<1> QED BY <1>1, <1>2, <1>5, TurnedAwayStep

LEMMA RejectFailsStep ==
    ASSUME IInv, NEW t \in Threads, RejectFails(t)
    PROVE  IInv'
<1>1. /\ thread[t].pc = "lock" /\ Leave(t, LiveBucket(t))
      /\ UNCHANGED <<clock, limit, log>>
    BY DEF RejectFails
<1> DEFINE new == [IdleThread EXCEPT !.pc = "error"]
<1>2. thread' = [thread EXCEPT ![t] = new]
    BY DEF RejectFails
<1>3. new \in ThreadState /\ new.pc \notin {"lock", "read"}
    BY IdleThreadType DEF IdleThread, ThreadPc
<1> HIDE DEF new
<1> QED BY <1>1, <1>2, <1>3, TurnedAwayStep

-----------------------------------------------------------------------------
(* The request goes on with its next check, if it has one. *)
LEMMA NextCheckType ==
    ASSUME NEW th \in ThreadState, th.checks # <<>>
    PROVE  /\ NextCheck(th) \in ThreadState
           /\ NextCheck(th).pc # "lock"
           /\ NextCheck(th).pc = "read" => NextCheck(th).checks # <<>>
<1>1. th.checks \in Seq(Keys)
    BY DEF ThreadState
<1>2. CASE Len(th.checks) = 1
    BY <1>2, IdleThreadType DEF NextCheck, IdleThread, ThreadPc
<1>3. CASE Len(th.checks) # 1
    <2> DEFINE rest == Tail(th.checks)
    <2>1. rest \in Seq(Keys) /\ Len(rest) > 0
        <3>1. Len(th.checks) \in Nat \ {0}
            BY <1>1, EmptySeq
        <3>2. rest \in Seq(Keys) /\ Len(rest) = Len(th.checks) - 1
            BY <1>1, HeadTailProperties
        <3> DEFINE n == Len(th.checks)
                   m == Len(rest)
        <3>3. n \in Nat \ {0} /\ n # 1 /\ m = n - 1
            BY <3>1, <3>2, <1>3
        <3> HIDE DEF n, m
        <3>4. m > 0
            BY <3>3
        <3> QED BY <3>2, <3>4 DEF m
    <2> HIDE DEF rest
    <2>2. rest # <<>>
        BY <2>1, EmptySeq
    <2>3. NextCheck(th) = [IdleThread EXCEPT !.pc = "read", !.checks = rest]
        BY <1>3 DEF NextCheck, rest
    <2>4. [IdleThread EXCEPT !.pc = "read", !.checks = rest] \in ThreadState
        BY <2>1 DEF IdleThread, ThreadState, ThreadPc
    <2> QED BY <2>2, <2>3, <2>4 DEF IdleThread
<1> QED BY <1>2, <1>3

(* What a call that lets an event through does to the history and to the    *)
(* bucket of its key.                                                       *)
LEMMA AdmitFacts ==
    ASSUME IInv, NEW t \in Threads, Admit(t)
    PROVE  LET k == Key(t)
           IN  /\ log' \in [Keys -> Seq(Grant)]
               /\ log'[k] = Append(log[k], [at |-> clock, now |-> thread[t].now])
               /\ \A q \in Keys \ {k} : log'[q] = log[q]
               /\ bucket'[k] = Append(LiveBucket(t), thread[t].now)
<1>1. thread[t].pc = "lock" /\ Leave(t, Append(LiveBucket(t), thread[t].now))
    BY DEF Admit
<1>2. LiveBucket(t) \in Seq(Nat) /\ thread[t].now \in Nat /\ clock \in Nat /\ Key(t) \in Keys
    BY <1>1, LiveBucketFacts, LockedThread
<1>3. Append(LiveBucket(t), thread[t].now) \in Seq(Nat)
    BY <1>2
<1>4. bucket'[Key(t)] = Append(LiveBucket(t), thread[t].now)
    BY <1>1, <1>3, LeaveTypes
<1> DEFINE g == [at |-> clock, now |-> thread[t].now]
           k == Key(t)
<1>5. g \in Grant
    BY <1>2 DEF Grant
<1>6. log \in [Keys -> Seq(Grant)] /\ log' = [log EXCEPT ![k] = Append(log[k], g)]
    BY DEF Admit, IInv, TypeOK
<1> HIDE DEF g
<1>7. log' \in [Keys -> Seq(Grant)] /\ log'[k] = Append(log[k], g)
    BY <1>2, <1>5, <1>6
<1>8. \A q \in Keys \ {k} : log'[q] = log[q]
    BY <1>6
<1> QED BY <1>4, <1>7, <1>8 DEF g

LEMMA AdmitTypes ==
    ASSUME IInv, NEW t \in Threads, Admit(t)
    PROVE  TypeOK' /\ ReadingsAreRecent'
<1>1. /\ thread[t].pc = "lock" /\ Leave(t, Append(LiveBucket(t), thread[t].now))
      /\ thread' = [thread EXCEPT ![t] = NextCheck(thread[t])]
      /\ UNCHANGED <<clock, limit>>
    BY DEF Admit
<1>2. LiveBucket(t) \in Seq(Nat) /\ thread[t].now \in Nat /\ thread[t] \in ThreadState
    BY <1>1, LiveBucketFacts, LockedThread
<1>3. Append(LiveBucket(t), thread[t].now) \in Seq(Nat)
    BY <1>2
<1>4. thread[t].checks # <<>>
    BY <1>1 DEF IInv, ReadingsAreRecent
<1> DEFINE new == NextCheck(thread[t])
<1>5. new \in ThreadState /\ new.pc # "lock" /\ (new.pc = "read" => new.checks # <<>>)
    BY <1>2, <1>4, NextCheckType
<1> HIDE DEF new
<1>6. thread' \in [Threads -> ThreadState] /\ ReadingsAreRecent'
    <2>1. thread' = [thread EXCEPT ![t] = new]
        BY <1>1 DEF new
    <2> QED BY <1>1, <1>5, <2>1, ThreadLeaves
<1>7. log' \in [Keys -> Seq(Grant)]
    BY AdmitFacts
<1>8. /\ tracked' \subseteq Keys
      /\ bucket' \in [Keys -> Seq(Nat)]
      /\ \A k \in Keys \ tracked' : bucket'[k] = <<>>
    BY <1>1, <1>3, LeaveTypes
<1> QED BY <1>1, <1>6, <1>7, <1>8 DEF IInv, TypeOK

(* The deque of the key gains the reading of the event that is let through. *)
LEMMA AdmitBuckets ==
    ASSUME IInv, NEW t \in Threads, Admit(t)
    PROVE  BucketIsRecent' /\ ForgottenIsPast'
<1> DEFINE key == Key(t)
           live == LiveBucket(t)
           past == log[key]
           now == thread[t].now
           g == [at |-> clock, now |-> now]
<1>1. /\ thread[t].pc = "lock" /\ Leave(t, Append(live, now))
      /\ UNCHANGED <<clock, limit>>
    BY DEF Admit
<1>2. /\ live \in Seq(Nat) /\ Len(live) \in Nat /\ Len(live) <= Len(past)
      /\ \A i \in 1 .. Len(live) : live[i] = past[Len(past) - Len(live) + i].now
      /\ \A i \in 1 .. Len(past) - Len(live) : past[i].at + Window <= clock + MaxStall
    <2>1. live \in Seq(Nat)
        BY <1>1, LiveBucketFacts
    <2>2. Len(live) \in Nat
        <3> HIDE DEF live
        <3> QED BY <2>1
    <2> QED BY <1>1, <2>1, <2>2, LiveBucketFacts, Zenon
<1>3. key \in Keys /\ past \in Seq(Grant) /\ Len(past) \in Nat
    BY <1>1, LockedThread, KeyTypes
<1>4. log'[key] = Append(past, g) /\ bucket'[key] = Append(live, now)
    BY AdmitFacts
<1>5. \A q \in Keys \ {key} : log'[q] = log[q]
    BY AdmitFacts
<1>6. g.now = now
    OBVIOUS
<1>7. ASSUME NEW k \in Keys, k # key
      PROVE  /\ Len(bucket'[k]) <= Len(log'[k])
             /\ \A i \in 1 .. Len(bucket'[k]) :
                   bucket'[k][i] = log'[k][Len(log'[k]) - Len(bucket'[k]) + i].now
             /\ \A i \in 1 .. Len(log'[k]) - Len(bucket'[k]) :
                   log'[k][i].at + Window <= clock' + MaxStall
    <2> HIDE DEF live, now, past, g
    <2> QED BY <1>1, <1>5, <1>7, LeaveKeepsOthers
<1> HIDE DEF key, live, past, now, g
<1>8. /\ Len(log'[key]) = Len(past) + 1 /\ Len(bucket'[key]) = Len(live) + 1
      /\ \A i \in 1 .. Len(past) : log'[key][i] = past[i]
      /\ log'[key][Len(past) + 1] = g
      /\ \A i \in 1 .. Len(live) : bucket'[key][i] = live[i]
      /\ bucket'[key][Len(live) + 1] = now
    BY <1>2, <1>3, <1>4
<1>9. ASSUME NEW i \in 1 .. Len(bucket'[key])
      PROVE  bucket'[key][i] = log'[key][Len(log'[key]) - Len(bucket'[key]) + i].now
    <2>1. Len(log'[key]) - Len(bucket'[key]) + i = Len(past) - Len(live) + i
        BY <1>2, <1>3, <1>8
    <2>2. CASE i \in 1 .. Len(live)
        <3>1. Len(past) - Len(live) + i \in 1 .. Len(past)
            BY <1>2, <1>3, <2>2
        <3> QED BY <1>2, <1>8, <2>1, <2>2, <3>1
    <2>3. CASE i = Len(live) + 1
        <3>1. Len(past) - Len(live) + i = Len(past) + 1
            BY <1>2, <1>3, <2>3
        <3> QED BY <1>6, <1>8, <2>1, <2>3, <3>1
    <2> QED BY <1>2, <1>8, <2>2, <2>3
<1>10. ASSUME NEW i \in 1 .. Len(log'[key]) - Len(bucket'[key])
       PROVE  log'[key][i].at + Window <= clock' + MaxStall
    <2>1. i \in 1 .. Len(past) - Len(live) /\ i \in 1 .. Len(past)
        BY <1>2, <1>3, <1>8
    <2> QED BY <1>1, <1>2, <1>8, <2>1
<1>11. Len(bucket'[key]) <= Len(log'[key])
    BY <1>2, <1>3, <1>8
<1>12. BucketIsRecent'
    BY <1>7, <1>9, <1>11 DEF BucketIsRecent
<1>13. ForgottenIsPast'
    BY <1>7, <1>10 DEF ForgottenIsPast
<1> QED BY <1>12, <1>13

(* The history stays in order, and the new event is a window after the one  *)
(* limit places before it: that one is not in the deque any more.           *)
LEMMA AdmitLog ==
    ASSUME IInv, NEW t \in Threads, Admit(t)
    PROVE  LogIsOrdered' /\ LimitHolds'
<1> DEFINE key == Key(t)
           live == LiveBucket(t)
           past == log[key]
           now == thread[t].now
           max == thread[t].limit
           g == [at |-> clock, now |-> now]
<1>1. thread[t].pc = "lock" /\ UNCHANGED <<clock, limit>> /\ ~ Full(live, max)
    BY DEF Admit
<1>2. /\ live \in Seq(Nat) /\ Len(live) \in Nat /\ Len(live) <= Len(past)
      /\ \A i \in 1 .. Len(past) - Len(live) : past[i].at + Window <= clock + MaxStall
    BY <1>1, LiveBucketFacts
<1>3. /\ key \in Keys /\ past \in Seq(Grant) /\ Len(past) \in Nat
      /\ now \in Nat /\ max \in Nat /\ clock \in Nat /\ MaxStall \in Nat
      /\ now <= clock /\ clock <= now + MaxStall /\ Window \in Nat
    BY <1>1, LockedThread, KeyTypes
<1>4. log'[key] = Append(past, g)
    BY AdmitFacts
<1>5. \A q \in Keys \ {key} : log'[q] = log[q]
    BY AdmitFacts
<1>6. g.now = now /\ g.at = clock
    OBVIOUS
<1>7. key \notin Reloadable => limit[key] = max
    BY <1>1 DEF IInv, ReadingsAreRecent
<1>8. Len(live) < max
    <2> HIDE DEF live, max
    <2> QED BY <1>1, <1>2, <1>3 DEF Full
<1>9. \A i \in 1 .. Len(past) :
         /\ past[i].at \in Nat /\ past[i].now \in Nat
         /\ past[i].at <= clock
    BY <1>3, KeyTypes DEF IInv, LogIsOrdered
<1>10. \A i \in 1 .. Len(past) :
         /\ past[i].now <= past[i].at
         /\ past[i].at <= past[i].now + MaxStall
         /\ \A j \in i .. Len(past) : past[i].at <= past[j].at
    BY <1>3 DEF IInv, LogIsOrdered
<1>11. key \notin Reloadable =>
          \A i \in 1 .. Len(past) - limit[key] :
              past[i + limit[key]].at + MaxStall >= past[i].at + Window
    BY <1>3 DEF IInv, LimitHolds
<1> HIDE DEF key, live, past, now, max, g
<1>12. /\ Len(log'[key]) = Len(past) + 1
       /\ \A i \in 1 .. Len(past) : log'[key][i] = past[i]
       /\ log'[key][Len(past) + 1] = g
    BY <1>3, <1>4
<1>13. ASSUME NEW i \in 1 .. Len(log'[key])
       PROVE  /\ log'[key][i].now <= log'[key][i].at
              /\ log'[key][i].at <= log'[key][i].now + MaxStall
              /\ log'[key][i].at <= clock'
              /\ \A j \in i .. Len(log'[key]) : log'[key][i].at <= log'[key][j].at
    <2>1. CASE i \in 1 .. Len(past)
        <3>1. ASSUME NEW j \in i .. Len(log'[key])
              PROVE  log'[key][i].at <= log'[key][j].at
            <4>1. CASE j \in i .. Len(past)
                <5>1. j \in 1 .. Len(past)
                    BY <2>1, <4>1, <1>3
                <5> QED BY <1>10, <1>12, <2>1, <4>1, <5>1
            <4>2. CASE j = Len(past) + 1
                BY <1>6, <1>9, <1>12, <2>1, <4>2
            <4> QED BY <1>3, <1>12, <4>1, <4>2
        <3> QED BY <1>1, <1>9, <1>10, <1>12, <2>1, <3>1
    <2>2. CASE i = Len(past) + 1
        <3>1. \A j \in i .. Len(log'[key]) : j = i
            BY <1>3, <1>12, <2>2
        <3>2. log'[key][i].at = clock /\ log'[key][i].now = now
            BY <1>6, <1>12, <2>2
        <3> QED BY <1>1, <1>3, <3>1, <3>2
    <2> QED BY <1>3, <1>12, <2>1, <2>2
<1>14. ASSUME key \notin Reloadable, NEW i \in 1 .. Len(log'[key]) - limit[key]
       PROVE  log'[key][i + limit[key]].at + MaxStall >= log'[key][i].at + Window
    <2>1. limit[key] = max
        BY <1>7, <1>14
    <2>2. i \in 1 .. Len(past) + 1 - max
        BY <1>3, <1>12, <2>1
    <2>3. i \in 1 .. Len(past)
        BY <1>2, <1>3, <1>8, <2>2
    <2>4. CASE i + max = Len(past) + 1
        <3>1. i \in 1 .. Len(past) - Len(live)
            BY <1>2, <1>3, <1>8, <2>3, <2>4
        <3>2. past[i].at + Window <= clock + MaxStall
            BY <1>2, <3>1
        <3>3. log'[key][i + max].at = clock /\ log'[key][i] = past[i]
            BY <1>6, <1>12, <2>3, <2>4
        <3>4. past[i].at \in Nat
            BY <1>9, <2>3
        <3> DEFINE x == past[i].at
        <3>5. clock + MaxStall >= x + Window
            <4>1. x \in Nat /\ x + Window <= clock + MaxStall
                BY <3>2, <3>4
            <4> HIDE DEF x
            <4> QED BY <4>1, <1>3
        <3> QED BY <2>1, <3>3, <3>5
    <2>5. CASE i + max # Len(past) + 1
        <3>1. i \in 1 .. Len(past) - max /\ i + max \in 1 .. Len(past)
            BY <1>3, <2>2, <2>3, <2>5
        <3> QED BY <1>11, <1>12, <1>14, <2>1, <2>3, <3>1
    <2> QED BY <2>4, <2>5
<1>15. LogIsOrdered'
    <2>1. ASSUME NEW k \in Keys, k # key, NEW i \in 1 .. Len(log'[k])
          PROVE  /\ log'[k][i].now <= log'[k][i].at
                 /\ log'[k][i].at <= log'[k][i].now + MaxStall
                 /\ log'[k][i].at <= clock'
                 /\ \A j \in i .. Len(log'[k]) : log'[k][i].at <= log'[k][j].at
        BY <1>1, <1>5, <2>1 DEF IInv, LogIsOrdered
    <2> QED BY <1>13, <2>1 DEF LogIsOrdered
<1>16. LimitHolds'
    <2>1. ASSUME NEW k \in Keys \ Reloadable, k # key,
                 NEW i \in 1 .. Len(log'[k]) - limit'[k]
          PROVE  log'[k][i + limit'[k]].at + MaxStall >= log'[k][i].at + Window
        BY <1>1, <1>5, <2>1 DEF IInv, LimitHolds
    <2> QED BY <1>1, <1>14, <2>1 DEF LimitHolds
<1> QED BY <1>15, <1>16

-----------------------------------------------------------------------------
LEMMA NextStep == IInv /\ [Next]_vars => IInv'
<1> SUFFICES ASSUME IInv, [Next]_vars PROVE IInv'
    OBVIOUS
<1>1. CASE Tick
    BY <1>1, TickStep
<1>2. CASE \E k \in Reloadable : ChangeLimit(k)
    BY <1>2, ChangeLimitStep
<1>3. CASE \E t \in Threads : Request(t)
    BY <1>3, RequestStep
<1>4. CASE \E t \in Threads : ReadClock(t)
    BY <1>4, ReadClockStep
<1>5. ASSUME NEW t \in Threads, Allow(t) PROVE IInv'
    <2>1. CASE Admit(t)
        BY <2>1, AdmitTypes, AdmitBuckets, AdmitLog DEF IInv
    <2>2. CASE Reject(t)
        BY <2>2, RejectStep
    <2>3. CASE RejectFails(t)
        BY <2>3, RejectFailsStep
    <2> QED BY <1>5, <2>1, <2>2, <2>3 DEF Allow
<1>6. CASE UNCHANGED vars
    <2>1. UNCHANGED <<clock, limit, tracked, bucket, log>> /\ thread' = thread
        BY <1>6 DEF vars
    <2>2. thread' \in [Threads -> ThreadState] /\ ReadingsAreRecent'
        BY <2>1 DEF IInv, TypeOK, ReadingsAreRecent, Key
    <2> QED BY <2>1, <2>2, ThreadOnlyStep
<1> QED BY <1>1, <1>2, <1>3, <1>4, <1>5, <1>6 DEF Next

(* The invariant of the limiter: every other theorem is a part of it. *)
THEOREM Invariance == Spec => []IInv
<1> QED BY InitIInv, NextStep, PTL DEF Spec

(* The dictionary and the deques of allow have the form the code relies on: *)
(* a key that is not in the dictionary has no events.                       *)
THEOREM TypeCorrect == Spec => []TypeOK
<1>1. IInv => TypeOK
    BY DEF IInv
<1> QED BY <1>1, Invariance, PTL

(* No key is let through more often than its limit in any window, but for   *)
(* the time for which a thread is held up between reading the clock and     *)
(* taking the lock; evicting buckets when there are too many keys does not  *)
(* weaken it.                                                               *)
THEOREM LimitIsRespected == Spec => []LimitHolds
<1>1. IInv => LimitHolds
    BY DEF IInv
<1> QED BY <1>1, Invariance, PTL

-----------------------------------------------------------------------------
(* What a call may do. *)

(* The dictionary is finite, and the deque of a key whose limit is never    *)
(* changed holds no more entries than the limit.                            *)
SizeInv ==
    /\ IsFiniteSet(tracked)
    /\ \A k \in Keys \ Reloadable : Len(bucket[k]) <= limit[k]

(* What popleft leaves. *)
LEMMA LiveStart ==
    ASSUME NEW b \in Seq(Nat), NEW cutoff \in Int
    PROVE  /\ Live(b, cutoff) \in Seq(Nat)
           /\ Len(Live(b, cutoff)) \in 0 .. Len(b)
           /\ Live(b, cutoff) # <<>> => Live(b, cutoff)[1] > cutoff
           /\ b # <<>> /\ b[1] <= cutoff => Len(Live(b, cutoff)) < Len(b)
<1>1. PICK n \in 0 .. Len(b) :
          /\ Live(b, cutoff) = SubSeq(b, n + 1, Len(b))
          /\ \A i \in 1 .. n : b[i] <= cutoff
          /\ n < Len(b) => b[n + 1] > cutoff
    BY LiveIsSuffix
<1> DEFINE live == SubSeq(b, n + 1, Len(b))
<1>2. Len(b) \in Nat /\ n \in Nat /\ n <= Len(b)
    OBVIOUS
<1>3. /\ live \in Seq(Nat)
      /\ Len(live) = Len(b) - n
      /\ \A i \in 1 .. Len(b) - n : live[i] = b[i + n]
    <2>1. CASE n < Len(b)
        <3>1. live \in Seq(Nat)
            BY <1>2
        <3>2. Len(live) = Len(b) - n
            BY <1>2, <2>1
        <3>3. \A i \in 1 .. Len(b) - n : live[i] = b[i + n]
            BY <1>2, <2>1
        <3> QED BY <3>1, <3>2, <3>3
    <2>2. CASE n = Len(b)
        BY <2>2
    <2> QED BY <1>2, <2>1, <2>2
<1> HIDE DEF live
<1>4. ASSUME live # <<>>
      PROVE  live[1] > cutoff
    <2>1. Len(live) # 0
        BY <1>3, <1>4, EmptySeq
    <2>2. n < Len(b) /\ 1 \in 1 .. Len(b) - n
        BY <1>2, <1>3, <2>1
    <2>3. live[1] = b[1 + n] /\ 1 + n = n + 1
        BY <1>2, <1>3, <2>2
    <2> QED BY <1>1, <2>2, <2>3
<1>5. ASSUME b # <<>>, b[1] <= cutoff
      PROVE  n # 0
    <2>1. Len(b) # 0 /\ b[1] \in Nat
        BY <1>5, EmptySeq
    <2>2. n = 0 => b[1] > cutoff
        BY <1>1, <1>2, <2>1
    <2> QED BY <1>5, <2>1, <2>2
<1> QED BY <1>1, <1>2, <1>3, <1>4, <1>5 DEF live

(* What the call of a thread finds in the bucket of its key. *)
LEMMA LiveBucketStart ==
    ASSUME IInv, NEW t \in Threads, thread[t].pc = "lock"
    PROVE  /\ LiveBucket(t) \in Seq(Nat) /\ Len(LiveBucket(t)) \in Nat
           /\ Len(LiveBucket(t)) <= Len(bucket[Key(t)])
           /\ LiveBucket(t) # <<>> => LiveBucket(t)[1] > Cutoff(t)
<1> DEFINE b == IF Key(t) \in Evicted(Cutoff(t)) THEN <<>> ELSE bucket[Key(t)]
<1>1. Key(t) \in Keys /\ Cutoff(t) \in Int
    BY LockedThread
<1>2. bucket[Key(t)] \in Seq(Nat)
    BY <1>1, KeyTypes
<1>3. b \in Seq(Nat) /\ Len(b) \in Nat /\ Len(b) <= Len(bucket[Key(t)])
    <2>1. CASE b = <<>>
        BY <1>2, <2>1
    <2>2. CASE b = bucket[Key(t)]
        BY <1>2, <2>2
    <2> QED BY <2>1, <2>2
<1>4. LiveBucket(t) = Live(b, Cutoff(t))
    BY DEF LiveBucket
<1> HIDE DEF b
<1>5. /\ Live(b, Cutoff(t)) \in Seq(Nat)
      /\ Len(Live(b, Cutoff(t))) \in 0 .. Len(b)
      /\ Live(b, Cutoff(t)) # <<>> => Live(b, Cutoff(t))[1] > Cutoff(t)
    BY <1>1, <1>3, LiveStart
<1>6. Len(bucket[Key(t)]) \in Nat
    BY <1>2
<1> QED BY <1>3, <1>4, <1>5, <1>6

(* A call leaves a finite dictionary, and no deque but its own is longer.   *)
LEMMA LeaveSizes ==
    ASSUME IInv, SizeInv, NEW t \in Threads, thread[t].pc = "lock",
           NEW entries \in Seq(Nat), Leave(t, entries), UNCHANGED limit,
           Key(t) \notin Reloadable => Len(entries) <= limit[Key(t)]
    PROVE  SizeInv'
<1>1. IsFiniteSet(tracked')
    <2>1. IsFiniteSet(tracked \ Evicted(Cutoff(t)))
        BY FS_Subset DEF SizeInv
    <2> QED BY <2>1, FS_AddElement DEF Leave
<1>2. ASSUME NEW k \in Keys \ Reloadable
      PROVE  Len(bucket'[k]) <= limit[k]
    <2>1. CASE k = Key(t)
        BY <2>1, LeaveTypes
    <2>2. CASE k # Key(t) /\ k \in Evicted(Cutoff(t))
        <3>1. bucket'[k] = <<>>
            BY <2>2 DEF Leave
        <3>2. Len(bucket'[k]) = 0 /\ limit[k] \in Nat
            BY <3>1 DEF IInv, TypeOK
        <3> QED BY <3>2
    <2>3. CASE k # Key(t) /\ k \notin Evicted(Cutoff(t))
        <3>1. bucket'[k] = bucket[k]
            BY <2>3 DEF Leave
        <3> QED BY <3>1 DEF SizeInv
    <2> QED BY <2>1, <2>2, <2>3
<1> QED BY <1>1, <1>2 DEF SizeInv

LEMMA StepSizeInv == IInv /\ SizeInv /\ [Next]_vars => SizeInv'
<1> SUFFICES ASSUME IInv, SizeInv, [Next]_vars
             PROVE  SizeInv'
    OBVIOUS
<1>1. ASSUME UNCHANGED <<tracked, bucket>>,
             \A k \in Keys \ Reloadable : limit'[k] = limit[k]
      PROVE  SizeInv'
    BY <1>1 DEF SizeInv
<1>2. CASE Tick \/ UNCHANGED vars
    BY <1>1, <1>2 DEF Tick, vars
<1>3. ASSUME NEW k \in Reloadable, ChangeLimit(k)
      PROVE  SizeInv'
    <2>1. limit \in [Keys -> Nat] /\ \E new : limit' = [limit EXCEPT ![k] = new]
        BY <1>3 DEF ChangeLimit, IInv, TypeOK
    <2>2. \A q \in Keys \ Reloadable : limit'[q] = limit[q]
        BY <2>1
    <2> QED BY <1>1, <1>3, <2>2 DEF ChangeLimit
<1>4. ASSUME NEW t \in Threads, Request(t) \/ ReadClock(t)
      PROVE  SizeInv'
    BY <1>1, <1>4 DEF Request, ReadClock
<1>5. ASSUME NEW t \in Threads, Admit(t)
      PROVE  SizeInv'
    <2> DEFINE live == LiveBucket(t)
               entries == Append(live, thread[t].now)
    <2>1. thread[t].pc = "lock" /\ Leave(t, entries) /\ UNCHANGED limit
          /\ ~Full(live, thread[t].limit)
        BY <1>5 DEF Admit
    <2>2. live \in Seq(Nat) /\ Len(live) \in Nat
        BY <2>1, LiveBucketStart
    <2>3. thread[t].now \in Nat /\ thread[t].limit \in Nat
        BY <2>1, LockedThread
    <2> HIDE DEF live
    <2>4. entries \in Seq(Nat) /\ Len(entries) = Len(live) + 1
        BY <2>2, <2>3
    <2>5. Len(live) < thread[t].limit
        BY <2>1, <2>2, <2>3 DEF Full
    <2>6. Key(t) \notin Reloadable => thread[t].limit = limit[Key(t)]
        BY <2>1 DEF IInv, ReadingsAreRecent
    <2> HIDE DEF entries
    <2>7. Key(t) \notin Reloadable => Len(entries) <= limit[Key(t)]
        BY <2>2, <2>3, <2>4, <2>5, <2>6
    <2> QED BY <2>1, <2>4, <2>7, LeaveSizes
<1>6. ASSUME NEW t \in Threads, Reject(t) \/ RejectFails(t)
      PROVE  SizeInv'
    <2>1. thread[t].pc = "lock" /\ Leave(t, LiveBucket(t)) /\ UNCHANGED limit
        BY <1>6 DEF Reject, RejectFails
    <2>2. LiveBucket(t) \in Seq(Nat) /\ Len(LiveBucket(t)) \in Nat
          /\ Len(LiveBucket(t)) <= Len(bucket[Key(t)])
        BY <2>1, LiveBucketStart
    <2>3. Key(t) \in Keys
        BY <2>1, LockedThread
    <2>4. bucket[Key(t)] \in Seq(Nat) /\ limit[Key(t)] \in Nat
        BY <2>3 DEF IInv, TypeOK
    <2>5. Len(bucket[Key(t)]) \in Nat
        BY <2>4
    <2>6. Key(t) \notin Reloadable => Len(bucket[Key(t)]) <= limit[Key(t)]
        BY <2>3 DEF SizeInv
    <2>7. Key(t) \notin Reloadable => Len(LiveBucket(t)) <= limit[Key(t)]
        BY <2>2, <2>4, <2>5, <2>6
    <2> QED BY <2>1, <2>2, <2>7, LeaveSizes
<1> QED BY <1>2, <1>3, <1>4, <1>5, <1>6 DEF Next, Allow

LEMMA InitSizeInv == Init => SizeInv
BY LimiterAssumption, FS_EmptySet DEF Init, SizeInv

(* Only the thread itself is turned away, and only by Reject. *)
LEMMA RejectedIsReject ==
    ASSUME IInv, [Next]_vars, NEW t \in Threads, Rejected(t)
    PROVE  Reject(t)
<1>1. thread[t].pc = "lock" /\ thread'[t].pc = "limited"
    BY DEF Rejected
<1>2. thread \in [Threads -> ThreadState]
    BY DEF IInv, TypeOK
<1>3. CASE Tick \/ UNCHANGED vars \/ \E k \in Reloadable : ChangeLimit(k)
    BY <1>1, <1>3 DEF Tick, vars, ChangeLimit
<1>4. ASSUME NEW u \in Threads, u # t, Request(u) \/ ReadClock(u) \/ Allow(u)
      PROVE  FALSE
    <2>1. \E new : thread' = [thread EXCEPT ![u] = new]
        BY <1>4, <1>2 DEF Request, ReadClock, Allow, Admit, Reject, RejectFails
    <2> QED BY <1>1, <1>2, <1>4, <2>1
<1>5. CASE Request(t) \/ ReadClock(t)
    BY <1>1, <1>5 DEF Request, ReadClock
<1>6. CASE Admit(t)
    <2>1. thread'[t] = NextCheck(thread[t])
        BY <1>2, <1>6 DEF Admit
    <2>2. NextCheck(thread[t]).pc \in {"idle", "read"}
        BY DEF NextCheck, IdleThread
    <2> QED BY <1>1, <2>1, <2>2
<1>7. CASE RejectFails(t)
    <2>1. thread'[t].pc = "error"
        BY <1>2, <1>7 DEF RejectFails, IdleThread
    <2> QED BY <1>1, <2>1
<1> QED BY <1>3, <1>4, <1>5, <1>6, <1>7 DEF Next, Allow

(* The events behind the deque: the last ones that were let through are as  *)
(* recent as its first entry, although its entries are not sorted.          *)
LEMMA FullMeansRecent ==
    ASSUME IInv, NEW t \in Threads, Reject(t)
    PROVE  LET granted == log[Key(t)]
               max     == thread[t].limit
           IN  /\ Len(granted) >= max
               /\ max > 0 => granted[Len(granted) - max + 1].at > Cutoff(t)
<1> DEFINE past == log[Key(t)]
           max  == thread[t].limit
           live == LiveBucket(t)
           cut  == Cutoff(t)
<1>1. thread[t].pc = "lock" /\ live # <<>> /\ Full(live, max)
    BY DEF Reject
<1>2. /\ Key(t) \in Keys /\ max \in Nat /\ cut \in Int
    BY <1>1, LockedThread
<1>3. /\ past \in Seq(Grant) /\ Len(past) \in Nat
      /\ \A i \in 1 .. Len(past) : past[i].at \in Nat /\ past[i].now \in Nat
    BY <1>2, KeyTypes
<1>4. /\ live \in Seq(Nat) /\ Len(live) \in Nat /\ live[1] > cut
    BY <1>1, LiveBucketStart
<1>5. /\ Len(live) <= Len(past)
      /\ \A i \in 1 .. Len(live) : live[i] = past[Len(past) - Len(live) + i].now
    BY <1>1, LiveBucketFacts
<1>6. \A i \in 1 .. Len(past) :
          /\ past[i].now <= past[i].at
          /\ \A j \in i .. Len(past) : past[i].at <= past[j].at
    BY <1>2 DEF IInv, LogIsOrdered
<1>7. Len(live) # 0
    BY <1>1, <1>4, EmptySeq
<1>8. Len(live) >= max
    BY <1>1 DEF Full
<1> HIDE DEF past, max, live, cut
<1> DEFINE first == Len(past) - Len(live) + 1
<1>9. first \in 1 .. Len(past) /\ past[first].now = live[1] /\ live[1] \in Nat
    BY <1>3, <1>4, <1>5, <1>7
<1>10. past[first].at > cut
    <2> DEFINE x == past[first].at
    <2>1. x \in Nat /\ live[1] <= x
        BY <1>3, <1>6, <1>9
    <2> HIDE DEF x
    <2>2. x > cut
        BY <1>2, <1>4, <1>9, <2>1
    <2> QED BY <2>2 DEF x
<1>11. ASSUME max > 0
       PROVE  past[Len(past) - max + 1].at > cut
    <2> DEFINE i == Len(past) - max + 1
    <2>1. i \in first .. Len(past) /\ i \in 1 .. Len(past)
        BY <1>2, <1>3, <1>4, <1>5, <1>8, <1>9, <1>11
    <2> HIDE DEF i, first
    <2>2. past[first].at <= past[i].at
        BY <1>6, <1>9, <2>1
    <2> DEFINE x == past[first].at
               y == past[i].at
    <2>3. x \in Nat /\ y \in Nat /\ x <= y /\ x > cut
        BY <1>3, <1>9, <1>10, <2>1, <2>2
    <2> HIDE DEF x, y
    <2>4. y > cut
        BY <1>2, <2>3
    <2> QED BY <2>4 DEF y, i
<1>12. Len(past) >= max
    BY <1>2, <1>3, <1>4, <1>5, <1>8
<1> QED BY <1>11, <1>12 DEF past, max, cut

(* Nobody is answered 429 for events that are past, though the deque is not *)
(* sorted by reading and popleft stops at the first entry in the window.    *)
THEOREM RejectionIsJustified == Spec => RejectsOnlyWhenFull
<1>1. IInv /\ [Next]_vars =>
          [\A t \in Threads : Rejected(t) =>
              LET granted == log[Key(t)]
                  max     == thread[t].limit
              IN  /\ Len(granted) >= max
                  /\ max > 0 => granted[Len(granted) - max + 1].at > Cutoff(t)]_vars
    BY RejectedIsReject, FullMeansRecent
<1> QED BY <1>1, Invariance, PTL DEF Spec, RejectsOnlyWhenFull

-----------------------------------------------------------------------------
(* int(math.ceil(...)) rounds up. *)
LEMMA RetryAfterRoundsUp ==
    ASSUME NEW ticks \in Int, ticks > 0
    PROVE  RetryAfter(ticks) * TicksPerSecond >= ticks
<1>1. TicksPerSecond \in Nat /\ TicksPerSecond > 0
    BY LimiterAssumption
<1> DEFINE n == ticks + TicksPerSecond - 1
           q == n \div TicksPerSecond
           r == n % TicksPerSecond
<1>2. n \in Nat
    BY <1>1
<1> HIDE DEF n
<1>3. /\ q \in Int /\ r \in 0 .. TicksPerSecond - 1
      /\ n = TicksPerSecond * q + r
    BY <1>1, <1>2
<1>4. RetryAfter(ticks) = q
    BY <1>1 DEF RetryAfter, n
<1> HIDE DEF q, r
<1> DEFINE m == TicksPerSecond * q
<1>5. m \in Int /\ q * TicksPerSecond = m
    BY <1>1, <1>3
<1>6. n = m + r
    BY <1>3
<1> HIDE DEF m
<1>7. m >= ticks
    BY <1>1, <1>3, <1>5, <1>6 DEF n
<1> QED BY <1>4, <1>5, <1>7

LEMMA WaitingMakesRoom ==
    ASSUME IInv, SizeInv, NEW t \in Threads, Reject(t), Key(t) \notin Reloadable,
           NEW later, later = clock + thread'[t].retry * TicksPerSecond
    PROVE  ~Full(Live(bucket'[Key(t)], later - Window), limit[Key(t)])
<1> DEFINE live  == LiveBucket(t)
           first == live[1]
           now   == thread[t].now
           ticks == first + Window - now
           max   == limit[Key(t)]
           retry == thread'[t].retry
<1>1. /\ thread[t].pc = "lock" /\ live # <<>> /\ Leave(t, live)
      /\ thread' = [thread EXCEPT ![t] = [IdleThread EXCEPT
                                              !.pc = "limited",
                                              !.retry = RetryAfter(ticks)]]
    BY DEF Reject
<1>2. /\ Key(t) \in Keys /\ now \in Nat /\ clock \in Nat /\ Window \in Nat
      /\ now <= clock /\ Cutoff(t) = now - Window
    BY <1>1, LockedThread
<1>3. /\ live \in Seq(Nat) /\ Len(live) \in Nat /\ Len(live) <= Len(bucket[Key(t)])
      /\ first > Cutoff(t)
    BY <1>1, LiveBucketStart
<1>4. retry = RetryAfter(ticks)
    <2>1. thread \in [Threads -> ThreadState]
        BY DEF IInv, TypeOK
    <2> HIDE DEF ticks
    <2> QED BY <1>1, <2>1 DEF IdleThread
<1>5. bucket'[Key(t)] = live
    BY <1>1, <1>3, LeaveTypes
<1>6. Len(live) <= max /\ max \in Nat
    <2>1. bucket[Key(t)] \in Seq(Nat) /\ max \in Nat
        BY <1>2 DEF IInv, TypeOK
    <2>2. Len(bucket[Key(t)]) \in Nat /\ Len(bucket[Key(t)]) <= max
        BY <1>2, <2>1 DEF SizeInv
    <2> HIDE DEF max, live
    <2> QED BY <1>3, <2>1, <2>2
<1> HIDE DEF live, max, retry, now
<1>7. first \in Nat
    BY <1>1, <1>3, EmptySeq
<1>8. ticks \in Int /\ ticks > 0
    <2> HIDE DEF first
    <2> QED BY <1>2, <1>3, <1>7
<1> DEFINE wait == retry * TicksPerSecond
<1>9. wait \in Int /\ wait >= ticks
    <2>1. RetryAfter(ticks) \in Nat /\ TicksPerSecond \in Nat
        BY <1>8, RetryAfterType, LimiterAssumption
    <2>2. RetryAfter(ticks) * TicksPerSecond >= ticks
        BY <1>8, RetryAfterRoundsUp
    <2> HIDE DEF ticks
    <2> QED BY <1>4, <2>1, <2>2
<1>10. later = clock + wait
    BY DEF wait, retry
<1> HIDE DEF wait, first
<1>11. later - Window \in Int /\ first <= later - Window
    BY <1>2, <1>7, <1>9, <1>10 DEF ticks
<1>12. /\ Len(Live(live, later - Window)) \in 0 .. Len(live)
       /\ Len(Live(live, later - Window)) < Len(live)
    BY <1>1, <1>3, <1>11, LiveStart DEF first
<1>13. ~(Len(Live(live, later - Window)) >= max)
    BY <1>3, <1>6, <1>12
<1> QED BY <1>5, <1>13 DEF Full, max

(* Retry-After is long enough for every client whose limit is not lowered   *)
(* meanwhile, and for every clock resolution.                               *)
THEOREM RetryAfterIsEnough == Spec => RetryAfterSuffices
<1>1. IInv /\ SizeInv /\ [Next]_vars =>
          [\A t \in Threads : (Rejected(t) /\ Key(t) \notin Reloadable) =>
              LET later == clock + thread'[t].retry * TicksPerSecond
              IN  ~Full(Live(bucket'[Key(t)], later - Window), limit[Key(t)])]_vars
    <2> SUFFICES ASSUME IInv, SizeInv, [Next]_vars, NEW t \in Threads,
                        Rejected(t), Key(t) \notin Reloadable
                 PROVE  LET later == clock + thread'[t].retry * TicksPerSecond
                        IN  ~Full(Live(bucket'[Key(t)], later - Window), limit[Key(t)])
        OBVIOUS
    <2>1. Reject(t)
        BY RejectedIsReject
    <2> QED BY <2>1, WaitingMakesRoom
<1> QED BY InitIInv, NextStep, InitSizeInv, StepSizeInv, <1>1, PTL
        DEF Spec, RetryAfterSuffices

-----------------------------------------------------------------------------
(* A call that makes the dictionary grow past its maximum has found it full *)
(* of keys that are in use.                                                 *)
LEMMA GrowthIsActive ==
    ASSUME IInv, SizeInv, NEW t \in Threads, thread[t].pc = "lock",
           NEW entries, Leave(t, entries), Cardinality(tracked') > MaxTracked,
           NEW k \in tracked' \ {Key(t)}
    PROVE  log[k] # <<>> /\ log[k][Len(log[k])].at > Cutoff(t)
<1>1. MaxTracked \in Nat /\ Cardinality(tracked) \in Nat
    BY LimiterAssumption, FS_CardinalityType DEF SizeInv
<1>2. Cardinality(tracked) >= MaxTracked
    <2> SUFFICES ASSUME Cardinality(tracked) < MaxTracked
                 PROVE  FALSE
        BY <1>1
    <2> DEFINE kept == tracked \ Evicted(Cutoff(t))
    <2>1. IsFiniteSet(kept) /\ Cardinality(kept) <= Cardinality(tracked)
        BY FS_Subset DEF SizeInv
    <2>2. tracked' = kept \cup {Key(t)}
        BY DEF Leave
    <2> HIDE DEF kept
    <2>3. /\ Cardinality(kept) \in Nat
          /\ \/ Cardinality(tracked') = Cardinality(kept)
             \/ Cardinality(tracked') = Cardinality(kept) + 1
        BY <2>1, <2>2, FS_CardinalityType, FS_AddElement
    <2> QED BY <1>1, <2>1, <2>3
<1>3. /\ k \in tracked /\ k \in Keys
      /\ bucket[k] # <<>> /\ ~(bucket[k][Len(bucket[k])] <= Cutoff(t))
    BY <1>2 DEF Leave, Evicted, IInv, TypeOK
<1>4. /\ bucket[k] \in Seq(Nat) /\ log[k] \in Seq(Grant)
      /\ \A i \in 1 .. Len(log[k]) : log[k][i].at \in Nat /\ log[k][i].now \in Nat
    BY <1>3, KeyTypes
<1>5. /\ Len(bucket[k]) \in Nat /\ Len(log[k]) \in Nat
      /\ Len(bucket[k]) <= Len(log[k]) /\ Len(bucket[k]) # 0
    <2>1. Len(bucket[k]) \in Nat /\ Len(log[k]) \in Nat
        BY <1>4
    <2>2. Len(bucket[k]) <= Len(log[k])
        BY <1>3 DEF IInv, BucketIsRecent
    <2>3. Len(bucket[k]) # 0
        BY <1>3, <1>4, EmptySeq
    <2> QED BY <2>1, <2>2, <2>3
<1> DEFINE last == Len(log[k])
<1>6. bucket[k][Len(bucket[k])] = log[k][last].now
    <2>1. Len(bucket[k]) \in 1 .. Len(bucket[k])
        BY <1>5
    <2>2. bucket[k][Len(bucket[k])] =
              log[k][Len(log[k]) - Len(bucket[k]) + Len(bucket[k])].now
        BY <1>3, <2>1 DEF IInv, BucketIsRecent
    <2>3. Len(log[k]) - Len(bucket[k]) + Len(bucket[k]) = last
        BY <1>5
    <2> QED BY <2>2, <2>3
<1>7. last \in 1 .. Len(log[k])
    BY <1>5
<1>8. log[k][last].now <= log[k][last].at /\ log[k] # <<>>
    BY <1>3, <1>7 DEF IInv, LogIsOrdered
<1>9. log[k][last].at \in Nat /\ log[k][last].now \in Nat /\ Cutoff(t) \in Int
    BY <1>4, <1>7, LockedThread
<1> DEFINE x == log[k][last].now
           y == log[k][last].at
           c == Cutoff(t)
<1>10. x \in Nat /\ y \in Nat /\ c \in Int /\ x <= y /\ ~(x <= c)
    BY <1>3, <1>6, <1>8, <1>9
<1> HIDE DEF x, y, c
<1>11. y > c
    BY <1>10
<1> QED BY <1>8, <1>11 DEF y, c

(* The dictionary of clients outgrows MAX_TRACKED_KEYS only while as many   *)
(* clients are active within one window.                                    *)
THEOREM OnlyActiveKeysGrow == Spec => GrowsOnlyForActiveKeys
<1>1. ASSUME IInv, SizeInv, [Next]_vars, NEW t \in Threads,
             thread[t].pc = "lock", thread'[t].pc # "lock"
      PROVE  \E entries : Leave(t, entries)
    <2>1. thread \in [Threads -> ThreadState]
        BY <1>1 DEF IInv, TypeOK
    <2>2. CASE Allow(t)
        BY <2>2 DEF Allow, Admit, Reject, RejectFails
    <2>3. ASSUME NEW u \in Threads, u # t, Request(u) \/ ReadClock(u) \/ Allow(u)
          PROVE  FALSE
        <3>1. \E new : thread' = [thread EXCEPT ![u] = new]
            BY <2>1, <2>3 DEF Request, ReadClock, Allow, Admit, Reject, RejectFails
        <3> QED BY <1>1, <2>1, <2>3, <3>1
    <2>4. CASE Request(t) \/ ReadClock(t)
        BY <1>1, <2>4 DEF Request, ReadClock
    <2>5. CASE Tick \/ UNCHANGED vars \/ \E k \in Reloadable : ChangeLimit(k)
        BY <1>1, <2>5 DEF Tick, vars, ChangeLimit
    <2> QED BY <1>1, <2>2, <2>3, <2>4, <2>5 DEF Next
<1>2. IInv /\ SizeInv /\ [Next]_vars =>
          [\A t \in Threads :
              (/\ thread[t].pc = "lock" /\ thread'[t].pc # "lock"
               /\ Cardinality(tracked') > MaxTracked)
              => \A k \in tracked' \ {Key(t)} :
                    log[k] # <<>> /\ log[k][Len(log[k])].at > Cutoff(t)]_vars
    BY <1>1, GrowthIsActive
<1> QED BY InitIInv, NextStep, InitSizeInv, StepSizeInv, <1>2, PTL
        DEF Spec, GrowsOnlyForActiveKeys
=============================================================================
