-------------------------- MODULE AdminLoginProofs ---------------------------
(***************************************************************************)
(* Theorems about AdminLogin for every value of its constants: any number  *)
(* of threads, clients and limiters.                                       *)
(***************************************************************************)
EXTENDS AdminLogin, FiniteSetTheorems, TLAPS

-----------------------------------------------------------------------------
(* The inductive invariant. *)

(* What a limiter has on its list has happened, and the history has all of  *)
(* it.                                                                      *)
AttemptsHappened ==
    \A o \in Limiters, k \in Keys :
        /\ IsFiniteSet(failures[o][k])
        /\ attempts[o][k] \subseteq failures[o][k]
        /\ \A f \in failures[o][k] : f.at <= now

IInv ==
    /\ TypeOK
    /\ AttemptsHappened
    /\ BlockIsEarned

-----------------------------------------------------------------------------
(* The constants. *)
LEMMA Constants ==
    /\ AdminKeys \subseteq Keys /\ Limiters \subseteq Nat /\ 1 \in Limiters
    /\ MaxHold \in Nat /\ MaxTime \in Nat /\ MaxLogins \in Nat
    /\ \A o \in Limiters :
          MaxAttempts[o] \in Nat /\ Cooldown[o] \in Nat /\ Allowed(o) \in Nat \ {0}
<1>1. MaxAttempts \in [Limiters -> Nat] /\ Cooldown \in [Limiters -> Nat]
  BY AdminLoginAssumption DEF AdminLoginAssumption
<1>2. \A o \in Limiters : MaxAttempts[o] \in Nat /\ Cooldown[o] \in Nat
  BY <1>1
<1> QED
  BY <1>2, AdminLoginAssumption DEF AdminLoginAssumption, Allowed

(* A part of the failures is counted by a number, and a larger part by none *)
(* that is smaller.                                                         *)
LEMMA CountOfPart ==
    ASSUME NEW S, IsFiniteSet(S), NEW P, P \subseteq S
    PROVE  IsFiniteSet(P) /\ Cardinality(P) \in Nat /\ Cardinality(P) <= Cardinality(S)
BY FS_Subset, FS_CardinalityType

(* One entry of a table by limiter and client is set. *)
LEMMA EntrySet ==
    ASSUME NEW S, NEW table \in [Limiters -> [Keys -> S]],
           NEW o \in Limiters, NEW k \in Keys, NEW v \in S, NEW after,
           after = [table EXCEPT ![o][k] = v]
    PROVE  /\ after \in [Limiters -> [Keys -> S]]
           /\ \A p \in Limiters, q \in Keys :
                 after[p][q] = IF p = o /\ q = k THEN v ELSE table[p][q]
<1>1. /\ table[o] \in [Keys -> S]
      /\ [table[o] EXCEPT ![k] = v] \in [Keys -> S]
      /\ \A q \in Keys : [table[o] EXCEPT ![k] = v][q] = IF q = k THEN v ELSE table[o][q]
  OBVIOUS
<1>2. after = [table EXCEPT ![o] = [table[o] EXCEPT ![k] = v]]
  OBVIOUS
<1> QED
  BY <1>1, <1>2

LEMMA InitIInv == Init => IInv
<1> SUFFICES ASSUME Init
             PROVE  IInv
  OBVIOUS
<1>1. IsFiniteSet({}) /\ Cardinality({}) = 0
  BY FS_EmptySet
<1>2. TypeOK
  BY <1>1, Constants DEF Init, TypeOK, ThreadOK, Idle
<1> QED
  BY <1>1, <1>2 DEF Init, IInv, AttemptsHappened, BlockIsEarned

-----------------------------------------------------------------------------
(* Each action keeps it. *)

(* A thread moves on, and no list changes: what has to be shown. *)
LEMMA ThreadStep ==
    ASSUME IInv, NEW t \in Threads, NEW r, ThreadOK(r),
           thread' = [thread EXCEPT ![t] = r], logins' \in 0 .. MaxLogins,
           UNCHANGED <<now, attempts, limiter, failures>>,
           \/ UNCHANGED blockedUntil
           \/ \E o \in Limiters, k \in Keys :
                 blockedUntil' = [blockedUntil EXCEPT ![o][k] = 0]
    PROVE  IInv'
<1>1. /\ DOMAIN thread' = Threads
      /\ \A u \in Threads : thread'[u] = IF u = t THEN r ELSE thread[u]
  BY DEF IInv, TypeOK
<1>2. /\ blockedUntil' \in [Limiters -> [Keys -> Nat]]
      /\ \A o \in Limiters, k \in Keys :
            blockedUntil'[o][k] = 0 \/ blockedUntil'[o][k] = blockedUntil[o][k]
  <2>1. blockedUntil \in [Limiters -> [Keys -> Nat]]
    BY DEF IInv, TypeOK
  <2>2. CASE UNCHANGED blockedUntil
    BY <2>1, <2>2
  <2>3. ASSUME NEW o \in Limiters, NEW k \in Keys,
               blockedUntil' = [blockedUntil EXCEPT ![o][k] = 0]
        PROVE  /\ blockedUntil' \in [Limiters -> [Keys -> Nat]]
               /\ \A p \in Limiters, q \in Keys :
                     blockedUntil'[p][q] = IF p = o /\ q = k THEN 0 ELSE blockedUntil[p][q]
    BY <2>1, <2>3, EntrySet
  <2> QED
    BY <2>2, <2>3
<1>3. TypeOK'
  BY <1>1, <1>2 DEF IInv, TypeOK, ThreadOK
<1>4. AttemptsHappened'
  BY DEF IInv, AttemptsHappened
<1>5. BlockIsEarned'
  BY <1>2 DEF IInv, BlockIsEarned, FailedWithin
<1> QED
  BY <1>3, <1>4, <1>5 DEF IInv

(* register_failure: the list is shorter than what blocks, or as long, and  *)
(* then each attempt on it was made within the cooldown.                    *)
LEMMA RegisterStep ==
    ASSUME IInv, NEW t \in Threads, RegisterFailure(t)
    PROVE  IInv'
<1> DEFINE o == thread[t].lim
           k == thread[t].key
           at == thread[t].at
           new == [no |-> Cardinality(failures[o][k]) + 1, at |-> at]
           list == Cleanup(attempts[o][k], at, Cooldown[o]) \cup {new}
           more == failures[o][k] \cup {new}
<1>1. /\ o \in Limiters /\ k \in Keys /\ at \in 1 .. now /\ now <= at + MaxHold
      /\ now \in Nat /\ Cooldown[o] \in Nat /\ MaxAttempts[o] \in Nat /\ MaxHold \in Nat
      /\ Allowed(o) \in Nat \ {0}
  <2>1. /\ thread[t].pc = "tell" /\ ThreadOK(thread[t]) /\ now \in Nat
    BY Constants DEF RegisterFailure, IInv, TypeOK
  <2>2. o \in Limiters /\ k \in Keys /\ at \in 1 .. now /\ now <= at + MaxHold
    BY <2>1 DEF ThreadOK
  <2> HIDE DEF o, k, at
  <2> QED
    BY <2>1, <2>2, Constants
<1>2. /\ attempts[o][k] \subseteq failures[o][k] /\ failures[o][k] \subseteq Failure
      /\ IsFiniteSet(failures[o][k])
      /\ \A f \in failures[o][k] : f.at <= now
  BY <1>1 DEF IInv, TypeOK, AttemptsHappened
<1>3. new \in Failure /\ new.at = at
  BY <1>1, <1>2, FS_CardinalityType DEF Failure
<1>4. /\ list \subseteq more /\ more \subseteq Failure /\ IsFiniteSet(more)
      /\ new \in list
      /\ \A f \in more : f.at <= now
      /\ \A f \in list : f.at >= at - Cooldown[o]
  BY <1>1, <1>2, <1>3, FS_AddElement DEF Cleanup
<1>5. /\ IF IsFull(list, MaxAttempts[o])
         THEN /\ blockedUntil' = [blockedUntil EXCEPT ![o][k] = at + Cooldown[o]]
              /\ attempts' = [attempts EXCEPT ![o][k] = {}]
         ELSE /\ attempts' = [attempts EXCEPT ![o][k] = list]
              /\ UNCHANGED blockedUntil
      /\ failures' = [failures EXCEPT ![o][k] = more]
      /\ thread' = [thread EXCEPT ![t] = Idle]
      /\ UNCHANGED <<now, limiter, logins>>
  BY DEF RegisterFailure
<1> HIDE DEF o, k, at, new, list, more
<1>6. /\ list \subseteq Failure /\ IsFiniteSet(list) /\ Cardinality(list) \in Nat
      /\ Cardinality(list) >= 1 /\ Cardinality({}) = 0
  <2>1. IsFiniteSet(list) /\ Cardinality(list) \in Nat
    BY <1>4, CountOfPart
  <2>2. Cardinality({new}) = 1 /\ Cardinality({new}) <= Cardinality(list)
    BY <1>4, <2>1, FS_Singleton, CountOfPart
  <2> QED
    BY <1>4, <2>1, <2>2, FS_EmptySet
<1>7. \E left \in SUBSET more :
         /\ Cardinality(left) < Allowed(o)
         /\ attempts' = [attempts EXCEPT ![o][k] = left]
  <2>1. CASE IsFull(list, MaxAttempts[o])
    <3>1. attempts' = [attempts EXCEPT ![o][k] = {}]
      BY <1>5, <2>1
    <3>2. {} \in SUBSET more /\ Cardinality({}) < Allowed(o)
      BY <1>1, <1>6
    <3> QED
      BY <3>1, <3>2
  <2>2. CASE ~IsFull(list, MaxAttempts[o])
    <3>1. Cardinality(list) < Allowed(o)
      BY <1>1, <1>6, <2>2 DEF IsFull, Allowed
    <3> QED
      BY <1>4, <1>5, <2>2, <3>1
  <2> QED
    BY <2>1, <2>2
<1> PICK left \in SUBSET more : /\ Cardinality(left) < Allowed(o)
                                /\ attempts' = [attempts EXCEPT ![o][k] = left]
  BY <1>7
<1>8. /\ failures' \in [Limiters -> [Keys -> SUBSET Failure]]
      /\ attempts' \in [Limiters -> [Keys -> SUBSET Failure]]
      /\ \A p \in Limiters, q \in Keys :
            /\ failures'[p][q] = IF p = o /\ q = k THEN more ELSE failures[p][q]
            /\ attempts'[p][q] = IF p = o /\ q = k THEN left ELSE attempts[p][q]
  <2>1. left \in SUBSET Failure /\ more \in SUBSET Failure
    BY <1>4
  <2>2. attempts \in [Limiters -> [Keys -> SUBSET Failure]]
        /\ failures \in [Limiters -> [Keys -> SUBSET Failure]]
    BY DEF IInv, TypeOK
  <2> QED
    BY <1>1, <1>5, <2>1, <2>2, EntrySet
<1>9. /\ blockedUntil' \in [Limiters -> [Keys -> Nat]]
      /\ \A p \in Limiters, q \in Keys :
            \/ blockedUntil'[p][q] = blockedUntil[p][q]
            \/ /\ p = o /\ q = k /\ IsFull(list, MaxAttempts[o])
               /\ blockedUntil'[p][q] = at + Cooldown[o]
  <2>1. blockedUntil \in [Limiters -> [Keys -> Nat]]
    BY DEF IInv, TypeOK
  <2>2. CASE IsFull(list, MaxAttempts[o])
    <3>1. at + Cooldown[o] \in Nat /\ blockedUntil' = [blockedUntil EXCEPT ![o][k] = at + Cooldown[o]]
      BY <1>1, <1>5, <2>2
    <3> QED
      BY <1>1, <2>1, <2>2, <3>1, EntrySet
  <2>3. CASE ~IsFull(list, MaxAttempts[o])
    BY <1>5, <2>1, <2>3
  <2> QED
    BY <2>2, <2>3
<1>10. TypeOK'
  <2>1. \A p \in Limiters, q \in Keys : Cardinality(attempts'[p][q]) < Allowed(p)
    BY <1>8 DEF IInv, TypeOK
  <2>2. DOMAIN thread' = Threads /\ \A u \in Threads : thread'[u] \in {thread[u], Idle}
    BY <1>5 DEF IInv, TypeOK
  <2>3. (\A u \in Threads : ThreadOK(thread[u]))'
    BY <1>5, <2>2 DEF IInv, TypeOK, ThreadOK, Idle
  <2>4. /\ now' \in 1 .. MaxTime + 1 /\ logins' \in 0 .. MaxLogins
        /\ limiter' \in Limiters
    BY <1>5 DEF IInv, TypeOK
  <2> QED
    BY <1>8, <1>9, <2>1, <2>2, <2>3, <2>4 DEF TypeOK, Allowed
<1>11. AttemptsHappened'
  BY <1>2, <1>4, <1>5, <1>8 DEF IInv, AttemptsHappened
<1>12. BlockIsEarned'
  <2> SUFFICES ASSUME NEW p \in Limiters, NEW q \in Keys, blockedUntil'[p][q] # 0
               PROVE  Cardinality({f \in failures'[p][q] :
                         f.at \in (blockedUntil'[p][q] - Cooldown[p] - Cooldown[p])
                                  .. (blockedUntil'[p][q] - Cooldown[p] + MaxHold)})
                      >= Allowed(p)
    BY DEF BlockIsEarned, FailedWithin, Allowed
  <2> DEFINE within(rows) == {f \in rows :
                         f.at \in (blockedUntil'[p][q] - Cooldown[p] - Cooldown[p])
                                  .. (blockedUntil'[p][q] - Cooldown[p] + MaxHold)}
  <2>1. IsFiniteSet(failures'[p][q]) /\ failures[p][q] \subseteq failures'[p][q]
    <3>1. CASE p = o /\ q = k
      <4>1. failures'[p][q] = more
        BY <1>8, <3>1
      <4> QED
        BY <1>4, <3>1, <4>1 DEF more
    <3>2. CASE ~(p = o /\ q = k)
      <4>1. failures'[p][q] = failures[p][q]
        BY <1>8, <3>2
      <4> QED
        BY <4>1 DEF IInv, AttemptsHappened
    <3> QED
      BY <3>1, <3>2
  <2>2. CASE blockedUntil'[p][q] = blockedUntil[p][q]
    <3>1. Cardinality(within(failures[p][q])) >= Allowed(p)
      BY <2>2 DEF IInv, BlockIsEarned, FailedWithin
    <3>2. within(failures[p][q]) \subseteq within(failures'[p][q])
      BY <2>1
    <3>3. IsFiniteSet(within(failures'[p][q]))
      BY <2>1, CountOfPart
    <3> HIDE DEF within
    <3>4. /\ Cardinality(within(failures[p][q])) \in Nat
          /\ Cardinality(within(failures'[p][q])) \in Nat
          /\ Cardinality(within(failures[p][q])) <= Cardinality(within(failures'[p][q]))
      BY <3>2, <3>3, CountOfPart
    <3>5. Cardinality(within(failures'[p][q])) >= Allowed(p)
      BY <3>1, <3>4, Constants
    <3> QED
      BY <3>5 DEF within
  <2>3. CASE /\ p = o /\ q = k /\ IsFull(list, MaxAttempts[o])
             /\ blockedUntil'[p][q] = at + Cooldown[o]
    <3>1. list \subseteq within(failures'[p][q])
      <4>1. \A f \in list : f.at \in Nat /\ f.at >= at - Cooldown[o] /\ f.at <= at + MaxHold
        BY <1>1, <1>4, <1>6 DEF Failure
      <4>2. at + Cooldown[o] - Cooldown[o] = at
        BY <1>1
      <4> QED
        BY <1>1, <1>4, <1>8, <2>3, <4>1, <4>2
    <3>2. IsFiniteSet(within(failures'[p][q]))
      BY <2>1, CountOfPart
    <3> HIDE DEF within
    <3>3. /\ Cardinality(within(failures'[p][q])) \in Nat
          /\ Cardinality(list) <= Cardinality(within(failures'[p][q]))
      BY <3>1, <3>2, CountOfPart
    <3>4. Cardinality(list) >= Allowed(o)
      BY <1>1, <1>6, <2>3 DEF IsFull, Allowed
    <3>5. Cardinality(within(failures'[p][q])) >= Allowed(p)
      BY <1>1, <1>6, <2>3, <3>3, <3>4
    <3> QED
      BY <3>5 DEF within
  <2> QED
    BY <1>9, <2>2, <2>3
<1> QED
  BY <1>10, <1>11, <1>12 DEF IInv

(* A successful login clears what is known of the client. *)
LEMMA SucceedStep ==
    ASSUME IInv, NEW t \in Threads, Succeed(t)
    PROVE  IInv'
<1> DEFINE o == thread[t].lim
           k == thread[t].key
<1>1. o \in Limiters /\ k \in Keys
  BY DEF Succeed, IInv, TypeOK, ThreadOK
<1>2. /\ attempts' = [attempts EXCEPT ![o][k] = {}]
      /\ blockedUntil' = [blockedUntil EXCEPT ![o][k] = 0]
      /\ failures' = [failures EXCEPT ![o][k] = {}]
      /\ thread' = [thread EXCEPT ![t] = Idle]
      /\ UNCHANGED <<now, limiter, logins>>
  BY DEF Succeed
<1> HIDE DEF o, k
<1>3. /\ attempts' \in [Limiters -> [Keys -> SUBSET Failure]]
      /\ failures' \in [Limiters -> [Keys -> SUBSET Failure]]
      /\ \A p \in Limiters, q \in Keys :
            /\ attempts'[p][q] = IF p = o /\ q = k THEN {} ELSE attempts[p][q]
            /\ failures'[p][q] = IF p = o /\ q = k THEN {} ELSE failures[p][q]
  BY <1>1, <1>2, EntrySet DEF IInv, TypeOK
<1>4. /\ blockedUntil' \in [Limiters -> [Keys -> Nat]]
      /\ \A p \in Limiters, q \in Keys :
            blockedUntil'[p][q] = IF p = o /\ q = k THEN 0 ELSE blockedUntil[p][q]
  BY <1>1, <1>2, EntrySet DEF IInv, TypeOK
<1>5. IsFiniteSet({}) /\ Cardinality({}) = 0 /\ \A p \in Limiters : 0 < Allowed(p)
  BY FS_EmptySet, Constants
<1>6. TypeOK'
  <2>1. \A p \in Limiters, q \in Keys : Cardinality(attempts'[p][q]) < Allowed(p)
    BY <1>3, <1>5 DEF IInv, TypeOK
  <2>2. DOMAIN thread' = Threads /\ \A u \in Threads : thread'[u] \in {thread[u], Idle}
    BY <1>2 DEF IInv, TypeOK
  <2>3. (\A u \in Threads : ThreadOK(thread[u]))'
    BY <1>2, <2>2 DEF IInv, TypeOK, ThreadOK, Idle
  <2>4. /\ now' \in 1 .. MaxTime + 1 /\ logins' \in 0 .. MaxLogins
        /\ limiter' \in Limiters
    BY <1>2 DEF IInv, TypeOK
  <2> QED
    BY <1>3, <1>4, <2>1, <2>2, <2>3, <2>4 DEF TypeOK, Allowed
<1>7. AttemptsHappened'
  BY <1>2, <1>3, <1>5 DEF IInv, AttemptsHappened
<1>8. BlockIsEarned'
  <2>1. \A p \in Limiters, q \in Keys : blockedUntil'[p][q] # 0 =>
            /\ blockedUntil'[p][q] = blockedUntil[p][q]
            /\ failures'[p][q] = failures[p][q]
    BY <1>3, <1>4
  <2>2. \A p \in Limiters : Allowed(p)' = Allowed(p)
    BY DEF Allowed
  <2> QED
    BY <2>1, <2>2 DEF IInv, BlockIsEarned, FailedWithin
<1> QED
  BY <1>6, <1>7, <1>8 DEF IInv

(* The steps of a login that change no list. *)
LEMMA RequestStep ==
    ASSUME IInv, NEW t \in Threads,
           \/ \E k \in Keys : Login(t, k)
           \/ AskLimiter(t) \/ NotChecked(t) \/ WrongPassword(t)
    PROVE  IInv'
<1>1. /\ ThreadOK(thread[t]) /\ ThreadOK(Idle) /\ logins \in 0 .. MaxLogins
      /\ now \in Nat /\ now >= 1 /\ now <= now + MaxHold /\ limiter \in Limiters
  BY Constants DEF IInv, TypeOK, ThreadOK, Idle
<1>2. ASSUME NEW k \in Keys, Login(t, k)
      PROVE  IInv'
  <2> DEFINE r == [pc |-> "ask", key |-> k, lim |-> limiter, at |-> now]
  <2>1. ThreadOK(r)
    BY <1>1 DEF ThreadOK
  <2>2. /\ thread' = [thread EXCEPT ![t] = r] /\ logins' \in 0 .. MaxLogins
        /\ UNCHANGED <<now, attempts, blockedUntil, limiter, failures>>
    BY <1>1, <1>2, Constants DEF Login
  <2> HIDE DEF r
  <2> QED
    BY <2>1, <2>2, ThreadStep
<1>3. CASE AskLimiter(t)
  <2> DEFINE r == [pc |-> "check", key |-> thread[t].key, lim |-> thread[t].lim]
  <2>1. /\ ThreadOK(r) /\ thread[t].key \in Keys /\ thread[t].lim \in Limiters
    BY <1>1, <1>3 DEF AskLimiter, ThreadOK
  <2>2. UNCHANGED <<now, attempts, limiter, logins, failures>>
    BY <1>3 DEF AskLimiter
  <2>3. CASE thread' = [thread EXCEPT ![t] = Idle] /\ UNCHANGED blockedUntil
    BY <1>1, <2>2, <2>3, ThreadStep
  <2>4. CASE /\ thread' = [thread EXCEPT ![t] = r]
             /\ blockedUntil' = [blockedUntil EXCEPT ![thread[t].lim][thread[t].key] = 0]
    <3> HIDE DEF r
    <3> QED
      BY <1>1, <2>1, <2>2, <2>4, ThreadStep
  <2> QED
    BY <1>3, <2>3, <2>4 DEF AskLimiter
<1>4. CASE NotChecked(t)
  BY <1>1, <1>4, ThreadStep DEF NotChecked
<1>5. CASE WrongPassword(t)
  <2> DEFINE r == [pc |-> "tell", key |-> thread[t].key, lim |-> thread[t].lim, at |-> now]
  <2>1. ThreadOK(r)
    BY <1>1, <1>5 DEF WrongPassword, ThreadOK
  <2>2. /\ thread' = [thread EXCEPT ![t] = r]
        /\ UNCHANGED <<now, attempts, blockedUntil, limiter, logins, failures>>
    BY <1>5 DEF WrongPassword
  <2> HIDE DEF r
  <2> QED
    BY <1>1, <2>1, <2>2, ThreadStep
<1> QED
  BY <1>2, <1>3, <1>4, <1>5

(* Time passes only as long as no thread is held up too long. *)
LEMMA TickStep ==
    ASSUME IInv, Tick
    PROVE  IInv'
<1>1. /\ now \in Nat /\ now' = now + 1 /\ now' \in 1 .. MaxTime + 1
      /\ UNCHANGED <<attempts, blockedUntil, limiter, thread, logins, failures>>
  BY Constants DEF Tick, IInv, TypeOK
<1>2. ASSUME NEW u \in Threads
      PROVE  /\ thread[u].pc \in {"idle", "ask", "check", "tell"}
             /\ thread[u].pc # "idle" => thread[u].key \in Keys /\ thread[u].lim \in Limiters
             /\ thread[u].pc \in {"ask", "tell"} =>
                   thread[u].at \in 1 .. now' /\ now' <= thread[u].at + MaxHold
  BY <1>1, Constants DEF IInv, TypeOK, ThreadOK, Tick, AtLock
<1>3. TypeOK'
  BY <1>1, <1>2 DEF IInv, TypeOK, ThreadOK, Allowed
<1>4. AttemptsHappened'
  <2>1. \A o \in Limiters, k \in Keys : \A f \in failures[o][k] : f.at \in Nat
    BY DEF IInv, TypeOK, Failure
  <2> QED
    BY <1>1, <2>1 DEF IInv, AttemptsHappened
<1>5. BlockIsEarned'
  BY <1>1 DEF IInv, BlockIsEarned, FailedWithin, Allowed
<1> QED
  BY <1>3, <1>4, <1>5 DEF IInv

LEMMA StepIInv == IInv /\ [Next]_vars => IInv'
<1> SUFFICES ASSUME IInv, [Next]_vars
             PROVE  IInv'
  OBVIOUS
<1>1. CASE ReplaceLimiter
  BY <1>1 DEF ReplaceLimiter, IInv, TypeOK, ThreadOK, AttemptsHappened, BlockIsEarned,
     FailedWithin, Allowed
<1>2. CASE UNCHANGED vars
  BY <1>2 DEF vars, IInv, TypeOK, ThreadOK, AttemptsHappened, BlockIsEarned,
     FailedWithin, Allowed
<1> QED
  BY <1>1, <1>2, TickStep, RequestStep, RegisterStep, SucceedStep DEF Next

-----------------------------------------------------------------------------
(* How many failures there can be.  The windows of FailuresAreBounded are   *)
(* followed one by one, whatever the state when they begin.                 *)

Last(o, from) == from + Cooldown[o] - MaxHold - 1

Within(o, k, from) == {f \in failures[o][k] : f.at \in from .. Last(o, from)}

(* The threads that are past the limiter and may yet fail in the window. *)
MayStillFail(o, k, from) ==
    {t \in Threads :
        /\ thread[t].pc \in {"check", "tell"}
        /\ thread[t].lim = o /\ thread[t].key = k
        /\ thread[t].pc = "tell" => thread[t].at <= Last(o, from)
        /\ thread[t].pc = "check" => now <= Last(o, from)}

(* As long as the limiter has not forgotten a failure of the window, there  *)
(* are fewer than what blocks.                                              *)
AllRemembered(o, k, from) == Within(o, k, from) \subseteq attempts[o][k]

(* From then on no other thread gets past the limiter in time to fail in    *)
(* it: the client is blocked until the window is over, or it is over.       *)
Shut(o, k, from) == blockedUntil[o][k] > Last(o, from) \/ now > Last(o, from)

Counted(o, k, from) ==
    /\ Shut(o, k, from)
    /\ Cardinality(Within(o, k, from)) + Cardinality(MayStillFail(o, k, from))
          <= Allowed(o) + Cardinality(Threads) - 1

WindowsHold ==
    \A o \in Limiters, k \in Keys, from \in Nat :
        AllRemembered(o, k, from) \/ Counted(o, k, from)

LEMMA ThreadsAreFinite ==
    /\ IsFiniteSet(Threads) /\ Cardinality(Threads) \in Nat
    /\ \A S \in SUBSET Threads :
          IsFiniteSet(S) /\ Cardinality(S) \in Nat /\ Cardinality(S) <= Cardinality(Threads)
    /\ \A S \in SUBSET Threads, t \in Threads :
          t \notin S => Cardinality(S) + 1 <= Cardinality(Threads)
<1>1. IsFiniteSet(Threads)
  BY AdminLoginAssumption DEF AdminLoginAssumption
<1>2. ASSUME NEW S \in SUBSET Threads, NEW t \in Threads, t \notin S
      PROVE  Cardinality(S) + 1 <= Cardinality(Threads)
  <2>1. S \subseteq Threads \ {t}
    BY <1>2
  <2>2. IsFiniteSet(Threads \ {t}) /\ Cardinality(Threads \ {t}) = Cardinality(Threads) - 1
    BY <1>1, FS_RemoveElement
  <2>3. Cardinality(S) \in Nat /\ Cardinality(S) <= Cardinality(Threads \ {t})
    BY <2>1, <2>2, CountOfPart
  <2> QED
    BY <1>1, <2>2, <2>3, FS_CardinalityType
<1> QED
  BY <1>1, <1>2, FS_CardinalityType, CountOfPart

(* The numbers a window is counted with. *)
LEMMA WindowTypes ==
    ASSUME IInv, NEW o \in Limiters, NEW k \in Keys, NEW from \in Nat
    PROVE  /\ Last(o, from) \in Int /\ now \in Nat /\ blockedUntil[o][k] \in Nat
           /\ IsFiniteSet(Within(o, k, from)) /\ Cardinality(Within(o, k, from)) \in Nat
           /\ Cardinality(MayStillFail(o, k, from)) \in Nat
           /\ Cardinality(MayStillFail(o, k, from)) <= Cardinality(Threads)
<1>1. IsFiniteSet(failures[o][k]) /\ Within(o, k, from) \subseteq failures[o][k]
  BY DEF IInv, AttemptsHappened, Within
<1>2. MayStillFail(o, k, from) \in SUBSET Threads
  BY DEF MayStillFail
<1>3. Last(o, from) \in Int
  BY Constants DEF Last
<1> QED
  BY <1>1, <1>2, <1>3, CountOfPart, ThreadsAreFinite DEF IInv, TypeOK

(* What a step has to show for a window that it adds no failure to. *)
LEMMA WindowKept ==
    ASSUME IInv, WindowsHold, NEW o \in Limiters, NEW k \in Keys, NEW from \in Nat,
           failures'[o][k] = failures[o][k], attempts'[o][k] = attempts[o][k],
           Shut(o, k, from) =>
               /\ Shut(o, k, from)'
               /\ MayStillFail(o, k, from)' \subseteq MayStillFail(o, k, from)
    PROVE  AllRemembered(o, k, from)' \/ Counted(o, k, from)'
<1>1. Within(o, k, from)' = Within(o, k, from)
  BY DEF Within, Last
<1>2. CASE AllRemembered(o, k, from)
  BY <1>1, <1>2 DEF AllRemembered
<1>3. CASE Counted(o, k, from)
  <2>1. MayStillFail(o, k, from)' \subseteq MayStillFail(o, k, from)
    BY <1>3 DEF Counted
  <2>2. MayStillFail(o, k, from) \in SUBSET Threads
    BY DEF MayStillFail
  <2>3. /\ Cardinality(MayStillFail(o, k, from)') \in Nat
        /\ Cardinality(MayStillFail(o, k, from)') <= Cardinality(MayStillFail(o, k, from))
    BY <2>1, <2>2, ThreadsAreFinite, CountOfPart
  <2>4. Allowed(o)' = Allowed(o)
    BY DEF Allowed
  <2> QED
    BY <1>1, <1>3, <2>3, <2>4, WindowTypes, Constants, ThreadsAreFinite DEF Counted
<1> QED
  BY <1>2, <1>3 DEF WindowsHold

(* The steps of a login before it fails: a thread that is let in comes too  *)
(* late for a window that is shut.                                          *)
LEMMA RequestWindows ==
    ASSUME IInv, WindowsHold, NEW t \in Threads,
           \/ \E k \in Keys : Login(t, k)
           \/ AskLimiter(t) \/ NotChecked(t) \/ WrongPassword(t)
    PROVE  WindowsHold'
<1> SUFFICES ASSUME NEW o \in Limiters, NEW k \in Keys, NEW from \in Nat
             PROVE  AllRemembered(o, k, from)' \/ Counted(o, k, from)'
  BY DEF WindowsHold
<1>1. UNCHANGED <<now, attempts, failures>> /\ Last(o, from)' = Last(o, from)
  BY DEF Login, AskLimiter, NotChecked, WrongPassword, Last
<1>2. \A u \in Threads : u # t => thread'[u] = thread[u]
  BY DEF IInv, TypeOK, Login, AskLimiter, NotChecked, WrongPassword
<1>3. ASSUME Shut(o, k, from)
      PROVE  /\ Shut(o, k, from)'
             /\ t \in MayStillFail(o, k, from)' => t \in MayStillFail(o, k, from)
  <2>1. CASE \E q \in Keys : Login(t, q)
    BY <1>1, <1>3, <2>1 DEF Login, Shut, MayStillFail, IInv, TypeOK
  <2>2. CASE NotChecked(t)
    BY <1>1, <1>3, <2>2 DEF NotChecked, Shut, MayStillFail, IInv, TypeOK, Idle
  <2>3. CASE WrongPassword(t)
    BY <1>1, <1>3, <2>3 DEF WrongPassword, Shut, MayStillFail, IInv, TypeOK
  <2>4. CASE AskLimiter(t)
    <3> DEFINE r == thread[t]
    <3>1. /\ r.pc = "ask" /\ r.at \in Nat /\ r.at <= now /\ r.lim \in Limiters /\ r.key \in Keys
      BY <2>4 DEF AskLimiter, IInv, TypeOK, ThreadOK
    <3>2. CASE blockedUntil[r.lim][r.key] > r.at
      BY <1>1, <1>3, <2>4, <3>2 DEF AskLimiter, Shut, MayStillFail, IInv, TypeOK, Idle
    <3>3. CASE ~(blockedUntil[r.lim][r.key] > r.at)
      <4>1. /\ thread'[t] = [pc |-> "check", key |-> r.key, lim |-> r.lim]
            /\ blockedUntil' = [blockedUntil EXCEPT ![r.lim][r.key] = 0]
        BY <2>4, <3>3 DEF AskLimiter, IInv, TypeOK
      <4>2. blockedUntil'[o][k] = IF o = r.lim /\ k = r.key THEN 0 ELSE blockedUntil[o][k]
        BY <3>1, <4>1, EntrySet DEF IInv, TypeOK
      <4>3. CASE o = r.lim /\ k = r.key
        <5>1. now > Last(o, from)
          BY <1>3, <3>1, <3>3, <4>3, WindowTypes DEF Shut
        <5>2. ~(now' <= Last(o, from)')
          BY <1>1, <5>1, WindowTypes
        <5> QED
          BY <1>1, <4>1, <5>1, <5>2 DEF Shut, MayStillFail
      <4>4. CASE ~(o = r.lim /\ k = r.key)
        BY <1>1, <1>3, <4>1, <4>2, <4>4 DEF Shut, MayStillFail
      <4> QED
        BY <4>3, <4>4
    <3> QED
      BY <3>2, <3>3
  <2> QED
    BY <2>1, <2>2, <2>3, <2>4
<1>4. Shut(o, k, from) => MayStillFail(o, k, from)' \subseteq MayStillFail(o, k, from)
  BY <1>1, <1>2, <1>3 DEF MayStillFail
<1> QED
  BY <1>1, <1>3, <1>4, WindowKept

(* Time passes, and fewer threads come in time. *)
LEMMA TickWindows ==
    ASSUME IInv, WindowsHold, Tick
    PROVE  WindowsHold'
<1> SUFFICES ASSUME NEW o \in Limiters, NEW k \in Keys, NEW from \in Nat
             PROVE  AllRemembered(o, k, from)' \/ Counted(o, k, from)'
  BY DEF WindowsHold
<1>1. /\ UNCHANGED <<attempts, blockedUntil, failures, thread>> /\ now' = now + 1
      /\ Last(o, from)' = Last(o, from)
  BY DEF Tick, Last
<1>2. Shut(o, k, from) => Shut(o, k, from)'
  BY <1>1, WindowTypes DEF Shut
<1>3. MayStillFail(o, k, from)' \subseteq MayStillFail(o, k, from)
  <2>1. now' <= Last(o, from)' => now <= Last(o, from)
    BY <1>1, WindowTypes
  <2> QED
    BY <1>1, <2>1 DEF MayStillFail
<1> QED
  BY <1>1, <1>2, <1>3, WindowKept

(* What register_failure does to the lists. *)
LEMMA RegisterEffect ==
    ASSUME IInv, NEW t \in Threads, RegisterFailure(t),
           NEW o, NEW k, NEW at, NEW new,
           o = thread[t].lim, k = thread[t].key, at = thread[t].at,
           new = [no |-> Cardinality(failures[o][k]) + 1, at |-> at]
    PROVE  /\ o \in Limiters /\ k \in Keys /\ at \in Nat /\ at <= now /\ now <= at + MaxHold
           /\ new.at = at
           /\ failures'[o][k] = failures[o][k] \cup {new}
           /\ \/ /\ attempts'[o][k] = {}
                 /\ blockedUntil'[o][k] = at + Cooldown[o]
              \/ /\ attempts'[o][k] = Cleanup(attempts[o][k], at, Cooldown[o]) \cup {new}
                 /\ blockedUntil'[o][k] = blockedUntil[o][k]
           /\ \A p \in Limiters, q \in Keys : ~(p = o /\ q = k) =>
                 /\ failures'[p][q] = failures[p][q] /\ attempts'[p][q] = attempts[p][q]
                 /\ blockedUntil'[p][q] = blockedUntil[p][q]
           /\ now' = now
           /\ \A u \in Threads : thread'[u] = IF u = t THEN Idle ELSE thread[u]
<1> DEFINE list == Cleanup(attempts[o][k], at, Cooldown[o]) \cup {new}
<1>1. thread[t].pc = "tell" /\ ThreadOK(thread[t]) /\ now \in Nat
  BY Constants DEF RegisterFailure, IInv, TypeOK
<1>2. o \in Limiters /\ k \in Keys /\ at \in Nat /\ at <= now /\ now <= at + MaxHold
  BY <1>1 DEF ThreadOK
<1>3. /\ attempts \in [Limiters -> [Keys -> SUBSET Failure]]
      /\ failures \in [Limiters -> [Keys -> SUBSET Failure]]
      /\ blockedUntil \in [Limiters -> [Keys -> Nat]]
  BY DEF IInv, TypeOK
<1>4. new \in Failure /\ new.at = at
  BY <1>2, FS_CardinalityType DEF Failure, IInv, AttemptsHappened
<1>5. /\ IF IsFull(list, MaxAttempts[o])
         THEN /\ blockedUntil' = [blockedUntil EXCEPT ![o][k] = at + Cooldown[o]]
              /\ attempts' = [attempts EXCEPT ![o][k] = {}]
         ELSE /\ attempts' = [attempts EXCEPT ![o][k] = list]
              /\ UNCHANGED blockedUntil
      /\ failures' = [failures EXCEPT ![o][k] = failures[o][k] \cup {new}]
      /\ thread' = [thread EXCEPT ![t] = Idle]
      /\ now' = now
  BY DEF RegisterFailure
<1>6. list \in SUBSET Failure /\ failures[o][k] \cup {new} \in SUBSET Failure
  BY <1>2, <1>3, <1>4 DEF Cleanup
<1>7. at + Cooldown[o] \in Nat
  BY <1>2, Constants
<1> HIDE DEF list
<1>8. \A p \in Limiters, q \in Keys :
         failures'[p][q] = IF p = o /\ q = k THEN failures[o][k] \cup {new} ELSE failures[p][q]
  BY <1>2, <1>3, <1>5, <1>6, EntrySet
<1>9. \/ \A p \in Limiters, q \in Keys :
            /\ attempts'[p][q] = IF p = o /\ q = k THEN {} ELSE attempts[p][q]
            /\ blockedUntil'[p][q] =
                  IF p = o /\ q = k THEN at + Cooldown[o] ELSE blockedUntil[p][q]
      \/ \A p \in Limiters, q \in Keys :
            /\ attempts'[p][q] = IF p = o /\ q = k THEN list ELSE attempts[p][q]
            /\ blockedUntil'[p][q] = blockedUntil[p][q]
  <2>1. CASE IsFull(list, MaxAttempts[o])
    <3>1. /\ blockedUntil' = [blockedUntil EXCEPT ![o][k] = at + Cooldown[o]]
          /\ attempts' = [attempts EXCEPT ![o][k] = {}]
      BY <1>5, <2>1
    <3>2. {} \in SUBSET Failure
      OBVIOUS
    <3>3. \A p \in Limiters, q \in Keys :
             attempts'[p][q] = IF p = o /\ q = k THEN {} ELSE attempts[p][q]
      BY <1>2, <1>3, <3>1, <3>2, EntrySet
    <3>4. \A p \in Limiters, q \in Keys : blockedUntil'[p][q] =
             IF p = o /\ q = k THEN at + Cooldown[o] ELSE blockedUntil[p][q]
      BY <1>2, <1>3, <1>7, <3>1, EntrySet
    <3> QED
      BY <3>3, <3>4
  <2>2. CASE ~IsFull(list, MaxAttempts[o])
    BY <1>2, <1>3, <1>5, <1>6, <2>2, EntrySet
  <2> QED
    BY <2>1, <2>2
<1>10. \A u \in Threads : thread'[u] = IF u = t THEN Idle ELSE thread[u]
  BY <1>5 DEF IInv, TypeOK
<1>11. \A p \in Limiters, q \in Keys : ~(p = o /\ q = k) =>
          /\ failures'[p][q] = failures[p][q] /\ attempts'[p][q] = attempts[p][q]
          /\ blockedUntil'[p][q] = blockedUntil[p][q]
  BY <1>8, <1>9
<1>12. \/ attempts'[o][k] = {} /\ blockedUntil'[o][k] = at + Cooldown[o]
       \/ attempts'[o][k] = list /\ blockedUntil'[o][k] = blockedUntil[o][k]
  BY <1>2, <1>9
<1>13. failures'[o][k] = failures[o][k] \cup {new}
  BY <1>2, <1>8
<1> QED
  BY <1>2, <1>4, <1>5, <1>10, <1>11, <1>12, <1>13 DEF list

(* A failure: if the limiter forgets one of the window, by a block or       *)
(* because it is a cooldown ago, the window is shut from now on; and if it  *)
(* had been shut, this thread was one of those counted.                     *)
LEMMA RegisterWindows ==
    ASSUME IInv, WindowsHold, NEW t \in Threads, RegisterFailure(t)
    PROVE  WindowsHold'
<1> SUFFICES ASSUME NEW o \in Limiters, NEW k \in Keys, NEW from \in Nat
             PROVE  AllRemembered(o, k, from)' \/ Counted(o, k, from)'
  BY DEF WindowsHold
<1> PICK p, q, at : p = thread[t].lim /\ q = thread[t].key /\ at = thread[t].at
  OBVIOUS
<1> PICK new : new = [no |-> Cardinality(failures[p][q]) + 1, at |-> at]
  OBVIOUS
<1>0. /\ new.at = at
      /\ failures'[p][q] = failures[p][q] \cup {new}
      /\ \/ /\ attempts'[p][q] = {}
            /\ blockedUntil'[p][q] = at + Cooldown[p]
         \/ /\ attempts'[p][q] = Cleanup(attempts[p][q], at, Cooldown[p]) \cup {new}
            /\ blockedUntil'[p][q] = blockedUntil[p][q]
  <2>1. new.at = at
    OBVIOUS
  <2>2. failures'[p][q] = failures[p][q] \cup {new}
    BY RegisterEffect
  <2>3. \/ /\ attempts'[p][q] = {}
           /\ blockedUntil'[p][q] = at + Cooldown[p]
        \/ /\ attempts'[p][q] = Cleanup(attempts[p][q], at, Cooldown[p]) \cup {new}
           /\ blockedUntil'[p][q] = blockedUntil[p][q]
    BY RegisterEffect, SMTT(20)
  <2> QED
    BY <2>1, <2>2, <2>3
<1>1. /\ now' = now /\ now \in Nat /\ Last(o, from)' = Last(o, from) /\ Last(o, from) \in Int
      /\ \A u \in Threads : thread'[u] = IF u = t THEN Idle ELSE thread[u]
      /\ at \in Nat /\ at <= now /\ now <= at + MaxHold
  BY RegisterEffect, WindowTypes DEF Last
<1>2. MayStillFail(o, k, from)' \subseteq MayStillFail(o, k, from) \ {t}
  BY <1>1 DEF MayStillFail, Idle
<1>3. CASE ~(o = p /\ k = q)
  <2>1. /\ failures'[o][k] = failures[o][k] /\ attempts'[o][k] = attempts[o][k]
        /\ blockedUntil'[o][k] = blockedUntil[o][k]
    BY <1>3, RegisterEffect
  <2>2. Shut(o, k, from) => Shut(o, k, from)'
    BY <1>1, <2>1 DEF Shut
  <2> QED
    BY <1>2, <2>1, <2>2, WindowKept
<1>4. CASE o = p /\ k = q
  <2>0. /\ new.at = at
        /\ failures'[o][k] = failures[o][k] \cup {new}
        /\ \/ /\ attempts'[o][k] = {}
              /\ blockedUntil'[o][k] = at + Cooldown[o]
           \/ /\ attempts'[o][k] = Cleanup(attempts[o][k], at, Cooldown[o]) \cup {new}
              /\ blockedUntil'[o][k] = blockedUntil[o][k]
    BY <1>0, <1>4
  <2> DEFINE before == Within(o, k, from)
             after == Within(o, k, from)'
             others == MayStillFail(o, k, from)'
             most == Allowed(o) + Cardinality(Threads) - 1
  <2>1. after = IF at \in from .. Last(o, from) THEN before \cup {new} ELSE before
    BY <1>1, <2>0 DEF Within
  <2>2. /\ IsFiniteSet(before) /\ Cardinality(before) \in Nat
        /\ Cardinality(after) \in Nat
        /\ Cardinality(after) <= Cardinality(before)
              + IF at \in from .. Last(o, from) THEN 1 ELSE 0
    <3>1. IsFiniteSet(before) /\ Cardinality(before) \in Nat
      BY WindowTypes
    <3> HIDE DEF before, after
    <3>2. CASE at \in from .. Last(o, from)
      <4>1. after = before \cup {new}
        BY <2>1, <3>2
      <4>2. Cardinality(before \cup {new}) =
               IF new \in before THEN Cardinality(before) ELSE Cardinality(before) + 1
        BY <3>1, FS_AddElement
      <4> QED
        BY <3>1, <3>2, <4>1, <4>2
    <3>3. CASE at \notin from .. Last(o, from)
      BY <2>1, <3>1, <3>3
    <3> QED
      BY <3>2, <3>3
  <2>3. /\ others \in SUBSET Threads /\ t \notin others
        /\ Cardinality(others) \in Nat /\ Cardinality(others) + 1 <= Cardinality(Threads)
    BY <1>2, ThreadsAreFinite DEF MayStillFail
  <2>4. /\ Allowed(o)' = Allowed(o) /\ Allowed(o) \in Nat /\ Cardinality(Threads) \in Nat
        /\ Cooldown[o] \in Nat /\ MaxHold \in Nat
    BY Constants, ThreadsAreFinite DEF Allowed
  <2>5. \A f \in before : f.at \in Nat /\ from <= f.at /\ f.at <= Last(o, from) /\ f.at <= now
    BY WindowTypes DEF Within, IInv, AttemptsHappened, TypeOK, Failure
  <2>6. CASE now < from
    <3>1. after = {}
      BY <1>1, <2>1, <2>5, <2>6
    <3> QED
      BY <3>1 DEF AllRemembered
  <2>7. CASE now >= from /\ AllRemembered(o, k, from)
    <3>1. Cardinality(before) < Allowed(o)
      <4>1. IsFiniteSet(attempts[o][k]) /\ Cardinality(attempts[o][k]) < Allowed(o)
        BY FS_Subset DEF IInv, TypeOK, AttemptsHappened
      <4>2. Cardinality(before) <= Cardinality(attempts[o][k]) /\ Cardinality(attempts[o][k]) \in Nat
        BY <2>7, <4>1, CountOfPart DEF AllRemembered
      <4> QED
        BY <2>2, <2>4, <4>1, <4>2
    <3>2. Cardinality(after) + Cardinality(others) <= most
      BY <2>2, <2>3, <2>4, <3>1
    <3>3. CASE attempts'[o][k] = {} /\ blockedUntil'[o][k] = at + Cooldown[o]
      <4>1. at + Cooldown[o] > Last(o, from)
        BY <1>1, <2>4, <2>7 DEF Last
      <4>2. Shut(o, k, from)'
        BY <1>1, <3>3, <4>1 DEF Shut
      <4> QED
        BY <2>4, <3>2, <4>2 DEF Counted
    <3>4. CASE attempts'[o][k] = Cleanup(attempts[o][k], at, Cooldown[o]) \cup {new}
      <4>1. CASE \A f \in before : f.at >= at - Cooldown[o]
        <5>1. after \subseteq attempts'[o][k]
          BY <2>1, <2>7, <3>4, <4>1 DEF AllRemembered, Cleanup
        <5> QED
          BY <5>1 DEF AllRemembered
      <4>2. CASE ~\A f \in before : f.at >= at - Cooldown[o]
        <5>1. now > Last(o, from)
          BY <1>1, <2>4, <2>5, <4>2 DEF Last
        <5>2. Shut(o, k, from)'
          BY <1>1, <5>1 DEF Shut
        <5> QED
          BY <2>4, <3>2, <5>2 DEF Counted
      <4> QED
        BY <4>1, <4>2
    <3> QED
      BY <2>0, <3>3, <3>4
  <2>8. CASE now >= from /\ Counted(o, k, from)
    <3>1. Shut(o, k, from)'
      <4>1. CASE blockedUntil'[o][k] = blockedUntil[o][k]
        BY <1>1, <2>8, <4>1 DEF Counted, Shut
      <4>2. CASE blockedUntil'[o][k] = at + Cooldown[o]
        <5>1. at + Cooldown[o] > Last(o, from)
          BY <1>1, <2>4, <2>8 DEF Last
        <5> QED
          BY <1>1, <4>2, <5>1 DEF Shut
      <4> QED
        BY <2>0, <4>1, <4>2
    <3>2. Cardinality(after) + Cardinality(others) <= most
      <4> DEFINE those == MayStillFail(o, k, from)
      <4>1. /\ Cardinality(before) + Cardinality(those) <= most
            /\ those \in SUBSET Threads /\ IsFiniteSet(those) /\ Cardinality(those) \in Nat
        BY <2>8, ThreadsAreFinite DEF Counted, MayStillFail
      <4>2. CASE at \in from .. Last(o, from)
        <5>1. t \in those
          BY <1>1, <1>4, <4>2 DEF MayStillFail, RegisterFailure
        <5>2. /\ IsFiniteSet(those \ {t})
              /\ Cardinality(those \ {t}) = Cardinality(those) - 1
          BY <4>1, <5>1, FS_RemoveElement
        <5>3. Cardinality(others) <= Cardinality(those \ {t})
          BY <1>2, <5>2, CountOfPart
        <5> QED
          BY <2>2, <2>3, <2>4, <4>1, <4>2, <5>2, <5>3
      <4>3. CASE at \notin from .. Last(o, from)
        <5>1. Cardinality(others) <= Cardinality(those)
          BY <1>2, <4>1, CountOfPart
        <5> QED
          BY <2>2, <2>3, <2>4, <4>1, <4>3, <5>1
      <4> QED
        BY <4>2, <4>3
    <3> QED
      BY <2>4, <3>1, <3>2 DEF Counted
  <2> QED
    BY <1>1, <2>6, <2>7, <2>8 DEF WindowsHold
<1> QED
  BY <1>3, <1>4

(* The windows hold in every reachable state. *)
LEMMA StepWindows == IInv /\ WindowsHold /\ [Next]_vars => WindowsHold'
<1> SUFFICES ASSUME IInv, WindowsHold, [Next]_vars
             PROVE  WindowsHold'
  OBVIOUS
<1>1. ASSUME NEW t \in Threads, Succeed(t)
      PROVE  WindowsHold'
  <2> SUFFICES ASSUME NEW o \in Limiters, NEW k \in Keys, NEW from \in Nat
               PROVE  AllRemembered(o, k, from)' \/ Counted(o, k, from)'
    BY DEF WindowsHold
  <2> PICK p, q : p = thread[t].lim /\ q = thread[t].key
    OBVIOUS
  <2>1. p \in Limiters /\ q \in Keys
    BY <1>1 DEF Succeed, IInv, TypeOK, ThreadOK
  <2>2. /\ attempts' = [attempts EXCEPT ![p][q] = {}]
        /\ blockedUntil' = [blockedUntil EXCEPT ![p][q] = 0]
        /\ failures' = [failures EXCEPT ![p][q] = {}]
        /\ thread' = [thread EXCEPT ![t] = Idle] /\ now' = now
    BY <1>1 DEF Succeed
  <2>3. /\ attempts'[o][k] = IF o = p /\ k = q THEN {} ELSE attempts[o][k]
        /\ failures'[o][k] = IF o = p /\ k = q THEN {} ELSE failures[o][k]
        /\ blockedUntil'[o][k] = IF o = p /\ k = q THEN 0 ELSE blockedUntil[o][k]
    BY <2>1, <2>2, EntrySet DEF IInv, TypeOK
  <2>4. CASE o = p /\ k = q
    BY <2>3, <2>4 DEF AllRemembered, Within
  <2>5. CASE ~(o = p /\ k = q)
    <3>1. /\ Last(o, from)' = Last(o, from)
          /\ \A u \in Threads : thread'[u] = IF u = t THEN Idle ELSE thread[u]
      BY <2>2 DEF Last, IInv, TypeOK
    <3>2. MayStillFail(o, k, from)' \subseteq MayStillFail(o, k, from)
      BY <2>2, <3>1 DEF MayStillFail, Idle
    <3>3. Shut(o, k, from) => Shut(o, k, from)'
      BY <2>2, <2>3, <2>5, <3>1 DEF Shut
    <3> QED
      BY <2>3, <2>5, <3>2, <3>3, WindowKept
  <2> QED
    BY <2>4, <2>5
<1>2. CASE ReplaceLimiter \/ UNCHANGED vars
  <2>1. UNCHANGED <<now, attempts, blockedUntil, thread, failures>>
    BY <1>2 DEF ReplaceLimiter, vars
  <2> SUFFICES ASSUME NEW o \in Limiters, NEW k \in Keys, NEW from \in Nat
               PROVE  AllRemembered(o, k, from)' \/ Counted(o, k, from)'
    BY DEF WindowsHold
  <2>2. /\ Shut(o, k, from) => Shut(o, k, from)'
        /\ MayStillFail(o, k, from)' \subseteq MayStillFail(o, k, from)
    BY <2>1 DEF Shut, MayStillFail, Last
  <2> QED
    BY <2>1, <2>2, WindowKept
<1> QED
  BY <1>1, <1>2, TickWindows, RequestWindows, RegisterWindows DEF Next

-----------------------------------------------------------------------------
(* The limiters and the threads are typed, and a list of attempts is always *)
(* shorter than what blocks, whatever limit an admin has set.               *)
THEOREM TypeCorrect == Spec => []TypeOK
<1>1. IInv => TypeOK
  BY DEF IInv
<1> QED
  BY InitIInv, StepIInv, <1>1, PTL DEF Spec

(* No client is ever blocked for less than the failures it takes, for those *)
(* of another client, or for those before its last successful login.        *)
THEOREM BlocksAreEarned == Spec => []BlockIsEarned
<1>1. IInv => BlockIsEarned
  BY DEF IInv
<1> QED
  BY InitIInv, StepIInv, <1>1, PTL DEF Spec

(* However many threads check passwords at once, a client fails in no       *)
(* window more often than its limiter allows and once for each other        *)
(* thread.                                                                  *)
THEOREM FailuresStayBounded == Spec => []FailuresAreBounded
<1>1. Init => WindowsHold
  BY DEF Init, WindowsHold, AllRemembered, Within
<1>2. IInv /\ WindowsHold => FailuresAreBounded
  <2> SUFFICES ASSUME IInv, WindowsHold,
                      NEW o \in Limiters, NEW k \in Keys, NEW from \in 1 .. now
               PROVE  Cardinality(Within(o, k, from)) <= Allowed(o) + Cardinality(Threads) - 1
    BY DEF FailuresAreBounded, FailedWithin, Within, Last
  <2>1. from \in Nat
    BY DEF IInv, TypeOK
  <2>2. /\ Cardinality(Threads) \in Nat /\ Allowed(o) \in Nat
        /\ Cardinality(Within(o, k, from)) \in Nat
        /\ Cardinality(MayStillFail(o, k, from)) \in Nat
    BY <2>1, ThreadsAreFinite, Constants, WindowTypes
  <2>3. CASE AllRemembered(o, k, from)
    <3>1. IsFiniteSet(attempts[o][k]) /\ Cardinality(attempts[o][k]) < Allowed(o)
      BY FS_Subset DEF IInv, TypeOK, AttemptsHappened
    <3>2. /\ Cardinality(attempts[o][k]) \in Nat
          /\ Cardinality(Within(o, k, from)) <= Cardinality(attempts[o][k])
      BY <2>3, <3>1, CountOfPart DEF AllRemembered
    <3> QED
      BY <2>2, <3>1, <3>2
  <2>4. CASE Counted(o, k, from)
    BY <2>2, <2>4 DEF Counted
  <2> QED
    BY <2>1, <2>3, <2>4 DEF WindowsHold
<1> QED
  BY InitIInv, StepIInv, StepWindows, <1>1, <1>2, PTL DEF Spec
=============================================================================
