------------------------------- MODULE AdminLogin ------------------------------
(***************************************************************************)
(* Logging in, and the limiter that blocks a client after too many wrong   *)
(* passwords.                                                              *)
(*                                                                         *)
(*   app/routers/auth.py            login                                  *)
(*   app/services/auth_service.py   login                                  *)
(*   app/auth_security.py           LoginAttemptLimiter                    *)
(*   app/core/runtime_config.py     the limiter is replaced                *)
(*                                                                         *)
(* Requests run in threads.  The limiter has a lock, but is asked before   *)
(* the password is checked and told after; and it reads the clock before   *)
(* it takes the lock.  The session that a login begins is left out.        *)
(***************************************************************************)
EXTENDS Integers, FiniteSets

CONSTANTS Threads,
          Keys,        \* clients: an address and a user name
          AdminKeys,   \* those with the name of the admin
          Limiters,    \* 1, and a number for each limiter that replaces one
          MaxAttempts, \* of each: LOGIN_MAX_ATTEMPTS
          Cooldown,    \* of each: LOGIN_COOLDOWN_SECONDS
          MaxHold,     \* bound: ticks between the clock and the lock
          MaxLogins,   \* bound: logins
          MaxTime      \* bound: the clock

ASSUME AdminLoginAssumption ==
    /\ AdminKeys \subseteq Keys
    /\ Limiters \subseteq Nat /\ 1 \in Limiters
    /\ MaxAttempts \in [Limiters -> Nat] /\ Cooldown \in [Limiters -> Nat]
    /\ {MaxHold, MaxLogins, MaxTime} \subseteq Nat
    /\ IsFiniteSet(Threads)

VARIABLES now,
          attempts,     \* _attempts of each limiter there was
          blockedUntil, \* _blocked_until; 0 where the key is not in it
          limiter,      \* app.state.login_limiter
          thread, logins,
          failures      \* history: the failures since the last reset

vars == <<now, attempts, blockedUntil, limiter, thread, logins, failures>>

(* A failure, by its number and time.  A list of attempts is a set of them, *)
(* for only its length and the times in it matter.                          *)
Failure == [no : Nat \ {0}, at : Nat]

(* at: the clock as the limiter read it *)
Idle == [pc |-> "idle"]

Init ==
    /\ now = 1 /\ limiter = 1 /\ logins = 0
    /\ attempts = [o \in Limiters |-> [k \in Keys |-> {}]]
    /\ blockedUntil = [o \in Limiters |-> [k \in Keys |-> 0]]
    /\ thread = [t \in Threads |-> Idle]
    /\ failures = [o \in Limiters |-> [k \in Keys |-> {}]]

-----------------------------------------------------------------------------
AtLock(t) == thread[t].pc \in {"ask", "tell"}

Tick ==
    /\ now < MaxTime
    /\ \A t \in Threads : AtLock(t) => now < thread[t].at + MaxHold
    /\ now' = now + 1
    /\ UNCHANGED <<attempts, blockedUntil, limiter, thread, logins, failures>>

(* The router takes the limiter of the moment, and is_blocked the time.     *)
Login(t, k) ==
    /\ thread[t].pc = "idle" /\ logins < MaxLogins
    /\ logins' = logins + 1
    /\ thread' = [thread EXCEPT ![t] = [pc |-> "ask", key |-> k, lim |-> limiter, at |-> now]]
    /\ UNCHANGED <<now, attempts, blockedUntil, limiter, failures>>

(* is_blocked, with the lock: blocked clients are answered 429. *)
AskLimiter(t) ==
    LET r == thread[t]
    IN  /\ r.pc = "ask"
        /\ IF blockedUntil[r.lim][r.key] > r.at
           THEN /\ thread' = [thread EXCEPT ![t] = Idle]
                /\ UNCHANGED blockedUntil
           ELSE /\ thread' = [thread EXCEPT ![t] = [pc |-> "check", key |-> r.key, lim |-> r.lim]]
                /\ blockedUntil' = [blockedUntil EXCEPT ![r.lim][r.key] = 0]
        /\ UNCHANGED <<now, attempts, limiter, logins, failures>>

(* 403 for the token, 500 for a hash that bcrypt cannot use: the limiter is *)
(* not told.                                                                *)
NotChecked(t) ==
    /\ thread[t].pc = "check"
    /\ thread' = [thread EXCEPT ![t] = Idle]
    /\ UNCHANGED <<now, attempts, blockedUntil, limiter, logins, failures>>

(* The password is wrong, or the name is. *)
WrongPassword(t) ==
    /\ thread[t].pc = "check"
    /\ thread' = [thread EXCEPT ![t] = [pc |-> "tell", key |-> thread[t].key,
                                        lim |-> thread[t].lim, at |-> now]]
    /\ UNCHANGED <<now, attempts, blockedUntil, limiter, logins, failures>>

(* Variants: only what the same moment saw is kept; everything is.          *)
KeepLatest(list, at, cooldown) == {f \in list : f.at >= at}
KeepAll(list, at, cooldown) == list

(* _cleanup *)
Cleanup(list, at, cooldown) == {f \in list : f.at >= at - cooldown}

(* Variant: one attempt more. *)
IsOver(list, max) == Cardinality(list) > max

IsFull(list, max) == Cardinality(list) >= max

(* register_failure, with the lock *)
RegisterFailure(t) ==
    LET o    == thread[t].lim
        k    == thread[t].key
        at   == thread[t].at
        new  == [no |-> Cardinality(failures[o][k]) + 1, at |-> at]
        list == Cleanup(attempts[o][k], at, Cooldown[o]) \cup {new}
    IN  /\ thread[t].pc = "tell"
        /\ IF IsFull(list, MaxAttempts[o])
           THEN /\ blockedUntil' = [blockedUntil EXCEPT ![o][k] = at + Cooldown[o]]
                /\ attempts' = [attempts EXCEPT ![o][k] = {}]
           ELSE /\ attempts' = [attempts EXCEPT ![o][k] = list]
                /\ UNCHANGED blockedUntil
        /\ failures' = [failures EXCEPT ![o][k] = @ \cup {new}]
        /\ thread' = [thread EXCEPT ![t] = Idle]
        /\ UNCHANGED <<now, limiter, logins>>

(* The right password of the admin: reset, with the lock. *)
Succeed(t) ==
    LET r == thread[t]
    IN  /\ r.pc = "check" /\ r.key \in AdminKeys
        /\ attempts' = [attempts EXCEPT ![r.lim][r.key] = {}]
        /\ blockedUntil' = [blockedUntil EXCEPT ![r.lim][r.key] = 0]
        /\ failures' = [failures EXCEPT ![r.lim][r.key] = {}]
        /\ thread' = [thread EXCEPT ![t] = Idle]
        /\ UNCHANGED <<now, limiter, logins>>

(* rebuild_runtime_state: the settings of the limiter were changed, and a   *)
(* new one takes its place; threads that have the old one keep it.          *)
ReplaceLimiter ==
    /\ limiter + 1 \in Limiters
    /\ limiter' = limiter + 1
    /\ UNCHANGED <<now, attempts, blockedUntil, thread, logins, failures>>

Next ==
    \/ Tick \/ ReplaceLimiter
    \/ \E t \in Threads :
          \/ \E k \in Keys : Login(t, k)
          \/ AskLimiter(t) \/ NotChecked(t) \/ WrongPassword(t)
          \/ RegisterFailure(t) \/ Succeed(t)

Spec == Init /\ [][Next]_vars

-----------------------------------------------------------------------------
ThreadOK(r) ==
    /\ r.pc \in {"idle", "ask", "check", "tell"}
    /\ r.pc # "idle" => r.key \in Keys /\ r.lim \in Limiters
    /\ r.pc \in {"ask", "tell"} => r.at \in 1 .. now /\ now <= r.at + MaxHold

(* The failures that block: a limit of 0 needs one, too. *)
Allowed(o) == IF MaxAttempts[o] = 0 THEN 1 ELSE MaxAttempts[o]

(* A list of attempts is always shorter than what would block. *)
TypeOK ==
    /\ now \in 1 .. MaxTime + 1 /\ logins \in 0 .. MaxLogins /\ limiter \in Limiters
    /\ DOMAIN thread = Threads /\ \A t \in Threads : ThreadOK(thread[t])
    /\ attempts \in [Limiters -> [Keys -> SUBSET Failure]]
    /\ blockedUntil \in [Limiters -> [Keys -> Nat]]
    /\ failures \in [Limiters -> [Keys -> SUBSET Failure]]
    /\ \A o \in Limiters, k \in Keys : Cardinality(attempts[o][k]) < Allowed(o)

FailedWithin(o, k, times) == {f \in failures[o][k] : f.at \in times}

(* However the threads overlap, a client cannot try more passwords than the *)
(* limiter allows and one for each other thread: those were let in before   *)
(* the block, and each comes too late only once.  The time a thread is held *)
(* up between the clock and the lock shortens the block.                    *)
FailuresAreBounded ==
    \A o \in Limiters, k \in Keys, from \in 1 .. now :
        Cardinality(FailedWithin(o, k, from .. (from + Cooldown[o] - MaxHold - 1)))
            <= Allowed(o) + Cardinality(Threads) - 1

(* A client is blocked only for as many failures as it takes, all within    *)
(* the cooldown before the block and since its last successful login,       *)
(* whatever other clients and other limiters count.                         *)
BlockIsEarned ==
    \A o \in Limiters, k \in Keys :
        LET until == blockedUntil[o][k]
            start == until - Cooldown[o]
        IN  until # 0 =>
                Cardinality(FailedWithin(o, k, (start - Cooldown[o]) .. (start + MaxHold)))
                    >= Allowed(o)
=============================================================================
