----------------------------- MODULE MCAdminLogin ------------------------------
(* A small instance of AdminLogin for TLC. *)
EXTENDS AdminLogin, TLC

CONSTANTS t1, t2, t3,  \* threads
          admin, other \* clients

(* The second limiter is stricter: 0 is what the settings form accepts, too. *)
MCMaxAttempts == <<2, 0>>
MCCooldown == <<3, 2>>

(* The threads do the same. *)
MCSymmetry == Permutations(Threads)
=============================================================================
