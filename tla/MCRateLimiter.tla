---------------------------- MODULE MCRateLimiter ----------------------------
(* Small instances of RateLimiter for TLC. *)
EXTENDS RateLimiter, TLC

CONSTANTS t1, t2,
          ip1, global, dl   \* events of a client, all events, downloads

MCKeys == {ip1, global, dl}

(* An event is checked for its client and then for all of them; a download  *)
(* for its client.                                                          *)
MCRoutes == {<<ip1, global>>, <<dl>>}

MCLimit == [k \in Keys |-> IF k = ip1 THEN 2 ELSE 1]

Symmetry == Permutations(Threads)
=============================================================================
