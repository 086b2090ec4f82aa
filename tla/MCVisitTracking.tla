---------------------------- MODULE MCVisitTracking ----------------------------
(* A small instance of VisitTracking for TLC. *)
EXTENDS VisitTracking, TLC

CONSTANTS x, y, robot, \* browsers
          t1, t2       \* tabs

(* Two tabs of one browser, of two, and of one that looks like a robot. *)
MCOwners == {[t \in Tabs |-> x], t1 :> x @@ t2 :> y, [t \in Tabs |-> robot]}

(* A clock that is right, one as far behind as an event may be old, and one *)
(* just beyond the tolerance.                                               *)
MCSkews == {-PastLimit, 0, FutureTolerance + 1}
=============================================================================
