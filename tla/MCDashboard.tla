------------------------------ MODULE MCDashboard ------------------------------
(* A small instance of Dashboard for TLC. *)
EXTENDS Dashboard, TLC

CONSTANTS t1, t2  \* request threads

(* A search whose minimum area is nan, a click on a parcel, and a search    *)
(* that is refused.                                                         *)
MCPayloads ==
    {[type |-> "search", anon |-> 1, minArea |-> NaN, term |-> [name |-> 1, digits |-> TRUE]],
     [type |-> "land_click", anon |-> Nothing, land |-> 1],
     [type |-> "search", anon |-> 1, minArea |-> -1, term |-> [name |-> 1, digits |-> FALSE]]}

(* The threads do the same. *)
MCSymmetry == Permutations(Threads)
=============================================================================
