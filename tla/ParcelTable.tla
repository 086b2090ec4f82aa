------------------------------ MODULE ParcelTable ------------------------------
(***************************************************************************)
(* What everybody else may expect of the table of parcels, whatever        *)
(* uploads, jobs and restarts do to it: a row changes only by receiving    *)
(* the boundary that it lacks, its own; otherwise the whole table is       *)
(* replaced, and the new rows have the next ids without a gap.             *)
(* GeomPipeline implements it, and the map page allows for all of it       *)
(* (MapPage).                                                              *)
(***************************************************************************)
EXTENDS LandTable

VARIABLES rows, \* the poi table
          next  \* its AUTOINCREMENT counter

tableVars == <<next, rows>>

PInit == rows = {} /\ next = 1

Replace ==
    /\ next' \in Nat /\ next' >= next
    /\ rows' \subseteq LandRow
    /\ {r.id : r \in rows'} = next .. next' - 1
    /\ \A r, q \in rows' : r.id = q.id => r = q
    /\ \A r \in rows' : r.geom \in {NoGeom, r.addr}

Locate(r) ==
    /\ UNCHANGED next
    /\ rows' = (rows \ {r}) \cup {[r EXCEPT !.geom = r.addr]}

PNext == Replace \/ \E r \in MissingGeom(rows) : Locate(r)

PSpec == PInit /\ [][PNext]_tableVars
=============================================================================
