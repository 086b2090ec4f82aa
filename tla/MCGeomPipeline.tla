--------------------------- MODULE MCGeomPipeline ---------------------------
(* Small instances of GeomPipeline for TLC. *)
EXTENDS GeomPipeline

CONSTANTS a, b,    \* two parcels
          t1, t2   \* two request threads

(* Uploaded sheets: one that names a parcel twice, and one that lacks a     *)
(* parcel of the seed.                                                      *)
MCSheets == {<<b, a, b>>, <<a>>}
MCSheetsTwo == {<<a, b>>}

(* seed/lands.json has a boundary on each of its rows; one without is what  *)
(* the loader accepts too.                                                  *)
MCSeed == <<[addr |-> a, geom |-> a], [addr |-> b, geom |-> NoGeom]>>
MCNoSeed == <<>>
=============================================================================
