------------------------------ MODULE MCMapPage ------------------------------
(* Small instances of MapPage for TLC. *)
EXTENDS MapPage

CONSTANTS a, b, c  \* three parcels

With(addr) == [addr |-> addr, geom |-> addr]
Without(addr) == [addr |-> addr, geom |-> NoGeom]

(* Three rows, one of which has no boundary yet, so that there is an odd    *)
(* page; an upload that leaves other rows, and one that leaves none.        *)
MCFirst == <<With(a), Without(b), With(c)>>
MCSheets == {<<With(c), Without(a)>>, <<>>}

(* All parcels match, or two, or one. *)
MCFilters == {{a, b, c}, {b, c}, {a}}
MCReset == {a, b, c}
=============================================================================
