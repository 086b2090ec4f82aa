------------------------------ MODULE LandTable ------------------------------
(***************************************************************************)
(* The poi table of app/repositories/land_repository.py, as a relation: a  *)
(* set of rows.  A row keeps what the collection of boundaries reads and   *)
(* writes: its id, its address and its boundary (column geom).  A boundary *)
(* is represented by the address it was resolved for, so that a row that   *)
(* carries the boundary of another parcel can be told from a correct one;  *)
(* the area, the land type, the property columns and the contact are left  *)
(* out.                                                                    *)
(*                                                                         *)
(* The operators are the statements of the repository.  What a statement   *)
(* reads or changes in one transaction is decided by the module that uses  *)
(* them (GeomPipeline).                                                    *)
(***************************************************************************)
EXTENDS Naturals, FiniteSets, Sequences

CONSTANTS Address,   \* parcel addresses that appear in uploaded sheets
          NoGeom     \* geom IS NULL

ASSUME NoGeomIsNoAddress == NoGeom \notin Address

Boundary == Address \cup {NoGeom}

LandRow == [id : Nat, addr : Address, geom : Boundary]

(* A row before its insertion: the id is assigned by the table. *)
NewRow == [addr : Address, geom : Boundary]

(* What fetch_missing_geom selects of a row. *)
LandItem == [id : Nat, addr : Address]

-----------------------------------------------------------------------------
(* ORDER BY id LIMIT n *)
FirstById(rows, n) ==
    {r \in rows : Cardinality({q \in rows : q.id < r.id}) < n}

MissingGeom(land) == {r \in land : r.geom = NoGeom}

FetchMissingGeom(land, limit, afterId) ==
    {[id |-> r.id, addr |-> r.addr] :
        r \in FirstById({q \in MissingGeom(land) : q.id > afterId}, limit)}

(* Variant: the row of the cursor comes again. *)
FetchPageFrom(land, limit, fromId) ==
    {[id |-> r.id, addr |-> r.addr] :
        r \in FirstById({q \in land : q.geom # NoGeom /\ q.id >= fromId}, limit)}

(* fetch_lands_with_geom_page *)
FetchPage(land, limit, afterId) ==
    {[id |-> r.id, addr |-> r.addr] :
        r \in FirstById({q \in land : q.geom # NoGeom /\ q.id > afterId}, limit)}

CountMissingGeom(land) == Cardinality(MissingGeom(land))

(* The dictionary address -> boundary of the rows that have one.  Several   *)
(* rows may carry one address; the SELECT has no ORDER BY, so any of them   *)
(* may be the one whose boundary is kept.                                   *)
FetchGeomByAddress(land) ==
    [a \in Address |->
        LET located == {r \in land : r.addr = a /\ r.geom # NoGeom}
        IN  IF located = {} THEN NoGeom ELSE (CHOOSE r \in located : TRUE).geom]

(* UPDATE poi SET geom = ? WHERE id = ?: no row when the id is gone. *)
UpdateGeom(land, id, geom) ==
    {IF r.id = id THEN [r EXCEPT !.geom = geom] ELSE r : r \in land}

(* Variant: without AUTOINCREMENT the emptied table starts at 1 again. *)
InsertLandsReusingIds(rows, nextId) ==
    {[id |-> i, addr |-> rows[i].addr, geom |-> rows[i].geom] : i \in DOMAIN rows}

(* INSERTs into the emptied table: the column is AUTOINCREMENT, so the ids  *)
(* go on from the largest one ever given.                                   *)
InsertLands(rows, nextId) ==
    {[id |-> nextId + i - 1, addr |-> rows[i].addr, geom |-> rows[i].geom] :
        i \in DOMAIN rows}
=============================================================================
