------------------------------- MODULE MapPage -------------------------------
(***************************************************************************)
(* The public map page: parcels that stream in page by page from a table   *)
(* that the collection of boundaries goes on changing, and a user who      *)
(* filters, selects and navigates meanwhile.                               *)
(*                                                                         *)
(*   app/services/land_service.py      get_public_land_features_page       *)
(*   frontend/src/map/lands-client.ts  streamLandFeatures                  *)
(*   frontend/src/map/map-bootstrap.ts bootstrapMapData                    *)
(*   frontend/src/map/selection-controller.ts, state.ts, filters.ts        *)
(*   frontend/src/map/map-view.ts, map-view-feature-layers.ts              *)
(*                                                                         *)
(* An action of the page is one turn of the browser's event loop: a handler*)
(* of the user's, or the answer to a fetch with all that is done before the*)
(* next await.  Indexes start at 1, and 0 stands for -1 and null.          *)
(***************************************************************************)
EXTENDS LandTable, Integers

CONSTANTS Sheets,       \* sheets an admin may upload while the page loads
          FirstSheet,   \* the table when the page is opened
          PageSize,     \* limit of /api/lands
          FilterInputs, \* what the filter boxes may hold: the parcels it matches
          ResetInput,   \* what reset leaves in them
          MaxUploads    \* bound: uploads while the page is open

ASSUME MapPageAssumption ==
    /\ Sheets \subseteq Seq(NewRow) /\ FirstSheet \in Seq(NewRow)
    /\ PageSize \in Nat \ {0}
    /\ FilterInputs \subseteq SUBSET Address /\ ResetInput \in FilterInputs
    /\ MaxUploads \in Nat

VARIABLES
    land, nextLand, \* the poi table
    uploads,        \* uploads so far
    load,           \* streamLandFeatures and bootstrapMapData
    accumulated,    \* their features so far
    state,          \* state.ts
    input,          \* the filter boxes
    layers,         \* map-view-feature-layers.ts
    list,           \* what the list panel shows
    panel,          \* the detail panel
    applied,        \* history: the filter of the last rendering
    late            \* history: rows whose boundary came behind the cursor

table == <<land, nextLand, uploads>>
shown == <<state, layers, list, applied>>
vars == <<table, load, accumulated, shown, input, panel, late>>

-----------------------------------------------------------------------------
Feature == LandItem

NoFeature == [id |-> 0, addr |-> NoGeom]

(* rows: of the answer on its way; next: its nextCursor, 0 for null *)
Loading == [pc : {"config", "ask", "answer", "done", "failed"}, cursor : Nat,
            rows : SUBSET Feature, next : Nat]

(* In the state, original is null until ready.  What is drawn are objects   *)
(* [index, feature]: a feature under the id it was given.                   *)
Init ==
    /\ land = InsertLands(FirstSheet, 1)
    /\ nextLand = Len(FirstSheet) + 1
    /\ uploads = 0
    /\ load = [pc |-> "config", cursor |-> 0, rows |-> {}, next |-> 0]
    /\ accumulated = <<>>
    /\ state = [ready |-> FALSE, original |-> <<>>, current |-> <<>>, index |-> 0]
    /\ input = ResetInput
    /\ layers = [features |-> <<>>, selectedId |-> 0, base |-> {}, selected |-> {}]
    /\ list = "loading"
    /\ panel = NoFeature
    /\ applied = ResetInput
    /\ late = {}

-----------------------------------------------------------------------------
(* The table, changed by the other side of the application. *)
Upload(sheet) ==
    /\ uploads < MaxUploads
    /\ uploads' = uploads + 1
    /\ land' = InsertLands(sheet, nextLand)
    /\ nextLand' = nextLand + Len(sheet)
    /\ UNCHANGED <<load, accumulated, shown, input, panel, late>>

(* A job writes a boundary. *)
Collect(r) ==
    /\ land' = UpdateGeom(land, r.id, r.addr)
    /\ late' = IF r.id <= load.cursor \/ r.id <= load.next THEN late \cup {r.id} ELSE late
    /\ UNCHANGED <<nextLand, uploads, load, accumulated, shown, input, panel>>

-----------------------------------------------------------------------------
(* map-view-feature-layers.ts *)

At(features, i) == [index |-> i, feature |-> features[i]]

DrawnFrom(features) == {At(features, i) : i \in DOMAIN features}

(* The object under the selected id, unless none is selected. *)
DrawnAs(features, id) == {d \in DrawnFrom(features) : id # 0 /\ d.index = id}

(* Variants: what is in the layer of the selection stays there; the new     *)
(* features are all drawn in the base layer.                                *)
SetFeaturesKeepingSelected(l, next) ==
    LET chosen == DrawnAs(next, l.selectedId)
    IN  [features   |-> next,
         selectedId |-> IF chosen = {} THEN 0 ELSE l.selectedId,
         base       |-> (l.base \ DrawnFrom(l.features)) \cup (DrawnFrom(next) \ chosen),
         selected   |-> l.selected \cup chosen]

(* setFeatures: the objects drawn before leave both sources, the new ones   *)
(* go to the source of their id.  The selected id stays as long as there is *)
(* a feature with that id, whichever parcel it is.                          *)
SetFeatures(l, next) ==
    LET gone   == DrawnFrom(l.features)
        chosen == DrawnAs(next, l.selectedId)
    IN  [features   |-> next,
         selectedId |-> IF chosen = {} THEN 0 ELSE l.selectedId,
         base       |-> (l.base \ gone) \cup (DrawnFrom(next) \ chosen),
         selected   |-> (l.selected \ gone) \cup chosen]

(* Variant: the feature that was selected is not put back. *)
SelectForgettingPrevious(l, id) ==
    LET after == DrawnAs(l.features, id)
    IN  IF l.selectedId = id THEN l
        ELSE [l EXCEPT !.selectedId = IF after = {} THEN 0 ELSE id,
                       !.base = @ \ after, !.selected = after]

(* selectFeatureId: the feature selected before goes back to the base.      *)
SelectFeatureId(l, id) ==
    LET before == DrawnAs(l.features, l.selectedId)
        after  == DrawnAs(l.features, id)
    IN  IF l.selectedId = id THEN l
        ELSE [l EXCEPT !.selectedId = IF after = {} THEN 0 ELSE id,
                       !.base = (@ \cup before) \ after,
                       !.selected = (@ \ before) \cup after]

-----------------------------------------------------------------------------
(* selection-controller.ts and state.ts *)

Matches(features, parcels) == SelectSeq(features, LAMBDA f : f.addr \in parcels)

(* Variant: the index follows the parcel that was selected. *)
RenderFollowingParcel(s, features) ==
    LET places == {i \in DOMAIN features : s.index # 0 /\ features[i] = s.current[s.index]}
    IN  [s EXCEPT !.current = features,
                  !.index = IF places = {} THEN 0 ELSE CHOOSE i \in places : TRUE]

(* setCurrentFeatures *)
SetCurrentFeatures(s, features) == [s EXCEPT !.current = features, !.index = 0]

(* applyFilters and renderCollection, of the state s and the layers l *)
ApplyFilters(s, l, parcels) ==
    LET features == Matches(s.original, parcels)
    IN  /\ state' = SetCurrentFeatures(s, features)
        /\ layers' = SetFeatures(l, features)
        /\ list' = "items"
        /\ applied' = parcels

(* selectItem *)
SelectItem(i) ==
    /\ i # 0 /\ i \in DOMAIN state.current
    /\ state' = [state EXCEPT !.index = i]
    /\ layers' = IF i \in DOMAIN layers.features THEN SelectFeatureId(layers, i) ELSE layers
    /\ UNCHANGED <<table, load, accumulated, input, list, applied, late>>

-----------------------------------------------------------------------------
(* Loading. *)

Configure ==
    /\ load.pc = "config"
    /\ load' = [load EXCEPT !.pc = "ask"]
    /\ UNCHANGED <<table, accumulated, shown, input, panel, late>>

LastId(rows) == (CHOOSE r \in rows : \A q \in rows : q.id <= r.id).id

(* Variant: a cursor also after the last page. *)
NextCursorOfEmpty(rows) == IF rows = {} THEN load.cursor ELSE LastId(rows)

(* get_public_land_features_page *)
NextCursor(rows) == IF Cardinality(rows) = PageSize THEN LastId(rows) ELSE 0

(* The server answers; the answer is on its way. *)
ServePage ==
    /\ load.pc = "ask"
    /\ LET rows == FetchPage(land, PageSize, load.cursor)
       IN  load' = [load EXCEPT !.pc = "answer", !.rows = rows, !.next = NextCursor(rows)]
    /\ UNCHANGED <<table, accumulated, shown, input, panel, late>>

InOrder(rows) ==
    CHOOSE s \in [1 .. Cardinality(rows) -> rows] :
        \A i, j \in DOMAIN s : i < j => s[i].id < s[j].id

(* Variant: only the first batch gets into the state. *)
OriginalOfFirst(s, all) == IF s.ready THEN s ELSE [s EXCEPT !.ready = TRUE, !.original = all]

(* setOriginalData with the first batch, appendToOriginalData with another: *)
(* either way the state has what was accumulated.                           *)
WithOriginal(s, all) == [s EXCEPT !.ready = TRUE, !.original = all]

(* The first batch is rendered; when there is no more, everything is,       *)
(* unless the user has selected a parcel meanwhile.                         *)
Renders ==
    \/ load.rows # {} /\ ~state.ready
    \/ load.next = 0 /\ state.index = 0

(* The answer arrives: onBatch, unless it is empty, and the end of the loop *)
(* of streamLandFeatures and of bootstrapMapData.                           *)
ReceivePage ==
    /\ load.pc = "answer"
    /\ accumulated' = accumulated \o InOrder(load.rows)
    /\ load' = [pc     |-> IF load.next = 0 THEN "done" ELSE "ask",
                cursor |-> IF load.next = 0 THEN load.cursor ELSE load.next,
                rows   |-> {}, next |-> 0]
    /\ IF Renders
       THEN ApplyFilters(WithOriginal(state, accumulated'), layers, input)
       ELSE /\ state' = IF load.rows = {} THEN state ELSE WithOriginal(state, accumulated')
            /\ UNCHANGED <<layers, list, applied>>
    /\ UNCHANGED <<table, input, panel, late>>

(* The fetch fails or times out: a message takes the place of the list. *)
LoadFails ==
    /\ load.pc \in {"config", "ask", "answer"}
    /\ load' = [load EXCEPT !.pc = "failed", !.rows = {}, !.next = 0]
    /\ list' = "error"
    /\ UNCHANGED <<table, accumulated, state, layers, applied, input, panel, late>>

-----------------------------------------------------------------------------
(* The user. *)

Type(parcels) ==
    /\ input # parcels
    /\ input' = parcels
    /\ UNCHANGED <<table, load, accumulated, shown, panel, late>>

Search ==
    /\ state.ready
    /\ ApplyFilters(state, layers, input)
    /\ UNCHANGED <<table, load, accumulated, input, panel, late>>

(* resetFilters: the boxes, the highlight and the panel, also before there  *)
(* is anything to filter.                                                   *)
Reset ==
    /\ input' = ResetInput
    /\ panel' = NoFeature
    /\ LET cleared == SelectFeatureId(layers, 0)
       IN  IF state.ready
           THEN ApplyFilters(state, cleared, ResetInput)
           ELSE /\ layers' = cleared
                /\ UNCHANGED <<state, list, applied>>
    /\ UNCHANGED <<table, load, accumulated, late>>

ClickListItem(i) ==
    /\ list = "items"
    /\ SelectItem(i)
    /\ UNCHANGED panel

(* The singleclick handler takes the index from the object it hits. *)
ClickParcel(d) ==
    /\ SelectItem(d.index)
    /\ panel' = state.current[d.index]

(* Beside every parcel: the highlight goes, the index stays. *)
ClickEmpty ==
    /\ load.pc # "config"
    /\ layers' = SelectFeatureId(layers, 0)
    /\ panel' = NoFeature
    /\ UNCHANGED <<table, load, accumulated, state, list, applied, input, late>>

(* navigateItem *)
Navigate(direction) ==
    /\ SelectItem(state.index + direction)
    /\ panel' = NoFeature

ClosePanel ==
    /\ panel' = NoFeature
    /\ UNCHANGED <<table, load, accumulated, shown, input, late>>

-----------------------------------------------------------------------------
Other ==
    \/ \E sheet \in Sheets : Upload(sheet)
    \/ \E r \in MissingGeom(land) : Collect(r)

Stream == Configure \/ ServePage \/ ReceivePage \/ LoadFails

User ==
    \/ \E parcels \in FilterInputs : Type(parcels)
    \/ Search \/ Reset \/ ClickEmpty \/ ClosePanel
    \/ \E i \in DOMAIN state.current : ClickListItem(i)
    \/ \E d \in layers.base \cup layers.selected : ClickParcel(d)
    \/ \E direction \in {-1, 1} : Navigate(direction)

Next == Other \/ Stream \/ User

Spec == Init /\ [][Next]_vars

(* Every fetch ends: with its answer, an error or its time-out. *)
FairSpec == Spec /\ WF_vars(Stream)

-----------------------------------------------------------------------------
(* What a result looks like is said by LayersPartitionResult. *)
TypeOK ==
    /\ land \subseteq LandRow /\ nextLand \in Nat /\ uploads \in 0 .. MaxUploads
    /\ load \in Loading
    /\ accumulated \in Seq(Feature)
    /\ input \in FilterInputs /\ applied \in FilterInputs
    /\ list \in {"loading", "items", "error"}
    /\ late \subseteq Nat

(* Every parcel of the result is drawn exactly once, in the layer that its  *)
(* highlight calls for, and nothing else is drawn, whatever was selected    *)
(* when the filter changed (setFeatures, selectFeatureId).                  *)
LayersPartitionResult ==
    /\ layers.features = state.current
    /\ layers.base \cup layers.selected = DrawnFrom(state.current)
    /\ layers.base \cap layers.selected = {}
    /\ \A d \in layers.base \cup layers.selected :
          d \in layers.selected <=> layers.selectedId # 0 /\ d.index = layers.selectedId

(* A click on the map opens the details of the parcel that was hit, and not *)
(* of one that has its place in a newer result.                             *)
ClickShowsParcelHit ==
    [][\A d \in layers.base \cup layers.selected :
          ClickParcel(d) => panel' = d.feature]_vars

(* The parcel that previous and next count from is the one highlighted,     *)
(* unless the highlight was cleared by a click beside all parcels.          *)
IndexIsHighlighted == state.index # 0 => layers.selectedId \in {0, state.index}

(* Nothing that was loaded is lost for the filters, whatever the user did   *)
(* while it was loading, and every parcel that matches is shown once all is *)
(* loaded, unless the user has one selected.                                *)
LoadedIsShown ==
    /\ state.ready => state.original = accumulated
    /\ (load.pc = "done" /\ state.index = 0) => state.current = Matches(accumulated, applied)

(* The pages fit together: no row comes twice and none out of order, also   *)
(* when an upload replaces the table between two of them.                   *)
PagesFitTogether ==
    \A i, j \in DOMAIN accumulated : i < j => accumulated[i].id < accumulated[j].id

(* When the server answers without a nextCursor, the page has every row     *)
(* that has a boundary then: of the table that replaced another one too,    *)
(* except for rows whose boundary was collected behind the cursor.          *)
LoadMissesNoRow ==
    [][(load.pc = "ask" /\ load'.pc = "answer" /\ load'.next = 0) =>
          \A r \in land : r.geom # NoGeom =>
              LET f == [id |-> r.id, addr |-> r.addr]
              IN  \/ \E i \in DOMAIN accumulated : accumulated[i] = f
                  \/ f \in load'.rows
                  \/ r.id \in late]_vars

(* The page finishes loading. *)
LoadEnds == <>(load.pc \in {"done", "failed"})
=============================================================================
