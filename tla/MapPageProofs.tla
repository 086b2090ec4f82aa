---------------------------- MODULE MapPageProofs ----------------------------
(***************************************************************************)
(* Theorems about MapPage for every value of its constants: any table, any *)
(* size of a page, any filters and any order of the user's events.  The    *)
(* provers know nothing of SelectSeq, so a result is any value here, and   *)
(* what is proved holds whichever features match.                          *)
(***************************************************************************)
EXTENDS MapPage, FiniteSetTheorems, WellFoundedInduction, TLAPS

-----------------------------------------------------------------------------
(* The two layers. *)

Drawing(l) == l.base \cup l.selected

(* What the two sources hold is the result, in two parts. *)
Parted(l) ==
    /\ Drawing(l) = DrawnFrom(l.features)
    /\ l.base \cap l.selected = {}
    /\ \A d \in Drawing(l) : d \in l.selected <=> l.selectedId # 0 /\ d.index = l.selectedId

IsLayers(l) == l = [features   |-> l.features, selectedId |-> l.selectedId,
                    base       |-> l.base, selected   |-> l.selected]

LEMMA NewFeaturesArePartedAgain ==
    ASSUME NEW l, NEW next, NEW after, after = SetFeatures(l, next), Parted(l)
    PROVE  Parted(after) /\ IsLayers(after) /\ after.features = next
<1> DEFINE gone   == DrawnFrom(l.features)
           drawn  == DrawnFrom(next)
           chosen == DrawnAs(next, l.selectedId)
           id     == IF chosen = {} THEN 0 ELSE l.selectedId
           base   == (l.base \ gone) \cup (drawn \ chosen)
           kept   == (l.selected \ gone) \cup chosen
<1>1. after = [features |-> next, selectedId |-> id, base |-> base, selected |-> kept]
  BY DEF SetFeatures
<1>2. base = drawn \ chosen /\ kept = chosen
  BY DEF Parted, Drawing
<1>3. \A d \in drawn : d \in chosen <=> id # 0 /\ d.index = id
  BY DEF DrawnAs
<1>4. chosen \subseteq drawn
  BY DEF DrawnAs
<1> HIDE DEF drawn, chosen, id, base, kept
<1>5. /\ after.features = next /\ after.selectedId = id
      /\ after.base = drawn \ chosen /\ after.selected = chosen
  BY <1>1, <1>2
<1> QED
  BY <1>1, <1>3, <1>4, <1>5 DEF Parted, IsLayers, Drawing, drawn

LEMMA SelectionIsPartedAgain ==
    ASSUME NEW l, NEW id, NEW after, after = SelectFeatureId(l, id), Parted(l), IsLayers(l)
    PROVE  /\ Parted(after) /\ IsLayers(after) /\ after.features = l.features
           /\ after.selectedId \in {0, id}
           /\ id \in DOMAIN l.features /\ id # 0 => after.selectedId = id
<1> DEFINE drawn == DrawnFrom(l.features)
           old == DrawnAs(l.features, l.selectedId)
           new == DrawnAs(l.features, id)
           sel == IF new = {} THEN 0 ELSE id
<1>1. CASE l.selectedId = id
  BY <1>1 DEF SelectFeatureId
<1>2. CASE l.selectedId # id
  <2>1. after = [features   |-> l.features, selectedId |-> sel,
                 base       |-> (l.base \cup old) \ new,
                 selected   |-> (l.selected \ old) \cup new]
    BY <1>2 DEF SelectFeatureId, IsLayers
  <2>2. l.base = drawn \ old /\ l.selected = old /\ old \subseteq drawn /\ new \subseteq drawn
    BY DEF Parted, Drawing, DrawnAs
  <2>3. \A d \in drawn : d \in new <=> sel # 0 /\ d.index = sel
    BY DEF DrawnAs
  <2>4. id \in DOMAIN l.features /\ id # 0 => sel = id
    <3>1. id \in DOMAIN l.features => At(l.features, id) \in drawn
      BY DEF DrawnFrom
    <3>2. At(l.features, id).index = id
      BY DEF At
    <3> QED
      BY <3>1, <3>2 DEF DrawnAs
  <2>5. sel \in {0, id}
    OBVIOUS
  <2> HIDE DEF drawn, old, new, sel
  <2>6. /\ after.features = l.features /\ after.selectedId = sel
        /\ after.base = drawn \ new /\ after.selected = new
    BY <2>1, <2>2
  <2> QED
    BY <2>1, <2>2, <2>3, <2>4, <2>5, <2>6 DEF Parted, IsLayers, Drawing, drawn
<1> QED
  BY <1>1, <1>2

-----------------------------------------------------------------------------
(* The inductive invariant of what is shown: the layers are those of the    *)
(* result in the state, and its index is the one that is highlighted.       *)
Shown ==
    /\ Parted(layers) /\ IsLayers(layers)
    /\ layers.features = state.current
    /\ state = [ready |-> state.ready, original |-> state.original,
                current |-> state.current, index |-> state.index]
    /\ IndexIsHighlighted

LEMMA InitShown == Init => Shown
<1> SUFFICES ASSUME Init PROVE Shown
  OBVIOUS
<1>1. /\ layers = [features |-> <<>>, selectedId |-> 0, base |-> {}, selected |-> {}]
      /\ state = [ready |-> FALSE, original |-> <<>>, current |-> <<>>, index |-> 0]
  BY DEF Init
<1>2. DrawnFrom(<<>>) = {}
  BY DEF DrawnFrom
<1> QED
  BY <1>1, <1>2 DEF Shown, Parted, IsLayers, Drawing, IndexIsHighlighted

(* A rendering, of a state with the same index or not. *)
LEMMA ApplyShows ==
    ASSUME NEW s, NEW l, NEW parcels, ApplyFilters(s, l, parcels), Parted(l),
           s = [ready |-> s.ready, original |-> s.original,
                current |-> s.current, index |-> s.index]
    PROVE  Shown'
<1> PICK features : features = Matches(s.original, parcels)
  OBVIOUS
<1>1. /\ state' = [ready |-> s.ready, original |-> s.original, current |-> features, index |-> 0]
      /\ layers' = SetFeatures(l, features)
  BY DEF ApplyFilters, SetCurrentFeatures
<1>2. Parted(layers') /\ IsLayers(layers') /\ layers'.features = features
  BY <1>1, NewFeaturesArePartedAgain
<1>3. state'.index = 0 /\ state'.current = features
  BY <1>1
<1> QED
  BY <1>1, <1>2, <1>3 DEF Shown, IndexIsHighlighted, Parted, IsLayers, Drawing

(* A selection in the result. *)
LEMMA SelectShows ==
    ASSUME Shown, NEW i, SelectItem(i)
    PROVE  Shown'
<1>1. i \in DOMAIN layers.features /\ layers' = SelectFeatureId(layers, i)
  BY DEF SelectItem, Shown
<1>2. /\ state' = [state EXCEPT !.index = i]
      /\ state = [ready |-> state.ready, original |-> state.original,
                  current |-> state.current, index |-> state.index]
  BY DEF SelectItem, Shown
<1>3. state' = [ready |-> state.ready, original |-> state.original,
                current |-> state.current, index |-> i]
  BY <1>2
<1>4. state'.index = i /\ state'.current = state.current
  BY <1>3
<1>5. /\ Parted(layers') /\ IsLayers(layers') /\ layers'.features = layers.features
      /\ i # 0 => layers'.selectedId = i
  BY <1>1, SelectionIsPartedAgain DEF Shown
<1> QED
  BY <1>3, <1>4, <1>5 DEF Shown, IndexIsHighlighted, Parted, IsLayers, Drawing

LEMMA StepShown == Shown /\ [Next]_vars => Shown'
<1> SUFFICES ASSUME Shown, [Next]_vars
             PROVE  Shown'
  OBVIOUS
<1>1. CASE UNCHANGED <<state, layers>>
  BY <1>1 DEF Shown, Parted, IsLayers, Drawing, IndexIsHighlighted
<1>2. CASE Other \/ UNCHANGED vars
  BY <1>1, <1>2 DEF Other, Upload, Collect, vars, shown
<1>3. CASE Configure \/ ServePage \/ LoadFails
  BY <1>1, <1>3 DEF Configure, ServePage, LoadFails, shown
<1>4. CASE ReceivePage
  <2> PICK s : s = WithOriginal(state, accumulated')
    OBVIOUS
  <2>1. s = [ready |-> TRUE, original |-> accumulated', current |-> state.current,
             index |-> state.index]
    BY DEF WithOriginal, Shown
  <2>2. CASE Renders
    <3>1. ApplyFilters(s, layers, input)
      BY <1>4, <2>2 DEF ReceivePage
    <3> QED
      BY <2>1, <3>1, ApplyShows DEF Shown
  <2>3. CASE ~Renders
    <3>1. /\ state' = state \/ state' = s
          /\ layers' = layers
      BY <1>4, <2>3 DEF ReceivePage
    <3> QED
      BY <2>1, <3>1 DEF Shown, Parted, IsLayers, Drawing, IndexIsHighlighted
  <2> QED
    BY <2>2, <2>3
<1>5. CASE (\E parcels \in FilterInputs : Type(parcels)) \/ ClosePanel
  BY <1>1, <1>5 DEF Type, ClosePanel, shown
<1>6. CASE Search
  BY <1>6, ApplyShows DEF Search, Shown
<1>7. CASE Reset \/ ClickEmpty
  <2> PICK cleared : cleared = SelectFeatureId(layers, 0)
    OBVIOUS
  <2>1. /\ Parted(cleared) /\ IsLayers(cleared) /\ cleared.features = layers.features
        /\ cleared.selectedId = 0
    BY SelectionIsPartedAgain DEF Shown
  <2>2. CASE ApplyFilters(state, cleared, ResetInput)
    BY <2>1, <2>2, ApplyShows DEF Shown
  <2>3. CASE layers' = cleared /\ state' = state
    BY <2>1, <2>3 DEF Shown, Parted, IsLayers, Drawing, IndexIsHighlighted
  <2> QED
    BY <1>7, <2>2, <2>3 DEF Reset, ClickEmpty
<1>8. CASE \/ \E i \in DOMAIN state.current : ClickListItem(i)
           \/ \E d \in layers.base \cup layers.selected : ClickParcel(d)
           \/ \E direction \in {-1, 1} : Navigate(direction)
  BY <1>8, SelectShows DEF ClickListItem, ClickParcel, Navigate
<1> QED
  BY <1>2, <1>3, <1>4, <1>5, <1>6, <1>7, <1>8 DEF Next, Stream, User

-----------------------------------------------------------------------------
(* Finite sets in the order of an id.  Induction over a finite set is done  *)
(* by a smallest counterexample.                                            *)

LEMMA SmallestSubset ==
    ASSUME NEW S, IsFiniteSet(S), NEW family, family \subseteq SUBSET S, family # {}
    PROVE  \E T \in family : \A U \in family : U \subseteq T => U = T
<1> DEFINE R == StrictSubsetOrdering(S)
<1>1. IsWellFoundedOn(R, SUBSET S)
  BY FS_StrictSubsetOrderingWellFounded, FS_FiniteSubsetsOfFinite
<1> HIDE DEF R
<1>2. PICK T \in family : \A U \in family : ~(<<U, T>> \in R)
  BY <1>1, WFMin
<1>3. ASSUME NEW U \in family, U \subseteq T
      PROVE  U = T
  <2>1. U # T => <<U, T>> \in R
    BY <1>3 DEF R, StrictSubsetOrdering
  <2> QED
    BY <1>2, <2>1
<1> QED
  BY <1>3

IsLast(m, S) == m \in S /\ \A q \in S : q.id <= m.id

(* A finite set has a last element. *)
LEMMA LastExists ==
    ASSUME NEW S, IsFiniteSet(S), S # {}, \A r \in S : r.id \in Int
    PROVE  \E m : IsLast(m, S)
<1> DEFINE bad == {U \in SUBSET S : U # {} /\ ~\E m : IsLast(m, U)}
<1>1. ASSUME bad # {}
      PROVE  FALSE
  <2>1. PICK T \in bad : \A U \in bad : U \subseteq T => U = T
    <3>1. bad \subseteq SUBSET S
      OBVIOUS
    <3> HIDE DEF bad
    <3> QED
      BY <1>1, <3>1, SmallestSubset
  <2>2. PICK x : x \in T
    OBVIOUS
  <2>3. T \ {x} \notin bad
    BY <2>1, <2>2
  <2>4. CASE T \ {x} = {}
    <3>1. IsLast(x, T)
      BY <2>2, <2>4 DEF IsLast
    <3> QED
      BY <3>1
  <2>5. CASE \E m : IsLast(m, T \ {x})
    <3>1. PICK m : IsLast(m, T \ {x})
      BY <2>5
    <3>2. m \in T /\ m.id \in Int /\ x.id \in Int /\ \A q \in T : q.id \in Int
      BY <2>2, <3>1 DEF IsLast
    <3>3. IsLast(m, T) \/ IsLast(x, T)
      BY <2>2, <3>1, <3>2 DEF IsLast
    <3> QED
      BY <3>3
  <2> QED
    BY <2>3, <2>4, <2>5
<1> QED
  BY <1>1

(* An enumeration in the order of the ids. *)
Sorted(s, S) ==
    /\ s \in [1 .. Cardinality(S) -> S]
    /\ \A i, j \in DOMAIN s : i < j => s[i].id < s[j].id

Distinct(S) ==
    /\ \A r \in S : r.id \in Int
    /\ \A q, r \in S : q.id = r.id => q = r

LEMMA SortedExists ==
    ASSUME NEW S, IsFiniteSet(S), Distinct(S)
    PROVE  \E s : Sorted(s, S)
<1> DEFINE bad == {U \in SUBSET S : ~\E s : Sorted(s, U)}
<1>1. ASSUME bad # {}
      PROVE  FALSE
  <2>1. PICK T \in bad : \A U \in bad : U \subseteq T => U = T
    <3>1. bad \subseteq SUBSET S
      OBVIOUS
    <3> HIDE DEF bad
    <3> QED
      BY <1>1, <3>1, SmallestSubset
  <2>2. T \in SUBSET S /\ ~\E s : Sorted(s, T)
    OBVIOUS
  <2>3. T # {}
    <3>1. SUFFICES ASSUME T = {} PROVE FALSE
      OBVIOUS
    <3>2. Cardinality(T) = 0
      BY <3>1, FS_EmptySet
    <3>3. Sorted([i \in 1 .. 0 |-> 0], T)
      BY <3>1, <3>2 DEF Sorted
    <3> QED
      BY <2>2, <3>3
  <2>4. PICK m : IsLast(m, T)
    <3>1. IsFiniteSet(T) /\ \A r \in T : r.id \in Int
      BY <2>2, FS_Subset DEF Distinct
    <3> QED
      BY <2>3, <3>1, LastExists
  <2> DEFINE rest == T \ {m}
             n == Cardinality(T)
  <2>5. /\ m \in T /\ n \in Nat /\ n >= 1 /\ Cardinality(rest) = n - 1
        /\ rest \in SUBSET S /\ rest # T
    <3>1. IsFiniteSet(T) /\ m \in T
      BY <2>2, <2>4, FS_Subset DEF IsLast
    <3>2. /\ Cardinality(T) \in Nat /\ Cardinality(rest) \in Nat
          /\ Cardinality(rest) = Cardinality(T) - 1
      BY <3>1, FS_RemoveElement, FS_CardinalityType
    <3> QED
      BY <2>2, <3>1, <3>2
  <2>6. PICK s : Sorted(s, rest)
    BY <2>1, <2>5
  <2> HIDE DEF n, rest
  <2>7. /\ s \in [1 .. n - 1 -> rest]
        /\ \A i, j \in 1 .. n - 1 : i < j => s[i].id < s[j].id
    BY <2>5, <2>6 DEF Sorted
  <2> DEFINE longer == [i \in 1 .. n |-> IF i = n THEN m ELSE s[i]]
  <2>8. /\ longer \in [1 .. n -> T]
        /\ longer[n] = m
        /\ \A i \in 1 .. n - 1 : longer[i] = s[i]
    BY <2>5, <2>7 DEF rest
  <2>9. \A i \in 1 .. n - 1 : s[i].id < m.id
    <3>1. \A q \in rest : q.id <= m.id /\ q.id # m.id /\ q.id \in Int /\ m.id \in Int
      BY <2>2, <2>4, <2>5 DEF rest, IsLast, Distinct
    <3> QED
      BY <2>7, <3>1
  <2> HIDE DEF longer
  <2>10. \A i, j \in 1 .. n : i < j => longer[i].id < longer[j].id
    <3> SUFFICES ASSUME NEW i \in 1 .. n, NEW j \in 1 .. n, i < j
                 PROVE  longer[i].id < longer[j].id
      OBVIOUS
    <3>1. i \in 1 .. n - 1
      BY <2>5
    <3>2. CASE j = n
      BY <2>8, <2>9, <3>1, <3>2
    <3>3. CASE j # n
      <4>1. j \in 1 .. n - 1
        BY <2>5, <3>3
      <4> QED
        BY <2>7, <2>8, <3>1, <4>1
    <3> QED
      BY <3>2, <3>3
  <2>11. Sorted(longer, T)
    BY <2>8, <2>10 DEF Sorted, n
  <2> QED
    BY <2>2, <2>11
<1>2. S \notin bad
  BY <1>1
<1> QED
  BY <1>2

(* What InOrder chooses: every row once. *)
LEMMA InOrderSorts ==
    ASSUME NEW S, IsFiniteSet(S), Distinct(S)
    PROVE  /\ Cardinality(S) \in Nat
           /\ InOrder(S) \in Seq(S) /\ Len(InOrder(S)) = Cardinality(S)
           /\ \A i, j \in DOMAIN InOrder(S) : i < j => InOrder(S)[i].id < InOrder(S)[j].id
           /\ \A r \in S : \E i \in DOMAIN InOrder(S) : InOrder(S)[i] = r
<1> DEFINE s == InOrder(S)
           n == Cardinality(S)
<1>1. n \in Nat
  BY FS_CardinalityType
<1>2. Sorted(s, S)
  <2>1. \E z \in [1 .. n -> S] : \A i, j \in DOMAIN z : i < j => z[i].id < z[j].id
    BY SortedExists DEF Sorted
  <2> QED
    BY <2>1 DEF InOrder, Sorted
<1> HIDE DEF s, n
<1>3. /\ s \in [1 .. n -> S]
      /\ \A i, j \in 1 .. n : i < j => s[i].id < s[j].id
  BY <1>2 DEF Sorted, n
<1>4. s \in Seq(S) /\ Len(s) = n /\ DOMAIN s = 1 .. n
  BY <1>1, <1>3
<1>5. ASSUME NEW r \in S
      PROVE  \E i \in 1 .. n : s[i] = r
  <2>1. SUFFICES ASSUME \A i \in 1 .. n : s[i] # r
                 PROVE  FALSE
    OBVIOUS
  <2>2. s \in [1 .. n -> S \ {r}]
    BY <1>3, <2>1
  <2>3. /\ IsFiniteSet(S \ {r}) /\ Cardinality(S \ {r}) < n
        /\ IsFiniteSet(1 .. n) /\ Cardinality(1 .. n) = n
    <3>1. /\ IsFiniteSet(S \ {r}) /\ Cardinality(S \ {r}) = n - 1
      BY <1>5, FS_RemoveElement DEF n
    <3>2. IsFiniteSet(1 .. n) /\ Cardinality(1 .. n) = IF 1 > n THEN 0 ELSE n - 1 + 1
      BY <1>1, FS_Interval
    <3> QED
      BY <1>1, <3>1, <3>2
  <2>4. \E i, j \in 1 .. n : i # j /\ s[i] = s[j]
    BY <2>2, <2>3, FS_PigeonHole
  <2>5. PICK i, j \in 1 .. n : i < j /\ s[i] = s[j]
    <3>1. PICK i, j \in 1 .. n : i # j /\ s[i] = s[j]
      BY <2>4
    <3>2. i < j \/ j < i
      BY <1>1, <3>1
    <3> QED
      BY <3>1, <3>2
  <2>6. s[i].id < s[j].id /\ s[i].id \in Int
    BY <1>3, <2>5 DEF Distinct
  <2> QED
    BY <2>5, <2>6
<1> QED
  BY <1>1, <1>3, <1>4, <1>5 DEF s, n

-----------------------------------------------------------------------------
(* ORDER BY id LIMIT n *)

Below(S, r) == {q \in S : q.id < r.id}

LEMMA FirstIsBelow ==
    ASSUME NEW S, IsFiniteSet(S), Distinct(S), NEW n \in Nat,
           NEW q \in S, NEW r \in FirstById(S, n), q.id <= r.id
    PROVE  q \in FirstById(S, n)
<1>1. r \in S /\ Cardinality(Below(S, r)) < n
  BY DEF FirstById, Below
<1>2. Below(S, q) \subseteq Below(S, r)
  BY <1>1 DEF Below, Distinct
<1>3. IsFiniteSet(Below(S, r))
  BY FS_Subset DEF Below
<1>4. Cardinality(Below(S, q)) <= Cardinality(Below(S, r))
  BY <1>2, <1>3, FS_Subset
<1>5. Cardinality(Below(S, q)) \in Nat /\ Cardinality(Below(S, r)) \in Nat
  BY <1>2, <1>3, FS_Subset, FS_CardinalityType
<1>6. Cardinality(Below(S, q)) < n
  BY <1>1, <1>4, <1>5
<1> QED
  BY <1>6 DEF FirstById, Below

(* Where the limit leaves something out, it is reached. *)
LEMMA FirstFillsPage ==
    ASSUME NEW S, IsFiniteSet(S), Distinct(S), NEW n \in Nat, FirstById(S, n) # S
    PROVE  Cardinality(FirstById(S, n)) = n
<1> DEFINE first == FirstById(S, n)
           belows == {Below(S, r) : r \in S \ first}
<1>1. first \subseteq S /\ S \ first # {} /\ IsFiniteSet(first) /\ Cardinality(first) \in Nat
  BY FS_Subset, FS_CardinalityType DEF FirstById
<1>2. PICK q \in S \ first : \A r \in S \ first : q.id <= r.id
  <2>1. belows # {} /\ belows \subseteq SUBSET S
    BY <1>1 DEF Below
  <2> HIDE DEF belows
  <2>2. PICK T \in belows : \A U \in belows : U \subseteq T => U = T
    BY <2>1, SmallestSubset
  <2>3. PICK q \in S \ first : T = Below(S, q)
    BY DEF belows
  <2>4. ASSUME NEW r \in S \ first, r.id < q.id
        PROVE  FALSE
    <3>1. Below(S, r) \subseteq Below(S, q)
      BY <2>3, <2>4 DEF Below, Distinct
    <3>2. Below(S, r) = Below(S, q)
      BY <2>2, <2>3, <3>1 DEF belows
    <3>3. r \in Below(S, q) /\ r \notin Below(S, r)
      BY <2>4 DEF Below, Distinct
    <3> QED
      BY <3>2, <3>3
  <2> QED
    BY <2>3, <2>4 DEF Distinct
<1>3. first = Below(S, q)
  <2>1. ASSUME NEW r \in S, r.id < q.id PROVE r \in first
    BY <1>2, <2>1 DEF Distinct
  <2>2. ASSUME NEW r \in first PROVE r.id < q.id
    BY <1>1, <1>2, FirstIsBelow DEF Distinct
  <2> QED
    BY <1>1, <2>1, <2>2 DEF Below
<1>4. ~(Cardinality(Below(S, q)) < n)
  BY <1>2 DEF FirstById, Below
<1>5. Cardinality(first) <= n
  <2>1. CASE first = {}
    <3>1. Cardinality(first) = 0
      BY <2>1, FS_EmptySet
    <3> QED
      BY <3>1
  <2>2. CASE first # {}
    <3>1. PICK m : IsLast(m, first)
      BY <1>1, <2>2, LastExists DEF Distinct
    <3>2. m \in first /\ m \in S /\ Cardinality(Below(S, m)) < n
      BY <3>1 DEF IsLast, FirstById, Below
    <3>3. first = Below(S, m) \cup {m}
      <4>1. \A r \in first : r.id < m.id \/ r = m
        BY <1>1, <3>1, <3>2 DEF IsLast, Distinct
      <4>2. Below(S, m) \subseteq first
        BY <1>1, <3>2, FirstIsBelow DEF Below, Distinct
      <4> QED
        BY <1>1, <3>2, <4>1, <4>2 DEF Below
    <3>4. m \notin Below(S, m) /\ IsFiniteSet(Below(S, m))
      BY <3>2, FS_Subset DEF Below, Distinct
    <3>5. /\ Cardinality(Below(S, m)) \in Nat
          /\ Cardinality(Below(S, m) \cup {m}) = Cardinality(Below(S, m)) + 1
      BY <3>4, FS_AddElement, FS_CardinalityType
    <3> QED
      BY <3>2, <3>3, <3>5
  <2> QED
    BY <2>1, <2>2
<1> QED
  BY <1>1, <1>3, <1>4, <1>5

LEMMA ImageIsFinite ==
    ASSUME NEW S, IsFiniteSet(S), NEW image, NEW f \in [S -> image],
           \A y \in image : \E x \in S : f[x] = y
    PROVE  /\ IsFiniteSet(image)
           /\ (\A x, y \in S : f[x] = f[y] => x = y) => Cardinality(image) = Cardinality(S)
<1>1. f \in Surjection(S, image)
  BY DEF Surjection
<1>2. (\A x, y \in S : f[x] = f[y] => x = y) => f \in Injection(S, image)
  BY DEF Injection, IsInjective
<1> QED
  BY <1>1, <1>2, FS_Surjection

ItemOf(r) == [id |-> r.id, addr |-> r.addr]

(* What a page of the answer has, and what it may leave out. *)
LEMMA PageHasRows ==
    ASSUME NEW lands, lands \subseteq LandRow, IsFiniteSet(lands), Distinct(lands),
           NEW limit \in Nat, NEW after \in Nat, NEW rows, rows = FetchPage(lands, limit, after)
    PROVE  /\ rows \subseteq Feature /\ IsFiniteSet(rows) /\ Distinct(rows)
           /\ Cardinality(rows) \in Nat
           /\ \A f \in rows : after < f.id /\ \E r \in lands : f.id = r.id
           /\ \A r \in lands : 
                 /\ r.geom # NoGeom /\ after < r.id
                 /\ Cardinality(rows) # limit \/ \E f \in rows : r.id <= f.id
                 => ItemOf(r) \in rows
<1> DEFINE X == {q \in lands : q.geom # NoGeom /\ q.id > after}
           first == FirstById(X, limit)
           f == [r \in first |-> ItemOf(r)]
<1>1. X \subseteq lands /\ IsFiniteSet(X) /\ Distinct(X)
  BY FS_Subset DEF Distinct
<1>2. first \subseteq X /\ IsFiniteSet(first) /\ Distinct(first) /\ Cardinality(first) \in Nat
  BY <1>1, FS_Subset, FS_CardinalityType DEF FirstById, Distinct
<1>3. rows = {ItemOf(r) : r \in first}
  BY DEF FetchPage, ItemOf
<1>4. \A r \in X : r.id \in Nat /\ after < r.id /\ r.addr \in Address
  BY DEF LandRow
<1>5. \A r \in lands : r \in X <=> r.geom # NoGeom /\ after < r.id
  BY DEF LandRow
<1> HIDE DEF X, first
<1>6. \A r \in first : ItemOf(r).id = r.id /\ ItemOf(r) \in Feature
  BY <1>2, <1>4 DEF ItemOf, Feature, LandItem
<1>7. IsFiniteSet(rows) /\ Cardinality(rows) = Cardinality(first)
  <2>1. f \in [first -> rows] /\ \A y \in rows : \E r \in first : f[r] = y
    BY <1>3, <1>6
  <2>2. \A q, r \in first : f[q] = f[r] => q = r
    BY <1>2, <1>6 DEF Distinct
  <2> HIDE DEF f
  <2> QED
    BY <1>2, <2>1, <2>2, ImageIsFinite
<1>8. /\ rows \subseteq Feature /\ Distinct(rows)
      /\ \A g \in rows : after < g.id /\ \E r \in lands : g.id = r.id
  BY <1>1, <1>2, <1>3, <1>4, <1>6 DEF Distinct
<1>9. ASSUME NEW r \in lands, r.geom # NoGeom, after < r.id,
             Cardinality(rows) # limit \/ \E g \in rows : r.id <= g.id
      PROVE  ItemOf(r) \in rows
  <2>1. r \in X
    BY <1>5, <1>9
  <2>2. CASE Cardinality(rows) # limit
    <3>1. first = X
      BY <1>1, <1>7, <2>2, FirstFillsPage DEF first
    <3> QED
      BY <1>3, <2>1, <3>1
  <2>3. CASE \E g \in rows : r.id <= g.id
    <3>1. PICK q \in first : r.id <= q.id
      BY <1>3, <1>6, <2>3
    <3>2. r \in first
      BY <1>1, <2>1, <3>1, FirstIsBelow DEF first
    <3> QED
      BY <1>3, <3>2
  <2> QED
    BY <1>9, <2>2, <2>3
<1> QED
  BY <1>2, <1>7, <1>8, <1>9

(* The last of a page. *)
LEMMA LastIdIsLast ==
    ASSUME NEW S, IsFiniteSet(S), S # {}, \A r \in S : r.id \in Int
    PROVE  \E m \in S : LastId(S) = m.id /\ \A q \in S : q.id <= m.id
<1>1. \E m \in S : \A q \in S : q.id <= m.id
  BY LastExists DEF IsLast
<1> QED
  BY <1>1 DEF LastId

-----------------------------------------------------------------------------
(* The inductive invariant of the loading. *)

TableOK ==
    /\ land \subseteq LandRow /\ IsFiniteSet(land) /\ nextLand \in Nat
    /\ Distinct(land)
    /\ \A r \in land : 1 <= r.id /\ r.id < nextLand

Active == load.pc \in {"config", "ask", "answer"}

(* What was accumulated comes before what is on its way. *)
LoadOK ==
    /\ load \in Loading /\ load.cursor < nextLand /\ load.next < nextLand
    /\ IsFiniteSet(load.rows) /\ Distinct(load.rows)
    /\ accumulated \in Seq(Feature)
    /\ PagesFitTogether
    /\ Active => \A i \in DOMAIN accumulated : accumulated[i].id <= load.cursor
    /\ \A f \in load.rows : /\ load.cursor < f.id
                            /\ load.next # 0 => f.id <= load.next
    /\ load.next # 0 => load.cursor < load.next
    /\ load.pc # "answer" => load.rows = {} /\ load.next = 0

Accounted(r) ==
    \/ \E i \in DOMAIN accumulated : accumulated[i] = ItemOf(r)
    \/ ItemOf(r) \in load.rows
    \/ r.id \in late

(* Up to the cursor nothing is missing but what came late. *)
NothingIsMissing ==
    Active => \A r \in land :
        r.geom # NoGeom /\ (r.id <= load.cursor \/ r.id <= load.next) => Accounted(r)

LInv == TableOK /\ LoadOK /\ NothingIsMissing

(* An upload: ids that no cursor has reached. *)
LEMMA InsertedTable ==
    ASSUME NEW sheet \in Seq(NewRow), NEW next \in Nat, next >= 1, NEW lands,
           lands = InsertLands(sheet, next)
    PROVE  /\ lands \subseteq LandRow /\ IsFiniteSet(lands) /\ Distinct(lands)
           /\ \A r \in lands : next <= r.id /\ r.id < next + Len(sheet)
           /\ next + Len(sheet) \in Nat /\ next <= next + Len(sheet)
<1> DEFINE row(i) == [id |-> next + i - 1, addr |-> sheet[i].addr, geom |-> sheet[i].geom]
           f == [i \in 1 .. Len(sheet) |-> row(i)]
<1>1. Len(sheet) \in Nat /\ DOMAIN sheet = 1 .. Len(sheet)
  OBVIOUS
<1>2. ASSUME NEW i \in 1 .. Len(sheet)
      PROVE  /\ row(i) \in LandRow /\ row(i).id = next + i - 1
             /\ next <= row(i).id /\ row(i).id < next + Len(sheet)
  <2>1. sheet[i] \in NewRow
    OBVIOUS
  <2>2. next + i - 1 \in Nat
    BY <1>1
  <2> QED
    BY <1>1, <2>1, <2>2 DEF NewRow, LandRow
<1>3. lands = {row(i) : i \in 1 .. Len(sheet)}
  BY <1>1 DEF InsertLands
<1> HIDE DEF row
<1>4. /\ lands \subseteq LandRow /\ f \in [1 .. Len(sheet) -> lands]
      /\ \A y \in lands : \E i \in 1 .. Len(sheet) : f[i] = y
  BY <1>2, <1>3
<1>5. IsFiniteSet(1 .. Len(sheet))
  BY <1>1, FS_Interval
<1>6. IsFiniteSet(lands)
  <2> HIDE DEF f
  <2> QED
    BY <1>4, <1>5, ImageIsFinite
<1>7. Distinct(lands)
  BY <1>1, <1>2, <1>3 DEF Distinct
<1>8. \A r \in lands : next <= r.id /\ r.id < next + Len(sheet)
  BY <1>2, <1>3
<1>9. next + Len(sheet) \in Nat /\ next <= next + Len(sheet)
  BY <1>1
<1> QED
  BY <1>4, <1>6, <1>7, <1>8, <1>9

(* The boundary of a row is written: it keeps its id and address. *)
LEMMA UpdatedTable ==
    ASSUME TableOK, NEW id, NEW geom \in Boundary, NEW lands, lands = UpdateGeom(land, id, geom)
    PROVE  /\ lands \subseteq LandRow /\ IsFiniteSet(lands) /\ Distinct(lands)
           /\ \A q \in lands : \E r \in land :
                 q.id = r.id /\ q.addr = r.addr /\ (r.id # id => q = r)
<1> DEFINE row(r) == IF r.id = id THEN [r EXCEPT !.geom = geom] ELSE r
           f == [r \in land |-> row(r)]
<1>1. ASSUME NEW r \in land
      PROVE  /\ row(r) \in LandRow /\ row(r).id = r.id /\ row(r).addr = r.addr
             /\ r.id # id => row(r) = r
  BY DEF TableOK, LandRow
<1>2. lands = {row(r) : r \in land}
  BY DEF UpdateGeom
<1> HIDE DEF row
<1>3. /\ lands \subseteq LandRow /\ f \in [land -> lands]
      /\ \A y \in lands : \E r \in land : f[r] = y
  BY <1>1, <1>2
<1>4. IsFiniteSet(lands)
  <2> HIDE DEF f
  <2> QED
    BY <1>3, ImageIsFinite DEF TableOK
<1>5. Distinct(lands)
  BY <1>1, <1>2 DEF TableOK, Distinct
<1> QED
  BY <1>1, <1>2, <1>3, <1>4, <1>5

(* The steps of ParcelTable, which GeomPipeline implements, are steps the   *)
(* page allows for: the others either insert a sheet, as Upload does, or    *)
(* fill in the boundary of one row, as Collect does.                        *)
Table == INSTANCE ParcelTable WITH rows <- land, next <- nextLand

THEOREM AllowsForTheTable ==
    ASSUME TableOK, Table!PNext
    PROVE  \/ \E sheet \in Seq(NewRow) :
                 land' = InsertLands(sheet, nextLand) /\ nextLand' = nextLand + Len(sheet)
           \/ \E r \in MissingGeom(land) :
                 land' = UpdateGeom(land, r.id, r.addr) /\ nextLand' = nextLand
<1>1. CASE Table!Replace
  <2>0. nextLand \in Nat /\ nextLand' \in Nat /\ nextLand' >= nextLand
    BY <1>1 DEF Table!Replace, TableOK
  <2> PICK n \in Nat : nextLand' = nextLand + n
    <3>1. \A a, b \in Nat : b >= a => b - a \in Nat /\ b = a + (b - a)
      OBVIOUS
    <3> QED
      BY <2>0, <3>1
  <2> DEFINE at(i) == CHOOSE r \in land' : r.id = nextLand + i - 1
             sheet == [i \in 1 .. n |-> [addr |-> at(i).addr, geom |-> at(i).geom]]
  <2>1. /\ nextLand \in Nat /\ nextLand' = nextLand + n
        /\ land' \subseteq LandRow
        /\ {r.id : r \in land'} = nextLand .. nextLand' - 1
        /\ \A r, q \in land' : r.id = q.id => r = q
    <3>1. land' \subseteq LandRow
      BY <1>1 DEF Table!Replace, Table!LandRow, LandRow, Table!Boundary, Boundary
    <3>2. /\ {r.id : r \in land'} = nextLand .. nextLand' - 1
          /\ \A r, q \in land' : r.id = q.id => r = q
      BY <1>1 DEF Table!Replace
    <3> QED
      BY <2>0, <3>1, <3>2
  <2>2. ASSUME NEW i \in 1 .. n
        PROVE  at(i) \in land' /\ at(i).id = nextLand + i - 1
    <3>1. nextLand + i - 1 \in nextLand .. nextLand' - 1
      BY <2>1
    <3>2. \E r \in land' : r.id = nextLand + i - 1
      BY <2>1, <3>1
    <3> QED
      BY <3>2
  <2>3. ASSUME NEW r \in land'
        PROVE  \E i \in 1 .. n : r = at(i)
    <3>1. r.id \in nextLand .. nextLand' - 1
      BY <2>1
    <3> DEFINE i == r.id - nextLand + 1
    <3>2. i \in 1 .. n /\ nextLand + i - 1 = r.id
      BY <2>1, <3>1
    <3> HIDE DEF i
    <3>3. at(i) \in land' /\ at(i).id = r.id
      BY <2>2, <3>2
    <3> QED
      BY <2>1, <3>2, <3>3
  <2> HIDE DEF at
  <2>4. sheet \in Seq(NewRow) /\ Len(sheet) = n
    BY <2>1, <2>2 DEF LandRow, NewRow
  <2>5. \A i \in 1 .. n :
            at(i) = [id |-> nextLand + i - 1, addr |-> sheet[i].addr, geom |-> sheet[i].geom]
    BY <2>1, <2>2 DEF LandRow
  <2>6. land' = InsertLands(sheet, nextLand)
    <3>1. DOMAIN sheet = 1 .. n
      OBVIOUS
    <3> HIDE DEF sheet
    <3> QED
      BY <2>2, <2>3, <2>5, <3>1 DEF InsertLands
  <2> HIDE DEF sheet
  <2> QED
    BY <2>1, <2>4, <2>6
<1>2. ASSUME NEW r \in Table!MissingGeom(land), Table!Locate(r)
      PROVE  \E p \in MissingGeom(land) :
                 land' = UpdateGeom(land, p.id, p.addr) /\ nextLand' = nextLand
  <2>1. /\ r \in land /\ r \in MissingGeom(land) /\ nextLand' = nextLand
        /\ land' = (land \ {r}) \cup {[r EXCEPT !.geom = r.addr]}
    BY <1>2 DEF Table!Locate, Table!MissingGeom, MissingGeom
  <2>2. \A q \in land : q.id = r.id <=> q = r
    BY <2>1 DEF TableOK, Distinct
  <2>3. UpdateGeom(land, r.id, r.addr) =
            {IF q = r THEN [r EXCEPT !.geom = r.addr] ELSE q : q \in land}
    BY <2>2 DEF UpdateGeom
  <2> QED
    BY <2>1, <2>3
<1> QED
  BY <1>1, <1>2 DEF Table!PNext

LEMMA InitLInv == Init => LInv
<1> SUFFICES ASSUME Init PROVE LInv
  OBVIOUS
<1>1. FirstSheet \in Seq(NewRow)
  BY MapPageAssumption DEF MapPageAssumption
<1>2. /\ land = InsertLands(FirstSheet, 1) /\ nextLand = Len(FirstSheet) + 1
      /\ Len(FirstSheet) \in Nat
  BY <1>1 DEF Init
<1>3. TableOK
  BY <1>1, <1>2, InsertedTable DEF TableOK
<1>4. /\ load = [pc |-> "config", cursor |-> 0, rows |-> {}, next |-> 0]
      /\ accumulated = <<>>
  BY DEF Init
<1>5. LoadOK
  <2>1. IsFiniteSet({}) /\ Distinct({})
    BY FS_EmptySet DEF Distinct
  <2>2. load \in Loading
    BY <1>4 DEF Loading
  <2> QED
    BY <1>2, <1>4, <2>1, <2>2 DEF LoadOK, PagesFitTogether
<1>6. NothingIsMissing
  <2>1. \A r \in land : r.id \in Nat /\ 1 <= r.id
    BY <1>3 DEF TableOK, LandRow
  <2>2. load.cursor = 0 /\ load.next = 0
    BY <1>4
  <2> QED
    BY <2>1, <2>2 DEF NothingIsMissing
<1> QED
  BY <1>3, <1>5, <1>6 DEF LInv

(* The other side of the application. *)
LEMMA OtherLoads ==
    ASSUME LInv, Other
    PROVE  LInv'
<1>1. UNCHANGED <<load, accumulated>>
  BY DEF Other, Upload, Collect
<1>2. CASE \E sheet \in Sheets : Upload(sheet)
  <2> PICK sheet \in Sheets : Upload(sheet)
    BY <1>2
  <2>1. /\ sheet \in Seq(NewRow) /\ Len(sheet) \in Nat
        /\ land' = InsertLands(sheet, nextLand) /\ nextLand' = nextLand + Len(sheet)
        /\ nextLand \in Nat /\ nextLand >= 1 /\ late' = late
        /\ load.cursor \in Nat /\ load.next \in Nat
        /\ load.cursor < nextLand /\ load.next < nextLand
    BY MapPageAssumption DEF MapPageAssumption, Upload, LInv, TableOK, LoadOK, Loading
  <2>2. /\ land' \subseteq LandRow /\ IsFiniteSet(land') /\ Distinct(land')
        /\ \A r \in land' : nextLand <= r.id /\ r.id < nextLand' /\ r.id \in Nat
        /\ nextLand' \in Nat /\ nextLand <= nextLand'
    <3> PICK lands, next : lands = land' /\ next = nextLand
      OBVIOUS
    <3>1. /\ lands \subseteq LandRow /\ IsFiniteSet(lands) /\ Distinct(lands)
          /\ \A r \in lands : next <= r.id /\ r.id < next + Len(sheet)
          /\ next + Len(sheet) \in Nat /\ next <= next + Len(sheet)
      BY <2>1, InsertedTable
    <3>2. \A r \in lands : r.id \in Nat
      BY <3>1 DEF LandRow
    <3> QED
      BY <2>1, <3>1, <3>2
  <2>3. TableOK'
    BY <2>1, <2>2 DEF TableOK, Distinct
  <2>4. LoadOK'
    BY <1>1, <2>1, <2>2 DEF LInv, LoadOK, PagesFitTogether, Active
  <2>5. NothingIsMissing'
    BY <1>1, <2>1, <2>2 DEF NothingIsMissing
  <2> QED
    BY <2>3, <2>4, <2>5 DEF LInv
<1>3. CASE \E r \in MissingGeom(land) : Collect(r)
  <2> PICK r \in MissingGeom(land) : Collect(r)
    BY <1>3
  <2>1. /\ r \in land /\ r.addr \in Boundary
        /\ land' = UpdateGeom(land, r.id, r.addr) /\ nextLand' = nextLand
        /\ late' = IF r.id <= load.cursor \/ r.id <= load.next THEN late \cup {r.id} ELSE late
    BY DEF Collect, MissingGeom, LInv, TableOK, LandRow, Boundary
  <2>2. /\ land' \subseteq LandRow /\ IsFiniteSet(land') /\ Distinct(land')
        /\ \A q \in land' : \E p \in land :
              q.id = p.id /\ q.addr = p.addr /\ (p.id # r.id => q = p)
    BY <2>1, UpdatedTable DEF LInv
  <2>3. TableOK'
    BY <2>1, <2>2 DEF LInv, TableOK, Distinct
  <2>4. LoadOK'
    BY <1>1, <2>1 DEF LInv, LoadOK, PagesFitTogether, Active
  <2>5. ASSUME NEW q \in land', Active, q.geom # NoGeom,
               q.id <= load.cursor \/ q.id <= load.next
        PROVE  Accounted(q)'
    <3>1. PICK p \in land : q.id = p.id /\ q.addr = p.addr /\ (p.id # r.id => q = p)
      BY <2>2
    <3>2. CASE p.id = r.id
      BY <2>1, <2>5, <3>1, <3>2 DEF Accounted
    <3>3. CASE p.id # r.id
      <4>1. Accounted(q)
        BY <2>5, <3>1, <3>3 DEF LInv, NothingIsMissing
      <4> QED
        BY <1>1, <2>1, <4>1 DEF Accounted
    <3> QED
      BY <3>2, <3>3
  <2>6. NothingIsMissing'
    BY <1>1, <2>5 DEF NothingIsMissing, Active
  <2> QED
    BY <2>3, <2>4, <2>6 DEF LInv
<1> QED
  BY <1>2, <1>3 DEF Other

(* A page of the table goes on its way. *)
LEMMA ServeLoads ==
    ASSUME LInv, ServePage
    PROVE  /\ LInv'
           /\ load'.next = 0 => \A r \in land : r.geom # NoGeom =>
                 \/ \E i \in DOMAIN accumulated : accumulated[i] = ItemOf(r)
                 \/ ItemOf(r) \in load'.rows
                 \/ r.id \in late
<1> PICK rows, next : rows = FetchPage(land, PageSize, load.cursor) /\ next = NextCursor(rows)
  OBVIOUS
<1>1. /\ load.pc = "ask" /\ load.cursor \in Nat /\ load.cursor < nextLand
      /\ load.rows = {} /\ load.next = 0 /\ nextLand \in Nat
      /\ load' = [load EXCEPT !.pc = "answer", !.rows = rows, !.next = next]
      /\ load \in Loading
      /\ UNCHANGED <<land, nextLand, accumulated, late>>
  BY DEF ServePage, LInv, LoadOK, Loading, TableOK, table
<1>2. PageSize \in Nat \ {0}
  BY MapPageAssumption DEF MapPageAssumption
<1>3. /\ rows \subseteq Feature /\ IsFiniteSet(rows) /\ Distinct(rows)
      /\ Cardinality(rows) \in Nat
      /\ \A f \in rows : load.cursor < f.id /\ \E r \in land : f.id = r.id
      /\ \A r \in land : 
            /\ r.geom # NoGeom /\ load.cursor < r.id
            /\ Cardinality(rows) # PageSize \/ \E f \in rows : r.id <= f.id
            => ItemOf(r) \in rows
  BY <1>1, <1>2, PageHasRows DEF LInv, TableOK
<1>4. ASSUME Cardinality(rows) = PageSize
      PROVE  \E m \in rows : next = m.id /\ \A q \in rows : q.id <= m.id
  <2>1. rows # {}
    BY <1>2, <1>4, FS_EmptySet
  <2> QED
    BY <1>3, <1>4, <2>1, LastIdIsLast DEF NextCursor, Distinct
<1>5. /\ Cardinality(rows) = PageSize \/ next = 0
      /\ next \in Nat /\ next < nextLand
      /\ next # 0 => load.cursor < next /\ (\A f \in rows : f.id <= next)
                     /\ \E m \in rows : next = m.id
      /\ next = 0 => Cardinality(rows) # PageSize
  <2>1. CASE Cardinality(rows) = PageSize
    <3>1. PICK m \in rows : next = m.id /\ \A q \in rows : q.id <= m.id
      BY <1>4, <2>1
    <3>2. PICK r \in land : m.id = r.id
      BY <1>3
    <3>3. r.id \in Nat /\ r.id < nextLand /\ 1 <= r.id /\ load.cursor < m.id
      BY <1>3 DEF LInv, TableOK, LandRow
    <3> QED
      BY <2>1, <3>1, <3>2, <3>3
  <2>2. CASE Cardinality(rows) # PageSize
    <3>1. next = 0
      BY <2>2 DEF NextCursor
    <3> QED
      BY <1>1, <2>2, <3>1
  <2> QED
    BY <2>1, <2>2
<1>6. load' = [pc |-> "answer", cursor |-> load.cursor, rows |-> rows, next |-> next]
  BY <1>1 DEF Loading
<1>7. /\ load'.pc = "answer" /\ load'.cursor = load.cursor /\ load'.rows = rows
      /\ load'.next = next /\ load' \in Loading
  BY <1>1, <1>3, <1>5, <1>6 DEF Loading
<1>8. TableOK'
  BY <1>1 DEF LInv, TableOK
<1>9. LoadOK'
  <2>1. \A i \in DOMAIN accumulated : accumulated[i].id <= load.cursor
    BY <1>1 DEF LInv, LoadOK, Active
  <2> QED
    BY <1>1, <1>3, <1>5, <1>7, <2>1 DEF LInv, LoadOK, PagesFitTogether
<1>10. ASSUME NEW r \in land, r.geom # NoGeom, next = 0 \/ r.id <= load.cursor \/ r.id <= next
       PROVE  \/ \E i \in DOMAIN accumulated : accumulated[i] = ItemOf(r)
              \/ ItemOf(r) \in rows
              \/ r.id \in late
  <2>1. CASE r.id <= load.cursor
    BY <1>1, <1>10, <2>1 DEF LInv, NothingIsMissing, Accounted, Active
  <2>2. CASE load.cursor < r.id
    <3>1. Cardinality(rows) # PageSize \/ \E f \in rows : r.id <= f.id
      <4>1. r.id \in Nat
        BY DEF LInv, TableOK, LandRow
      <4>2. next = 0 \/ (next # 0 /\ r.id <= next)
        BY <1>1, <1>5, <1>10, <2>2, <4>1
      <4> QED
        BY <1>5, <4>2
    <3> QED
      BY <1>3, <1>10, <2>2, <3>1
  <2> QED
    BY <1>1, <2>1, <2>2 DEF LInv, TableOK, LandRow
<1>11. NothingIsMissing'
  BY <1>1, <1>7, <1>10 DEF NothingIsMissing, Accounted
<1> QED
  BY <1>7, <1>8, <1>9, <1>10, <1>11 DEF LInv

(* A page arrives: it comes behind what was accumulated. *)
LEMMA ReceiveLoads ==
    ASSUME LInv, ReceivePage
    PROVE  /\ LInv'
           /\ load.rows = {} => accumulated' = accumulated
<1> PICK more : more = InOrder(load.rows)
  OBVIOUS
<1>1. /\ load.pc = "answer" /\ accumulated' = accumulated \o more
      /\ load' = [pc     |-> IF load.next = 0 THEN "done" ELSE "ask",
                  cursor |-> IF load.next = 0 THEN load.cursor ELSE load.next,
                  rows   |-> {}, next |-> 0]
      /\ UNCHANGED <<land, nextLand, late>>
  BY DEF ReceivePage, table
<1>2. /\ load.cursor \in Nat /\ load.next \in Nat /\ load.rows \subseteq Feature
      /\ load.cursor < nextLand /\ load.next < nextLand /\ nextLand \in Nat
      /\ accumulated \in Seq(Feature)
  BY DEF LInv, LoadOK, Loading, TableOK
<1>3. /\ more \in Seq(load.rows) /\ Len(more) = Cardinality(load.rows)
      /\ \A i, j \in DOMAIN more : i < j => more[i].id < more[j].id
      /\ \A r \in load.rows : \E i \in DOMAIN more : more[i] = r
  BY InOrderSorts DEF LInv, LoadOK
<1>4. /\ more \in Seq(Feature) /\ DOMAIN more = 1 .. Len(more)
      /\ \A i \in DOMAIN more : more[i] \in load.rows
  BY <1>2, <1>3
<1>5. load.rows = {} => accumulated' = accumulated
  <2>1. load.rows = {} => Len(more) = 0
    BY <1>3, FS_EmptySet
  <2>2. Len(more) = 0 => more = <<>>
    BY <1>4
  <2> QED
    BY <1>1, <1>2, <2>1, <2>2
<1> PICK k, n : k = Len(accumulated) /\ n = Len(more)
  OBVIOUS
<1>6. /\ k \in Nat /\ n \in Nat /\ accumulated' \in Seq(Feature)
      /\ DOMAIN accumulated' = 1 .. k + n
      /\ DOMAIN accumulated = 1 .. k /\ DOMAIN more = 1 .. n
      /\ \A i \in 1 .. k : accumulated'[i] = accumulated[i]
      /\ \A i \in k + 1 .. k + n : i - k \in 1 .. n /\ accumulated'[i] = more[i - k]
      /\ \A i \in 1 .. n : i + k \in 1 .. k + n /\ accumulated'[i + k] = more[i]
  BY <1>1, <1>2, <1>4
<1>7. /\ load'.pc \in {"done", "ask"} /\ load'.rows = {} /\ load'.next = 0
      /\ load'.cursor \in Nat /\ load'.cursor < nextLand
      /\ load'.pc = "ask" => load.next # 0 /\ load'.cursor = load.next
      /\ load' \in Loading
  BY <1>1, <1>2 DEF Loading
<1>8. \A i \in 1 .. k : accumulated[i].id <= load.cursor /\ accumulated[i].id \in Nat
  <2>1. \A i \in 1 .. k : accumulated[i].id <= load.cursor
    BY <1>1, <1>6 DEF LInv, LoadOK, Active
  <2>2. \A i \in 1 .. k : accumulated[i] \in Feature
    BY <1>2, <1>6
  <2>3. \A f \in Feature : f.id \in Nat
    BY DEF Feature, LandItem
  <2> QED
    BY <2>1, <2>2, <2>3
<1>9. \A i \in 1 .. n : /\ load.cursor < more[i].id /\ more[i].id \in Nat
                        /\ load.next # 0 => more[i].id <= load.next
  <2>1. \A i \in 1 .. n : more[i] \in load.rows
    BY <1>4, <1>6
  <2>2. \A f \in load.rows : load.cursor < f.id /\ (load.next # 0 => f.id <= load.next)
    BY DEF LInv, LoadOK
  <2>3. \A f \in load.rows : f.id \in Nat
    BY <1>2 DEF Feature, LandItem
  <2> QED
    BY <2>1, <2>2, <2>3
<1>10. PagesFitTogether'
  <2> SUFFICES ASSUME NEW i \in 1 .. k + n, NEW j \in 1 .. k + n, i < j
               PROVE  accumulated'[i].id < accumulated'[j].id
    BY <1>6 DEF PagesFitTogether
  <2>1. CASE j <= k
    <3>1. i \in 1 .. k /\ j \in 1 .. k
      BY <1>6, <2>1
    <3>2. \A a, b \in DOMAIN accumulated : a < b => accumulated[a].id < accumulated[b].id
      BY DEF LInv, LoadOK, PagesFitTogether
    <3>3. accumulated[i].id < accumulated[j].id
      BY <1>6, <3>1, <3>2
    <3>4. accumulated'[i] = accumulated[i] /\ accumulated'[j] = accumulated[j]
      BY <1>6, <3>1
    <3> QED
      BY <3>3, <3>4
  <2>2. CASE i > k
    <3>1. i \in k + 1 .. k + n /\ j \in k + 1 .. k + n /\ i - k < j - k
      BY <1>6, <2>2
    <3>2. /\ accumulated'[i] = more[i - k] /\ accumulated'[j] = more[j - k]
          /\ i - k \in 1 .. n /\ j - k \in 1 .. n
      BY <1>6, <3>1
    <3>3. more[i - k].id < more[j - k].id
      BY <1>3, <1>6, <3>1, <3>2
    <3> QED
      BY <3>2, <3>3
  <2>3. CASE i <= k /\ j > k
    <3>1. i \in 1 .. k /\ j \in k + 1 .. k + n
      BY <1>6, <2>3
    <3>2. /\ accumulated'[i] = accumulated[i] /\ accumulated'[j] = more[j - k]
          /\ j - k \in 1 .. n
      BY <1>6, <3>1
    <3> QED
      BY <1>2, <1>8, <1>9, <3>1, <3>2
  <2> QED
    BY <1>6, <2>1, <2>2, <2>3
<1>11. ASSUME load'.pc = "ask"
       PROVE  \A i \in 1 .. k + n : accumulated'[i].id <= load'.cursor
  <2>1. load.cursor < load.next /\ load'.cursor = load.next
    BY <1>7, <1>11 DEF LInv, LoadOK
  <2>2. \A i \in 1 .. k : accumulated'[i].id <= load.next
    BY <1>2, <1>6, <1>8, <2>1
  <2>3. \A i \in k + 1 .. k + n : accumulated'[i].id <= load.next
    <3> SUFFICES ASSUME NEW i \in k + 1 .. k + n
                 PROVE  accumulated'[i].id <= load.next
      OBVIOUS
    <3>1. i - k \in 1 .. n /\ accumulated'[i] = more[i - k]
      BY <1>6
    <3>2. load.next # 0
      BY <1>7, <1>11
    <3>3. more[i - k].id <= load.next
      BY <1>9, <3>1, <3>2
    <3> QED
      BY <3>1, <3>3
  <2>4. \A i \in 1 .. k + n : i \in 1 .. k \/ i \in k + 1 .. k + n
    BY <1>6
  <2> QED
    BY <2>1, <2>2, <2>3, <2>4
<1>12. LoadOK'
  <2>1. IsFiniteSet({}) /\ Distinct({})
    BY FS_EmptySet DEF Distinct
  <2>2. /\ IsFiniteSet(load'.rows) /\ Distinct(load'.rows)
        /\ \A f \in load'.rows : /\ load'.cursor < f.id
                                 /\ load'.next # 0 => f.id <= load'.next
        /\ load'.next # 0 => load'.cursor < load'.next
        /\ load'.pc # "answer" => load'.rows = {} /\ load'.next = 0
    BY <1>7, <2>1
  <2>3. load'.cursor < nextLand' /\ load'.next < nextLand'
    <3>1. 0 < nextLand
      BY <1>2
    <3> QED
      BY <1>1, <1>7, <3>1
  <2>4. Active' => load'.pc = "ask"
    BY <1>7 DEF Active
  <2>5. Active' => \A i \in DOMAIN accumulated' : accumulated'[i].id <= load'.cursor
    BY <1>6, <1>11, <2>4
  <2> QED
    BY <1>6, <1>7, <1>10, <2>2, <2>3, <2>5 DEF LoadOK, Distinct
<1>13. NothingIsMissing'
  <2> SUFFICES ASSUME load'.pc = "ask", NEW r \in land, r.geom # NoGeom, r.id <= load'.cursor
               PROVE  \/ \E i \in DOMAIN accumulated' : accumulated'[i] = ItemOf(r)
                      \/ r.id \in late
    <3>1. \A r \in land : 1 <= r.id /\ r.id \in Nat
      BY DEF LInv, TableOK, LandRow
    <3> QED
      BY <1>1, <1>7, <3>1 DEF NothingIsMissing, Active, Accounted
  <2>1. Accounted(r)
    BY <1>1, <1>7 DEF LInv, NothingIsMissing, Active
  <2>2. CASE \E i \in DOMAIN accumulated : accumulated[i] = ItemOf(r)
    <3>1. PICK i \in 1 .. k : accumulated[i] = ItemOf(r)
      BY <1>6, <2>2
    <3>2. i \in 1 .. k + n /\ accumulated'[i] = ItemOf(r)
      BY <1>6, <3>1
    <3> QED
      BY <1>6, <3>2
  <2>3. CASE ItemOf(r) \in load.rows
    <3>1. PICK i \in 1 .. n : more[i] = ItemOf(r)
      BY <1>3, <1>6, <2>3
    <3>2. i + k \in 1 .. k + n /\ accumulated'[i + k] = ItemOf(r)
      BY <1>6, <3>1
    <3> QED
      BY <1>6, <3>2
  <2> QED
    BY <2>1, <2>2, <2>3 DEF Accounted
<1>14. TableOK'
  BY <1>1 DEF LInv, TableOK
<1> QED
  BY <1>5, <1>12, <1>13, <1>14 DEF LInv

LEMMA StepLInv == LInv /\ [Next]_vars => LInv'
<1> SUFFICES ASSUME LInv, [Next]_vars
             PROVE  LInv'
  OBVIOUS
<1>1. CASE UNCHANGED <<land, nextLand, load, accumulated, late>>
  BY <1>1 DEF LInv, TableOK, LoadOK, PagesFitTogether, Active, NothingIsMissing, Accounted
<1>2. CASE Configure \/ LoadFails
  <2>1. /\ load' = [load EXCEPT !.pc = "ask"] /\ load.pc = "config"
        \/ load' = [load EXCEPT !.pc = "failed", !.rows = {}, !.next = 0]
    BY <1>2 DEF Configure, LoadFails
  <2>2. UNCHANGED <<land, nextLand, accumulated, late>>
    BY <1>2 DEF Configure, LoadFails, table
  <2>3. load \in Loading /\ load.cursor < nextLand /\ load.next < nextLand
    BY DEF LInv, LoadOK
  <2>4. /\ load' \in Loading /\ load'.cursor = load.cursor
        /\ \/ /\ load'.pc = "ask" /\ load.pc = "config" /\ load'.rows = load.rows
              /\ load'.next = load.next
           \/ load'.pc = "failed" /\ load'.rows = {} /\ load'.next = 0
    <3>1. load = [pc |-> load.pc, cursor |-> load.cursor, rows |-> load.rows, next |-> load.next]
          /\ load.cursor \in Nat /\ load.rows \in SUBSET Feature /\ load.next \in Nat
      BY <2>3 DEF Loading
    <3>2. CASE load' = [load EXCEPT !.pc = "ask"] /\ load.pc = "config"
      <4>1. load' = [pc |-> "ask", cursor |-> load.cursor, rows |-> load.rows, next |-> load.next]
        BY <3>1, <3>2
      <4> QED
        BY <3>1, <3>2, <4>1 DEF Loading
    <3>3. CASE load' = [load EXCEPT !.pc = "failed", !.rows = {}, !.next = 0]
      <4>1. load' = [pc |-> "failed", cursor |-> load.cursor, rows |-> {}, next |-> 0]
        BY <3>1, <3>3
      <4> QED
        BY <3>1, <4>1 DEF Loading
    <3> QED
      BY <2>1, <3>2, <3>3
  <2>5. IsFiniteSet({}) /\ Distinct({})
    BY FS_EmptySet DEF Distinct
  <2>6. nextLand \in Nat /\ load.cursor \in Nat
    BY DEF LInv, TableOK, LoadOK, Loading
  <2>7. TableOK'
    BY <2>2 DEF LInv, TableOK
  <2>8. LoadOK'
    <3>1. CASE load'.pc = "ask" /\ load.pc = "config" /\ load'.rows = load.rows
                /\ load'.next = load.next
      BY <2>2, <2>4, <3>1 DEF LInv, LoadOK, PagesFitTogether, Active, Distinct
    <3>2. CASE load'.pc = "failed" /\ load'.rows = {} /\ load'.next = 0
      <4>1. load'.next < nextLand /\ ~Active'
        BY <2>3, <2>6, <3>2 DEF Active
      <4>2. PagesFitTogether' /\ accumulated' \in Seq(Feature)
        BY <2>2 DEF LInv, LoadOK, PagesFitTogether
      <4> QED
        BY <2>2, <2>3, <2>4, <2>5, <3>2, <4>1, <4>2 DEF LoadOK, Distinct
    <3> QED
      BY <2>4, <3>1, <3>2
  <2>9. NothingIsMissing'
    BY <2>2, <2>4 DEF LInv, NothingIsMissing, Accounted, Active
  <2> QED
    BY <2>7, <2>8, <2>9 DEF LInv
<1>3. CASE User
  BY <1>1, <1>3 DEF User, Type, Search, Reset, ClickEmpty, ClosePanel, ClickListItem,
                    ClickParcel, Navigate, SelectItem, table
<1>4. CASE UNCHANGED vars
  BY <1>1, <1>4 DEF vars, table
<1> QED
  BY <1>2, <1>3, <1>4, OtherLoads, ServeLoads, ReceiveLoads DEF Next, Stream

-----------------------------------------------------------------------------
(* What the filters are applied to. *)

LEMMA StepLoaded ==
    LInv /\ Shown /\ LoadedIsShown /\ [Next]_vars => LoadedIsShown'
<1> SUFFICES ASSUME LInv, Shown, LoadedIsShown, [Next]_vars
             PROVE  LoadedIsShown'
  OBVIOUS
<1>0. state = [ready |-> state.ready, original |-> state.original,
               current |-> state.current, index |-> state.index]
  BY DEF Shown
<1>1. CASE UNCHANGED <<state, load, accumulated, applied>>
  BY <1>1 DEF LoadedIsShown
<1>2. CASE Other \/ UNCHANGED vars
  BY <1>1, <1>2 DEF Other, Upload, Collect, vars, shown
<1>3. CASE Configure \/ ServePage \/ LoadFails
  <2>1. /\ UNCHANGED <<state, accumulated>> /\ load'.pc # "done"
    BY <1>3 DEF Configure, ServePage, LoadFails, shown, LInv, LoadOK, Loading
  <2> QED
    BY <2>1 DEF LoadedIsShown
<1>4. ASSUME NEW s, NEW l, NEW parcels, ApplyFilters(s, l, parcels),
             s = [ready |-> s.ready, original |-> s.original,
                  current |-> s.current, index |-> s.index],
             s.original = accumulated'
      PROVE  LoadedIsShown'
  <2>1. /\ state' = [ready |-> s.ready, original |-> s.original,
                     current |-> Matches(s.original, parcels), index |-> 0]
        /\ applied' = parcels
    BY <1>4 DEF ApplyFilters, SetCurrentFeatures
  <2>2. state'.original = s.original /\ state'.current = Matches(s.original, parcels)
    BY <2>1
  <2> QED
    BY <1>4, <2>1, <2>2 DEF LoadedIsShown
<1>5. CASE ReceivePage
  <2> PICK s : s = WithOriginal(state, accumulated')
    OBVIOUS
  <2>1. s = [ready |-> TRUE, original |-> accumulated', current |-> state.current,
             index |-> state.index]
    BY <1>0 DEF WithOriginal
  <2>2. s.original = accumulated' /\ s.index = state.index /\ s.ready
        /\ s = [ready |-> s.ready, original |-> s.original, current |-> s.current, index |-> s.index]
    BY <2>1
  <2>3. CASE Renders
    <3>1. ApplyFilters(s, layers, input)
      BY <1>5, <2>3 DEF ReceivePage
    <3> QED
      BY <1>4, <2>2, <3>1
  <2>4. CASE ~Renders
    <3>1. /\ state' = IF load.rows = {} THEN state ELSE s
          /\ load'.pc = "done" => load.next = 0
      BY <1>5, <2>4 DEF ReceivePage
    <3>2. load'.pc = "done" => state.index # 0
      BY <2>4, <3>1 DEF Renders
    <3>3. CASE load.rows = {}
      <4>1. accumulated' = accumulated
        BY <1>5, <3>3, ReceiveLoads
      <4> QED
        BY <3>1, <3>2, <3>3, <4>1 DEF LoadedIsShown
    <3>4. CASE load.rows # {}
      BY <2>2, <3>1, <3>2, <3>4 DEF LoadedIsShown
    <3> QED
      BY <3>3, <3>4
  <2> QED
    BY <2>3, <2>4
<1>6. CASE (\E parcels \in FilterInputs : Type(parcels)) \/ ClosePanel \/ ClickEmpty
  BY <1>1, <1>6 DEF Type, ClosePanel, ClickEmpty, shown
<1>7. CASE Search \/ Reset
  <2>1. UNCHANGED <<load, accumulated>>
    BY <1>7 DEF Search, Reset
  <2>2. CASE UNCHANGED <<state, applied>>
    BY <1>1, <2>1, <2>2
  <2>3. CASE state.ready /\ \E l, parcels : ApplyFilters(state, l, parcels)
    <3>1. state.original = accumulated'
      BY <2>1, <2>3 DEF LoadedIsShown
    <3> QED
      BY <1>0, <1>4, <2>3, <3>1
  <2> QED
    BY <1>7, <2>2, <2>3 DEF Search, Reset
<1>8. CASE \E i : SelectItem(i)
  <2> PICK i : SelectItem(i)
    BY <1>8
  <2>1. /\ state' = [state EXCEPT !.index = i] /\ i # 0
        /\ UNCHANGED <<load, accumulated, applied>>
    BY DEF SelectItem
  <2>2. state'.index = i /\ state'.ready = state.ready /\ state'.original = state.original
    BY <1>0, <2>1
  <2> QED
    BY <2>1, <2>2 DEF LoadedIsShown
<1>9. CASE \/ \E i \in DOMAIN state.current : ClickListItem(i)
           \/ \E d \in layers.base \cup layers.selected : ClickParcel(d)
           \/ \E direction \in {-1, 1} : Navigate(direction)
  BY <1>8, <1>9 DEF ClickListItem, ClickParcel, Navigate
<1> QED
  BY <1>2, <1>3, <1>5, <1>6, <1>7, <1>9 DEF Next, Stream, User

(* The parts of TypeOK that are not in LInv. *)
RestOK ==
    /\ uploads \in 0 .. MaxUploads
    /\ input \in FilterInputs /\ applied \in FilterInputs
    /\ list \in {"loading", "items", "error"}
    /\ late \subseteq Nat

LEMMA StepRest == LInv /\ RestOK /\ [Next]_vars => RestOK'
<1> SUFFICES ASSUME LInv, RestOK, [Next]_vars
             PROVE  RestOK'
  OBVIOUS
<1>1. MaxUploads \in Nat /\ ResetInput \in FilterInputs
  BY MapPageAssumption DEF MapPageAssumption
<1>2. \A r \in land : r.id \in Nat
  BY DEF LInv, TableOK, LandRow
<1>3. CASE Other
  <2>1. CASE \E sheet \in Sheets : Upload(sheet)
    <3>1. uploads' \in 0 .. MaxUploads
      BY <1>1, <2>1 DEF Upload, RestOK
    <3>2. UNCHANGED <<shown, input, late>>
      BY <2>1 DEF Upload
    <3> QED
      BY <3>1, <3>2 DEF shown, RestOK
  <2>2. CASE \E r \in MissingGeom(land) : Collect(r)
    <3>1. UNCHANGED <<uploads, shown, input>>
      BY <2>2 DEF Collect
    <3>2. late' \subseteq Nat
      BY <1>2, <2>2 DEF Collect, MissingGeom, RestOK
    <3> QED
      BY <3>1, <3>2 DEF shown, RestOK
  <2> QED
    BY <1>3, <2>1, <2>2 DEF Other
<1>4. CASE Stream
  BY <1>4 DEF Stream, Configure, ServePage, ReceivePage, LoadFails, ApplyFilters, table, shown, RestOK
<1>5. CASE User
  <2>1. CASE (\E parcels \in FilterInputs : Type(parcels)) \/ ClickEmpty \/ ClosePanel
    BY <2>1 DEF Type, ClickEmpty, ClosePanel, table, shown, RestOK
  <2>2. CASE Search \/ Reset
    BY <1>1, <2>2 DEF Search, Reset, ApplyFilters, table, RestOK
  <2>3. CASE \E i : SelectItem(i)
    BY <2>3 DEF SelectItem, table, RestOK
  <2>4. CASE \/ \E i \in DOMAIN state.current : ClickListItem(i)
             \/ \E d \in layers.base \cup layers.selected : ClickParcel(d)
             \/ \E direction \in {-1, 1} : Navigate(direction)
    BY <2>3, <2>4 DEF ClickListItem, ClickParcel, Navigate
  <2> QED
    BY <1>5, <2>1, <2>2, <2>4 DEF User
<1>6. CASE UNCHANGED vars
  BY <1>6 DEF vars, table, shown, RestOK
<1> QED
  BY <1>3, <1>4, <1>5, <1>6 DEF Next

-----------------------------------------------------------------------------
(* setFeatures and selectFeatureId leave every parcel of the result in one  *)
(* of the two sources, and the one highlighted in the other, in any order.  *)
THEOREM LayersFollowResult == Spec => []LayersPartitionResult
<1>1. Shown => LayersPartitionResult
  BY DEF Shown, Parted, Drawing, LayersPartitionResult
<1> QED
  BY InitShown, StepShown, <1>1, PTL DEF Spec

(* Previous and next count from the parcel that is highlighted, if any is.  *)
THEOREM NavigationFollowsHighlight == Spec => []IndexIsHighlighted
<1>1. Shown => IndexIsHighlighted
  BY DEF Shown
<1> QED
  BY InitShown, StepShown, <1>1, PTL DEF Spec

(* What a click on the map hits is what the panel shows, although the click *)
(* looks the parcel up by its index in the newest result.                   *)
THEOREM ClicksHitWhatIsShown == Spec => ClickShowsParcelHit
<1>1. Shown /\ [Next]_vars =>
         [\A d \in layers.base \cup layers.selected : ClickParcel(d) => panel' = d.feature]_vars
  <2> SUFFICES ASSUME Shown, NEW d \in layers.base \cup layers.selected, ClickParcel(d)
               PROVE  panel' = d.feature
    OBVIOUS
  <2>1. PICK i \in DOMAIN state.current : d = At(state.current, i)
    BY DEF Shown, Parted, Drawing, DrawnFrom
  <2> QED
    BY <2>1 DEF ClickParcel, At
<1> QED
  BY InitShown, StepShown, <1>1, PTL DEF Spec, ClickShowsParcelHit

(* The table, the loading and the inputs are typed.                         *)
THEOREM TypeCorrect == Spec => []TypeOK
<1>1. Init => RestOK
  BY MapPageAssumption DEF MapPageAssumption, Init, RestOK
<1>2. LInv /\ RestOK => TypeOK
  BY DEF LInv, TableOK, LoadOK, RestOK, TypeOK
<1> QED
  BY InitLInv, StepLInv, StepRest, <1>1, <1>2, PTL DEF Spec

(* The cursor of fetch_lands_with_geom_page gives no row twice and none out *)
(* of order, whatever is uploaded or collected between two pages.           *)
THEOREM PagesInOrder == Spec => []PagesFitTogether
<1>1. LInv => PagesFitTogether
  BY DEF LInv, LoadOK
<1> QED
  BY InitLInv, StepLInv, <1>1, PTL DEF Spec

(* bootstrapMapData loses nothing for the filters and shows all that match  *)
(* in the end, unless a parcel is selected.                                 *)
THEOREM NothingLoadedIsHidden == Spec => []LoadedIsShown
<1>1. Init => LoadedIsShown
  BY DEF Init, LoadedIsShown
<1> QED
  BY InitLInv, StepLInv, InitShown, StepShown, StepLoaded, <1>1, PTL DEF Spec

(* A cursor over ids that AUTOINCREMENT never gives again misses no row of  *)
(* any upload but those whose boundary came behind it.                      *)
THEOREM NoRowIsMissed == Spec => LoadMissesNoRow
<1>1. LInv /\ [Next]_vars =>
        [(load.pc = "ask" /\ load'.pc = "answer" /\ load'.next = 0) =>
          \A r \in land : r.geom # NoGeom =>
              LET f == [id |-> r.id, addr |-> r.addr]
              IN  \/ \E i \in DOMAIN accumulated : accumulated[i] = f
                  \/ f \in load'.rows
                  \/ r.id \in late]_vars
  <2> SUFFICES ASSUME LInv, Next, load.pc = "ask", load'.pc = "answer", load'.next = 0
               PROVE  \A r \in land : r.geom # NoGeom =>
                         \/ \E i \in DOMAIN accumulated : accumulated[i] = ItemOf(r)
                         \/ ItemOf(r) \in load'.rows
                         \/ r.id \in late
    BY DEF ItemOf, vars
  <2>1. ServePage
    <3>1. CASE Other
      BY <3>1 DEF Other, Upload, Collect
    <3>2. CASE Configure \/ ReceivePage \/ LoadFails
      BY <3>2 DEF Configure, ReceivePage, LoadFails, LInv, LoadOK, Loading
    <3>3. CASE User
      BY <3>3 DEF User, Type, Search, Reset, ClickEmpty, ClosePanel, ClickListItem,
                  ClickParcel, Navigate, SelectItem
    <3> QED
      BY <3>1, <3>2, <3>3 DEF Next, Stream
  <2> QED
    BY <2>1, ServeLoads
<1> QED
  BY InitLInv, StepLInv, <1>1, PTL DEF Spec, LoadMissesNoRow
=============================================================================
