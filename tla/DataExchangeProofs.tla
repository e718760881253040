------------------------ MODULE DataExchangeProofs ------------------------
(***************************************************************************)
(* What holds of a draft, and of imports into it, for any rows, clients,   *)
(* limits, files, keys and previews.                                       *)
(*                                                                         *)
(* Every change advances the revision, so a client whose revision is       *)
(* current has seen the current page; this needs more than itself: a load  *)
(* that has only begun is as current as a finished one, and no load is     *)
(* ahead of the page (ViewInv).  Orders never tie and limits hold, because *)
(* every edit keeps the tables of categories and sites (Tables): new and   *)
(* moved rows go behind the others, and positions tell rows apart;         *)
(* positions follow the order there was, so only a layout rearranges.  A   *)
(* file is imported at most once from its preview: the preview remembers   *)
(* what landed, and only a stored one is imported.                         *)
(*                                                                         *)
(* An import takes one site after the other; Done says what holds when the *)
(* first n are in, and an induction over n, by the least counterexample,   *)
(* carries it to the end.  Then imports keep what the edits keep.          *)
(***************************************************************************)
EXTENDS DataExchange, FiniteSetTheorems, WellFoundedInduction, TLAPS

\* The parts a load has read are those of its revision while that is current.
Reads(v) ==
  /\ v.revision \in Nat /\ v.revision <= revision
  /\ v.revision = revision =>
       /\ v.page = page
       /\ v.step \in {"categories", "loaded"} => v.categories = categories
       /\ v.step = "loaded" => v.sites = sites

ViewInv ==
  /\ revision \in Nat
  /\ views = [c \in Clients |-> views[c]]
  /\ \A c \in Clients : views[c].step \in {"base", "categories", "loaded"} => Reads(views[c])

\* A step advances the revision or changes nothing of the page.
Counted ==
  \/ revision' = revision + 1
  \/ UNCHANGED <<content, revision>>

-----------------------------------------------------------------------------
(* Every step is counted                                                   *)

LEMMA EditCounts == Edit => revision' = revision + 1 /\ UNCHANGED views
  BY DEF Edit, Touch, clientVars

LEMMA EditCategoryCounts == EditCategory => revision' = revision + 1 /\ UNCHANGED views
  BY EditCounts DEF EditCategory, CreateCategory, UpdateCategory, DeleteCategory

LEMMA EditSiteCounts == EditSite => revision' = revision + 1 /\ UNCHANGED views
  BY EditCounts DEF EditSite, CreateSite, UpdateSite, DeleteSite, DeletePersonalLink

LEMMA EditPageCounts ==
  ASSUME NEW c \in Clients, EditPage(c)
  PROVE  revision' = revision + 1 /\ UNCHANGED views
  BY EditCounts DEF EditPage, UpdatePage, ReplaceSettings, BatchSetSitesEnabled

LEMMA LayoutCounts ==
  ASSUME NEW c \in Clients, Layout(c)
  PROVE  Counted /\ UNCHANGED views
  BY DEF Layout, BeginLayout, DropLayout, ReplaceContentOrder, SaveLayoutSettings,
     Touch, Counted, content

LEMMA ClearingCounts ==
  ReadForClearing \/ ClearBackground => Counted /\ UNCHANGED views
  BY DEF ReadForClearing, ClearBackground, Touch, Counted, content, clientVars

LEMMA LoadCounts ==
  ASSUME NEW c \in Clients, Load(c)
  PROVE  UNCHANGED <<content, revision>>
  BY DEF Load, LoadBase, LoadCategories, LoadSites, content

LEMMA EveryStepCounts == [DraftNext]_draftVars => Counted
  <1> SUFFICES ASSUME [DraftNext]_draftVars PROVE Counted
    OBVIOUS
  <1>1. CASE EditCategory \/ EditSite
    BY <1>1, EditCategoryCounts, EditSiteCounts DEF Counted
  <1>2. CASE \E c \in Clients : Load(c) \/ EditPage(c)
    BY <1>2, LoadCounts, EditPageCounts DEF Counted
  <1>3. CASE ReadForClearing \/ ClearBackground
    BY <1>3, ClearingCounts
  <1>4. CASE \E c \in Clients : Layout(c)
    BY <1>4, LayoutCounts
  <1>5. CASE UNCHANGED draftVars
    BY <1>5 DEF draftVars, Counted
  <1> QED BY <1>1, <1>2, <1>3, <1>4, <1>5 DEF DraftNext, LoadsAndEdits

\* Every change of the draft, by whichever package, advances its revision by one.
THEOREM ChangesAreCounted == DraftSpec => RevisionCountsChanges
  <1>1. [DraftNext]_draftVars => [content' # content => revision' = revision + 1]_draftVars
    BY EveryStepCounts DEF Counted
  <1> QED BY <1>1, PTL DEF DraftSpec, RevisionCountsChanges

-----------------------------------------------------------------------------
(* What is read stays true while its revision is current                   *)

LEMMA ViewInvInit == DraftInit => ViewInv
  BY DEF DraftInit, ViewInv, NoView

\* A view that does not change outlives a counted step.
LEMMA ReadsKept ==
  ASSUME ViewInv, Counted, NEW c \in Clients, views'[c] = views[c],
         views'[c].step \in {"base", "categories", "loaded"}
  PROVE  Reads(views[c])'
  <1>1. Reads(views[c])
    BY DEF ViewInv
  <1>2. CASE revision' = revision + 1
    BY <1>1, <1>2 DEF Reads, ViewInv
  <1>3. CASE UNCHANGED <<content, revision>>
    BY <1>1, <1>3 DEF Reads, content
  <1> QED BY <1>2, <1>3 DEF Counted

LEMMA LoadKeeps ==
  ASSUME ViewInv, NEW c \in Clients, Load(c)
  PROVE  ViewInv'
  <1>0. UNCHANGED <<content, revision>> /\ Counted
    BY LoadCounts DEF Counted
  <1> DEFINE new(v) == views' = [views EXCEPT ![c] = v]
  <1>1. ASSUME NEW v, new(v), v.step \in {"base", "categories", "loaded"} => Reads(v)
        PROVE  ViewInv'
    <2>1. views' = [d \in Clients |-> views'[d]] /\ views'[c] = v
           /\ \A d \in Clients \ {c} : views'[d] = views[d]
      BY <1>1 DEF ViewInv
    <2>2. ASSUME NEW d \in Clients, views'[d].step \in {"base", "categories", "loaded"}
          PROVE  Reads(views[d])'
      <3>1. CASE d = c
        BY <1>0, <1>1, <2>1, <2>2, <3>1 DEF Reads, content
      <3>2. CASE d # c
        BY <1>0, <2>1, <2>2, <3>2, ReadsKept
      <3> QED BY <3>1, <3>2
    <2> QED BY <1>0, <2>1, <2>2 DEF ViewInv
  <1>2. CASE LoadBase(c)
    <2> DEFINE v == [step |-> "base", revision |-> revision, page |-> page]
    <2>1. Reads(v) /\ new(v)
      BY <1>2 DEF Reads, LoadBase, ViewInv
    <2> QED BY <1>1, <2>1
  <1>3. CASE LoadCategories(c)
    <2> DEFINE v == [step |-> "categories", revision |-> views[c].revision,
                     page |-> views[c].page, categories |-> categories]
    <2>1. Reads(views[c])
      BY <1>3 DEF LoadCategories, ViewInv
    <2>2. Reads(v) /\ new(v)
      BY <1>3, <2>1 DEF Reads, LoadCategories
    <2> QED BY <1>1, <2>2
  <1>4. CASE LoadSites(c)
    <2> DEFINE v == [step |-> "loaded", revision |-> views[c].revision,
                     page |-> views[c].page, categories |-> views[c].categories, sites |-> sites]
    <2>1. Reads(views[c]) /\ views[c].step = "categories"
      BY <1>4 DEF LoadSites, ViewInv
    <2>2. Reads(v) /\ new(v)
      BY <1>4, <2>1 DEF Reads, LoadSites
    <2> QED BY <1>1, <2>2
  <1> QED BY <1>2, <1>3, <1>4 DEF Load

LEMMA ViewInvStep == ViewInv /\ [DraftNext]_draftVars => ViewInv'
  <1> SUFFICES ASSUME ViewInv, [DraftNext]_draftVars PROVE ViewInv'
    OBVIOUS
  <1>1. CASE UNCHANGED views
    <2>1. Counted
      BY EveryStepCounts
    <2>2. revision' \in Nat
      BY <2>1 DEF Counted, ViewInv
    <2>3. ASSUME NEW d \in Clients, views'[d].step \in {"base", "categories", "loaded"}
          PROVE  Reads(views[d])'
      BY <1>1, <2>1, <2>3, ReadsKept
    <2> QED BY <1>1, <2>2, <2>3 DEF ViewInv
  <1>2. CASE \E c \in Clients : Load(c)
    BY <1>2, LoadKeeps
  <1>3. CASE EditCategory \/ EditSite \/ ReadForClearing \/ ClearBackground
    BY <1>1, <1>3, EditCategoryCounts, EditSiteCounts, ClearingCounts
  <1>4. CASE \E c \in Clients : EditPage(c) \/ Layout(c)
    BY <1>1, <1>4, EditPageCounts, LayoutCounts
  <1>5. CASE UNCHANGED draftVars
    BY <1>1, <1>5 DEF draftVars, clientVars
  <1> QED BY <1>2, <1>3, <1>4, <1>5 DEF DraftNext, LoadsAndEdits

LEMMA ReadsAreCurrent == ViewInv => SeenIsCurrent
  BY DEF ViewInv, Reads, SeenIsCurrent, Current, Loaded

\* A client whose revision is current has seen the current page.
THEOREM CurrentHasSeen == DraftSpec => []SeenIsCurrent
  BY ViewInvInit, ViewInvStep, ReadsAreCurrent, PTL DEF DraftSpec

-----------------------------------------------------------------------------
(* Orders                                                                  *)

\* A finite set of integers has a greatest one: the one fewest are above.
LEMMA MaxOfFinite ==
  ASSUME NEW S, IsFiniteSet(S), S \subseteq Int, S # {}
  PROVE  Max(S) \in S /\ \A y \in S : Max(S) >= y
  <1> DEFINE above(x) == {y \in S : y > x}
             counts == {Cardinality(above(x)) : x \in S}
  <1>1. \A x \in S : IsFiniteSet(above(x)) /\ Cardinality(above(x)) \in Nat
    BY FS_Subset, FS_CardinalityType
  <1>2. counts \subseteq Nat /\ counts # {}
    BY <1>1
  <1>3. PICK n \in counts : \A m \in counts : ~(<<m, n>> \in OpToRel(<, Nat))
    <2> HIDE DEF counts
    <2> QED BY <1>2, NatLessThanWellFounded, WFMin
  <1>4. PICK x \in S : n = Cardinality(above(x))
    BY <1>3
  <1>5. ASSUME NEW y \in S, y > x
        PROVE  FALSE
    <2>0. x \in Int /\ y \in Int /\ \A z \in S : z \in Int
      OBVIOUS
    <2>1. /\ above(y) \in SUBSET above(x)
          /\ y \in above(x) /\ y \notin above(y)
      <3>1. y \in above(x) /\ y \notin above(y)
        BY <1>5, <2>0
      <3>2. ASSUME NEW z \in above(y) PROVE z \in above(x)
        <4>1. z \in S /\ z \in Int /\ z > y
          BY <2>0
        <4>2. z > x
          BY <1>5, <2>0, <4>1
        <4> QED BY <4>1, <4>2
      <3> QED BY <3>1, <3>2
    <2>2. Cardinality(above(y)) < Cardinality(above(x))
      <3>1. above(y) # above(x)
        BY <2>1
      <3>2. IsFiniteSet(above(x)) /\ Cardinality(above(x)) \in Nat /\ Cardinality(above(y)) \in Nat
        BY <1>1
      <3>3. /\ Cardinality(above(y)) <= Cardinality(above(x))
            /\ Cardinality(above(x)) = Cardinality(above(y)) => above(x) = above(y)
        <4> HIDE DEF above
        <4> QED BY <2>1, <3>2, FS_Subset
      <3> HIDE DEF above
      <3> QED BY <3>1, <3>2, <3>3
    <2>3. Cardinality(above(y)) \in counts
      OBVIOUS
    <2> QED BY <1>1, <1>3, <1>4, <2>2, <2>3 DEF OpToRel
  <1>6. x \in S /\ \A y \in S : x >= y
    BY <1>5
  <1> QED BY <1>6 DEF Max

Ordered(table, ids) == \A i \in ids : table[i].order \in Nat

\* A new row goes behind the others.
LEMMA NextOrderFacts ==
  ASSUME NEW table, NEW ids, IsFiniteSet(ids), Ordered(table, ids)
  PROVE  /\ NextOrder(table, ids) \in Nat
         /\ \A i \in ids : table[i].order < NextOrder(table, ids)
  <1> DEFINE f == [i \in ids |-> table[i].order]
             orders == {table[i].order : i \in ids}
             S == {-1} \cup orders
  <1>1. IsFiniteSet(orders)
    <2>1. f \in Surjection(ids, orders)
      BY DEF Surjection
    <2> HIDE DEF f, orders
    <2> QED BY <2>1, FS_Surjection
  <1>2. IsFiniteSet(S) /\ S \subseteq Int /\ S # {}
    <2>1. IsFiniteSet({-1})
      BY FS_Singleton
    <2>2. IsFiniteSet(S)
      <3> HIDE DEF orders
      <3> QED BY <1>1, <2>1, FS_Union
    <2>3. orders \subseteq Nat
      BY DEF Ordered
    <2> QED BY <2>2, <2>3
  <1>3. Max(S) \in S /\ \A y \in S : Max(S) >= y
    <2> HIDE DEF S
    <2> QED BY <1>2, MaxOfFinite
  <1>4. Max(S) \in Int /\ Max(S) >= -1
    <2> HIDE DEF orders
    <2> QED BY <1>2, <1>3
  <1>5. NextOrder(table, ids) = Max(S) + 1
    BY DEF NextOrder
  <1>6. ASSUME NEW i \in ids PROVE table[i].order \in Nat /\ Max(S) >= table[i].order
    <2>1. table[i].order \in S
      OBVIOUS
    <2> QED BY <1>3, <2>1 DEF Ordered
  <1> HIDE DEF S
  <1> QED BY <1>4, <1>5, <1>6

\* Positions are naturals and tell rows apart.
LEMMA PositionFacts ==
  ASSUME NEW table, NEW ids, IsFiniteSet(ids), ids \subseteq Nat, Ordered(table, ids)
  PROVE  /\ \A i \in ids : Position(table, ids, i) \in 0 .. Cardinality(ids)
         /\ \A i, j \in ids : Before(table, i, j) => Position(table, ids, i) < Position(table, ids, j)
         /\ \A i, j \in ids : Position(table, ids, i) = Position(table, ids, j) => i = j
  <1> DEFINE ahead(i) == {j \in ids : Before(table, j, i)}
  <1>1. Cardinality(ids) \in Nat /\ \A i \in ids :
           /\ IsFiniteSet(ahead(i)) /\ Cardinality(ahead(i)) \in Nat
           /\ Cardinality(ahead(i)) <= Cardinality(ids)
    <2>1. \A i \in ids : ahead(i) \in SUBSET ids
      OBVIOUS
    <2> HIDE DEF ahead
    <2> QED BY <2>1, FS_Subset, FS_CardinalityType
  <1>2. ASSUME NEW i \in ids, NEW j \in ids, Before(table, i, j)
        PROVE  Position(table, ids, i) < Position(table, ids, j)
    <2>1. ASSUME NEW k \in ahead(i) PROVE k \in ahead(j)
      <3>1. k \in ids /\ Before(table, k, i)
        OBVIOUS
      <3>2. /\ k \in Nat /\ i \in Nat /\ j \in Nat
            /\ table[k].order \in Nat /\ table[i].order \in Nat /\ table[j].order \in Nat
        BY <3>1 DEF Ordered
      <3>3. Before(table, k, j)
        BY <1>2, <3>1, <3>2 DEF Before
      <3> QED BY <3>1, <3>3
    <2>2. i \in ahead(j) /\ i \notin ahead(i)
      <3>1. i \in Nat /\ table[i].order \in Nat
        BY DEF Ordered
      <3>2. ~Before(table, i, i)
        BY <3>1 DEF Before
      <3> QED BY <1>2, <3>2
    <2>3. ahead(i) \in SUBSET ahead(j) /\ ahead(i) # ahead(j)
      BY <2>1, <2>2
    <2>4. Cardinality(ahead(i)) < Cardinality(ahead(j))
      <3>1. /\ IsFiniteSet(ahead(j))
            /\ Cardinality(ahead(i)) \in Nat /\ Cardinality(ahead(j)) \in Nat
        BY <1>1
      <3> HIDE DEF ahead
      <3>2. /\ Cardinality(ahead(i)) <= Cardinality(ahead(j))
            /\ Cardinality(ahead(j)) = Cardinality(ahead(i)) => ahead(j) = ahead(i)
        BY <2>3, <3>1, FS_Subset
      <3> QED BY <2>3, <3>1, <3>2
    <2> QED BY <2>4 DEF Position
  <1>3. ASSUME NEW i \in ids, NEW j \in ids, i # j
        PROVE  Before(table, i, j) \/ Before(table, j, i)
    <2>1. i \in Nat /\ j \in Nat /\ table[i].order \in Nat /\ table[j].order \in Nat
      BY DEF Ordered
    <2> QED BY <1>3, <2>1 DEF Before
  <1>4. \A i \in ids : Position(table, ids, i) \in 0 .. Cardinality(ids)
    BY <1>1 DEF Position
  <1>5. ASSUME NEW i \in ids, NEW j \in ids, Position(table, ids, i) = Position(table, ids, j)
        PROVE  i = j
    <2>1. Position(table, ids, i) \in Int /\ Position(table, ids, j) \in Int
      BY <1>1, <1>4
    <2> QED BY <1>2, <1>3, <1>5, <2>1
  <1> QED BY <1>2, <1>4, <1>5

-----------------------------------------------------------------------------
(* Tables: what the edits keep of the rows                                 *)

CategoryTable(t) ==
  /\ IsFiniteSet(DOMAIN t) /\ DOMAIN t \subseteq CategoryIds
  /\ Cardinality(DOMAIN t) <= MaxCategories
  /\ Uncategorized \in DOMAIN t
  /\ \A c \in DOMAIN t : t[c] \in CategoryRows
  /\ \A c, d \in DOMAIN t : t[c].order = t[d].order => c = d

SiteTable(t, cats) ==
  /\ IsFiniteSet(DOMAIN t) /\ DOMAIN t \subseteq SiteIds
  /\ Cardinality(DOMAIN t) <= MaxSites
  /\ \A s \in DOMAIN t : t[s] \in SiteRows /\ t[s].category \in cats
  /\ \A s, r \in DOMAIN t : t[s].category = t[r].category /\ t[s].order = t[r].order => s = r

Tables == CategoryTable(categories) /\ SiteTable(sites, DOMAIN categories)

\* Fewer rows are within every limit.
LEMMA FewerRows ==
  ASSUME NEW S, IsFiniteSet(S), NEW T \in SUBSET S, NEW n \in Nat, Cardinality(S) <= n
  PROVE  IsFiniteSet(T) /\ Cardinality(T) <= n
  BY FS_Subset, FS_CardinalityType

LEMMA OneMoreRow ==
  ASSUME NEW S, IsFiniteSet(S), NEW x, NEW n \in Nat, Cardinality(S) < n
  PROVE  IsFiniteSet(S \cup {x}) /\ Cardinality(S \cup {x}) <= n
  <1>1. Cardinality(S) \in Nat
    BY FS_CardinalityType
  <1>2. /\ IsFiniteSet(S \cup {x})
        /\ Cardinality(S \cup {x}) = IF x \in S THEN Cardinality(S) ELSE Cardinality(S) + 1
    BY FS_AddElement
  <1> QED BY <1>1, <1>2

\* A new category at the end of a table that has room for it.
LEMMA AddedCategory ==
  ASSUME NEW t, CategoryTable(t), NEW c \in CategoryIds \ DOMAIN t, NEW n \in Names,
         Cardinality(DOMAIN t) < MaxCategories, NEW more,
         more = With(t, c, [name |-> n, order |-> NextOrder(t, DOMAIN t)])
  PROVE  /\ CategoryTable(more) /\ DOMAIN more = DOMAIN t \cup {c} /\ more[c].name = n
         /\ \A d \in DOMAIN t : more[d] = t[d]
  <1> DEFINE next == NextOrder(t, DOMAIN t)
             new == [name |-> n, order |-> next]
  <1>1. next \in Nat /\ \A d \in DOMAIN t : t[d].order < next
    BY NextOrderFacts DEF CategoryTable, Ordered, CategoryRows
  <1> HIDE DEF next
  <1>2. /\ DOMAIN more = DOMAIN t \cup {c} /\ c \notin DOMAIN t
        /\ more[c] = new
        /\ \A d \in DOMAIN t : more[d] = t[d]
    BY DEF With, next
  <1>3. IsFiniteSet(DOMAIN more) /\ Cardinality(DOMAIN more) <= MaxCategories
    <2>1. IsFiniteSet(DOMAIN t) /\ MaxCategories \in Nat
      BY LimitsAssumption DEF CategoryTable
    <2> QED BY <1>2, <2>1, OneMoreRow
  <1>4. \A d \in DOMAIN more : more[d] \in CategoryRows
    BY <1>1, <1>2 DEF CategoryTable, CategoryRows
  <1>5. ASSUME NEW d \in DOMAIN more, NEW e \in DOMAIN more, more[d].order = more[e].order
        PROVE  d = e
    <2>1. \A f \in DOMAIN t : more[f].order \in Nat /\ more[f].order < next
      BY <1>1, <1>2 DEF CategoryTable, CategoryRows
    <2>2. more[c].order = next
      BY <1>2
    <2> QED BY <1>1, <1>2, <1>5, <2>1, <2>2 DEF CategoryTable
  <1> QED BY <1>2, <1>3, <1>4, <1>5 DEF CategoryTable

LEMMA CreateCategoryKeeps ==
  ASSUME NEW c \in CategoryIds, NEW n \in Names, CategoryTable(categories), CreateCategory(c, n)
  PROVE  CategoryTable(categories')
  BY AddedCategory DEF CreateCategory

LEMMA UpdateCategoryKeeps ==
  ASSUME NEW c \in CategoryIds, NEW n \in Names, CategoryTable(categories), UpdateCategory(c, n)
  PROVE  CategoryTable(categories') /\ DOMAIN categories' = DOMAIN categories
  <1>1. /\ DOMAIN categories' = DOMAIN categories
        /\ \A d \in DOMAIN categories : categories'[d] = IF d = c THEN [categories[c] EXCEPT !.name = n]
                                                        ELSE categories[d]
    BY DEF UpdateCategory
  <1>2. \A d \in DOMAIN categories : /\ categories'[d] \in CategoryRows
                                    /\ categories'[d].order = categories[d].order
    BY <1>1 DEF CategoryTable, CategoryRows
  <1> QED BY <1>1, <1>2 DEF CategoryTable

\* Renumbered rows keep everything but their orders, and these differ.
LEMMA RenumberedFacts ==
  ASSUME NEW table, NEW ids, IsFiniteSet(ids), ids \subseteq Nat, ids \subseteq DOMAIN table,
         Ordered(table, ids)
  PROVE  /\ DOMAIN Renumbered(table, ids) = DOMAIN table
         /\ \A i \in DOMAIN table \ ids : Renumbered(table, ids)[i] = table[i]
         /\ \A i \in ids :
              /\ Position(table, ids, i) \in Nat
              /\ Renumbered(table, ids)[i] = [table[i] EXCEPT !.order = Position(table, ids, i)]
  <1>1. \A i \in ids : Position(table, ids, i) \in Nat
    <2>1. Cardinality(ids) \in Nat
      BY FS_CardinalityType
    <2>2. \A i \in ids : Position(table, ids, i) \in 0 .. Cardinality(ids)
      BY PositionFacts
    <2> QED BY <2>1, <2>2
  <1> QED BY <1>1 DEF Renumbered

LEMMA DeleteCategoryKeepsCategories ==
  ASSUME NEW c \in CategoryIds, NEW mode, CategoryTable(categories), DeleteCategory(c, mode)
  PROVE  /\ CategoryTable(categories') /\ DOMAIN categories' = DOMAIN categories \ {c}
         /\ c # Uncategorized
  <1> DEFINE kept == Without(categories, {c})
  <1>1. /\ DOMAIN kept = DOMAIN categories \ {c} /\ c \in DOMAIN categories \ {Uncategorized}
        /\ \A d \in DOMAIN kept : kept[d] = categories[d]
        /\ categories' = Renumbered(kept, DOMAIN kept)
    BY DEF Without, Restrict, DeleteCategory
  <1> HIDE DEF kept
  <1>2. /\ IsFiniteSet(DOMAIN kept) /\ Cardinality(DOMAIN kept) <= MaxCategories
        /\ DOMAIN kept \subseteq CategoryIds /\ DOMAIN kept \subseteq Nat
    BY <1>1, FewerRows, LimitsAssumption, IdsAssumption DEF CategoryTable
  <1>3. \A d \in DOMAIN kept : kept[d] \in CategoryRows
    BY <1>1 DEF CategoryTable
  <1>4. Ordered(kept, DOMAIN kept)
    BY <1>3 DEF Ordered, CategoryRows
  <1>5. /\ DOMAIN categories' = DOMAIN kept
        /\ \A d \in DOMAIN kept :
             /\ Position(kept, DOMAIN kept, d) \in Nat
             /\ categories'[d] = [kept[d] EXCEPT !.order = Position(kept, DOMAIN kept, d)]
    <2> DEFINE ids == DOMAIN kept
    <2>1. IsFiniteSet(ids) /\ ids \subseteq Nat /\ ids \subseteq DOMAIN kept /\ Ordered(kept, ids)
      BY <1>2, <1>4
    <2>2. categories' = Renumbered(kept, ids) /\ DOMAIN kept = ids
      BY <1>1
    <2> HIDE DEF ids
    <2> QED BY <2>1, <2>2, RenumberedFacts
  <1>6. \A d \in DOMAIN kept : /\ categories'[d] \in CategoryRows
                              /\ categories'[d].order = Position(kept, DOMAIN kept, d)
    BY <1>3, <1>5 DEF CategoryRows
  <1>7. \A d, e \in DOMAIN kept :
           Position(kept, DOMAIN kept, d) = Position(kept, DOMAIN kept, e) => d = e
    BY <1>2, <1>4, PositionFacts
  <1>8. Uncategorized \in DOMAIN categories'
    BY <1>1, <1>5 DEF CategoryTable
  <1>9. \A d, e \in DOMAIN categories' : categories'[d].order = categories'[e].order => d = e
    BY <1>5, <1>6, <1>7
  <1> QED BY <1>1, <1>2, <1>5, <1>6, <1>8, <1>9 DEF CategoryTable

LEMMA InCategoryFacts ==
  ASSUME NEW cats, SiteTable(sites, cats), NEW ids \in SUBSET DOMAIN sites
  PROVE  IsFiniteSet(ids) /\ ids \subseteq Nat /\ Ordered(sites, ids)
  <1>1. IsFiniteSet(ids)
    BY FS_Subset DEF SiteTable
  <1>2. ids \subseteq Nat
    BY IdsAssumption DEF SiteTable
  <1>3. Ordered(sites, ids)
    BY DEF SiteTable, Ordered, SiteRows
  <1> QED BY <1>1, <1>2, <1>3

\* A new site at the end of its category.
LEMMA AddedSite ==
  ASSUME NEW t, NEW cats, SiteTable(t, cats), NEW s \in SiteIds \ DOMAIN t,
         NEW c \in cats, cats \subseteq CategoryIds, NEW u \in Urls, NEW e \in BOOLEAN,
         Cardinality(DOMAIN t) < MaxSites, NEW inside, inside = {r \in DOMAIN t : t[r].category = c},
         NEW more,
         more = With(t, s, [category |-> c, url |-> u, order |-> NextOrder(t, inside), enabled |-> e])
  PROVE  /\ SiteTable(more, cats) /\ DOMAIN more = DOMAIN t \cup {s}
         /\ more[s].url = u /\ more[s].category = c
         /\ \A r \in DOMAIN t : more[r] = t[r]
  <1> DEFINE next == NextOrder(t, inside)
             new == [category |-> c, url |-> u, order |-> next, enabled |-> e]
  <1>1. next \in Nat /\ \A r \in inside : t[r].order < next
    <2>1. IsFiniteSet(inside)
      BY FS_Subset DEF SiteTable
    <2>2. Ordered(t, inside)
      BY DEF SiteTable, Ordered, SiteRows
    <2> QED BY <2>1, <2>2, NextOrderFacts
  <1> HIDE DEF next
  <1>3. /\ DOMAIN more = DOMAIN t \cup {s} /\ s \notin DOMAIN t /\ more[s] = new
        /\ \A r \in DOMAIN t : more[r] = t[r]
    BY DEF With, next
  <1>4. IsFiniteSet(DOMAIN more) /\ Cardinality(DOMAIN more) <= MaxSites
    <2>1. IsFiniteSet(DOMAIN t) /\ MaxSites \in Nat
      BY LimitsAssumption DEF SiteTable
    <2> QED BY <1>3, <2>1, OneMoreRow
  <1>5. new \in SiteRows /\ new.category = c /\ new.order = next
    BY <1>1 DEF SiteRows
  <1>6. \A r \in DOMAIN more : more[r] \in SiteRows /\ more[r].category \in cats
    BY <1>3, <1>5 DEF SiteTable
  <1>8. ASSUME NEW r \in DOMAIN more, NEW q \in DOMAIN more,
               more[r].category = more[q].category, more[r].order = more[q].order
        PROVE  r = q
    <2>1. \A p \in DOMAIN t : t[p].order \in Nat
      BY DEF SiteTable, SiteRows
    <2>2. CASE r \in DOMAIN t /\ q \in DOMAIN t
      BY <1>3, <1>8, <2>2 DEF SiteTable
    <2>3. CASE r \in DOMAIN t /\ q = s
      BY <1>1, <1>3, <1>5, <1>8, <2>1, <2>3
    <2>4. CASE r = s /\ q \in DOMAIN t
      BY <1>1, <1>3, <1>5, <1>8, <2>1, <2>4
    <2> QED BY <1>3, <2>2, <2>3, <2>4
  <1>9. DOMAIN more \subseteq SiteIds
    BY <1>3 DEF SiteTable
  <1> QED BY <1>3, <1>4, <1>6, <1>8, <1>9 DEF SiteTable

LEMMA CreateSiteKeeps ==
  ASSUME NEW s \in SiteIds, NEW c \in CategoryIds, NEW u \in Urls, NEW e \in BOOLEAN,
         Tables, CreateSite(s, c, u, e)
  PROVE  Tables'
  <1>1. /\ s \in SiteIds \ DOMAIN sites /\ c \in DOMAIN categories /\ UNCHANGED categories
        /\ Cardinality(DOMAIN sites) < MaxSites
        /\ sites' = With(sites, s, [category |-> c, url |-> u,
                                    order |-> NextOrder(sites, InCategory(c)), enabled |-> e])
    BY DEF CreateSite
  <1>2. SiteTable(sites, DOMAIN categories) /\ DOMAIN categories \subseteq CategoryIds
    BY DEF Tables, CategoryTable
  <1>3. InCategory(c) = {r \in DOMAIN sites : sites[r].category = c}
    BY DEF InCategory
  <1>4. PICK cats : cats = DOMAIN categories
    OBVIOUS
  <1>5. PICK more : more = sites'
    OBVIOUS
  <1>6. PICK ids : ids = InCategory(c)
    OBVIOUS
  <1>7. SiteTable(more, cats)
    BY <1>1, <1>2, <1>3, <1>4, <1>5, <1>6, AddedSite
  <1> QED BY <1>1, <1>4, <1>5, <1>7 DEF Tables

\* Fewer sites are as good.
LEMMA FewerSites ==
  ASSUME NEW t, NEW cats, SiteTable(t, cats), NEW ids \in SUBSET DOMAIN t, NEW less,
         less = Restrict(t, ids), NEW rest, \A r \in ids : t[r].category \in rest
  PROVE  SiteTable(less, rest) /\ DOMAIN less = ids
  <1>1. DOMAIN less = ids /\ \A r \in ids : less[r] = t[r]
    BY DEF Restrict
  <1>2. IsFiniteSet(ids) /\ Cardinality(ids) <= MaxSites
    BY FewerRows, LimitsAssumption DEF SiteTable
  <1> QED BY <1>1, <1>2 DEF SiteTable

LEMMA DeletePersonalLinkKeeps ==
  ASSUME NEW s \in SiteIds, Tables, DeletePersonalLink(s)
  PROVE  Tables'
  <1>1. SiteTable(sites', DOMAIN categories)
    <2>1. /\ sites' = Restrict(sites, DOMAIN sites \ {s})
          /\ \A r \in DOMAIN sites \ {s} : sites[r].category \in DOMAIN categories
      BY DEF DeletePersonalLink, Without, Tables, SiteTable
    <2> QED BY <2>1, FewerSites DEF Tables
  <1> QED BY <1>1 DEF DeletePersonalLink, Tables

\* Renumbering the sites of one category.
LEMMA RenumberedSites ==
  ASSUME NEW t, NEW cats, SiteTable(t, cats), NEW ids \in SUBSET DOMAIN t, NEW c,
         \A r \in DOMAIN t : r \in ids <=> t[r].category = c
  PROVE  SiteTable(Renumbered(t, ids), cats)
  <1> DEFINE new == Renumbered(t, ids)
  <1>1. IsFiniteSet(ids) /\ ids \subseteq Nat /\ Ordered(t, ids)
    BY FS_Subset, IdsAssumption DEF SiteTable, Ordered, SiteRows
  <1>2. /\ DOMAIN new = DOMAIN t
        /\ \A r \in DOMAIN t \ ids : new[r] = t[r]
        /\ \A r \in ids : /\ Position(t, ids, r) \in Nat
                          /\ new[r] = [t[r] EXCEPT !.order = Position(t, ids, r)]
    BY <1>1, RenumberedFacts
  <1> HIDE DEF new
  <1>3. \A r \in DOMAIN t : new[r] \in SiteRows /\ new[r].category = t[r].category
    <2>1. ASSUME NEW r \in ids PROVE new[r] \in SiteRows /\ new[r].category = t[r].category
      <3>1. t[r] \in SiteRows /\ Position(t, ids, r) \in Nat
        BY <1>2 DEF SiteTable
      <3>2. new[r] = [t[r] EXCEPT !.order = Position(t, ids, r)]
        BY <1>2
      <3> QED BY <3>1, <3>2 DEF SiteRows
    <2> QED BY <1>2, <2>1 DEF SiteTable
  <1>4. \A r \in ids : new[r].order = Position(t, ids, r)
    BY <1>2 DEF SiteTable, SiteRows
  <1>5. \A r, q \in ids : Position(t, ids, r) = Position(t, ids, q) => r = q
    BY <1>1, PositionFacts
  <1>6. ASSUME NEW r \in DOMAIN t, NEW q \in DOMAIN t,
               new[r].category = new[q].category, new[r].order = new[q].order
        PROVE  r = q
    <2>1. r \in ids <=> q \in ids
      BY <1>3, <1>6
    <2>2. CASE r \in ids
      BY <1>4, <1>5, <1>6, <2>1, <2>2
    <2>3. CASE r \notin ids
      BY <1>2, <1>6, <2>1, <2>3 DEF SiteTable
    <2> QED BY <2>2, <2>3
  <1>7. SiteTable(new, cats)
    BY <1>2, <1>3, <1>6 DEF SiteTable
  <1> QED BY <1>7 DEF new

LEMMA DeleteSiteKeeps ==
  ASSUME NEW s \in SiteIds, Tables, DeleteSite(s)
  PROVE  Tables'
  <1> DEFINE kept == Restrict(sites, DOMAIN sites \ {s})
             c == sites[s].category
             ids == InCategory(c) \ {s}
  <1>1. SiteTable(kept, DOMAIN categories) /\ DOMAIN kept = DOMAIN sites \ {s}
    <2>1. \A r \in DOMAIN sites \ {s} : sites[r].category \in DOMAIN categories
      BY DEF Tables, SiteTable
    <2> QED BY <2>1, FewerSites DEF Tables
  <1>2. /\ ids \in SUBSET DOMAIN kept
        /\ \A r \in DOMAIN kept : r \in ids <=> kept[r].category = c
    BY <1>1 DEF InCategory, Restrict
  <1>3. sites' = Renumbered(kept, ids) /\ UNCHANGED categories
    BY DEF DeleteSite, Without
  <1> HIDE DEF kept, ids, c
  <1> QED BY <1>1, <1>2, <1>3, RenumberedSites DEF Tables

LEMMA UpdateSiteKeeps ==
  ASSUME NEW s \in SiteIds, NEW c \in CategoryIds, NEW u \in Urls, NEW e \in BOOLEAN,
         Tables, UpdateSite(s, c, u, e)
  PROVE  Tables'
  <1> DEFINE old == sites[s].category
             next == NextOrder(sites, InCategory(c))
             new == PatchedSite(s, c, u, e)
             patched == With(sites, s, new)
             ids == InCategory(old) \ {s}
  <1>1. /\ s \in DOMAIN sites /\ c \in DOMAIN categories /\ UNCHANGED categories
        /\ sites' = IF c = old THEN patched ELSE Renumbered(patched, ids)
    BY DEF UpdateSite
  <1>2. next \in Nat /\ \A r \in DOMAIN sites : sites[r].category = c => sites[r].order < next
    <2>1. InCategory(c) \in SUBSET DOMAIN sites
      BY DEF InCategory
    <2>2. next \in Nat /\ \A r \in InCategory(c) : sites[r].order < next
      BY <2>1, InCategoryFacts, NextOrderFacts DEF Tables
    <2> QED BY <2>2 DEF InCategory
  <1>3. \A r \in DOMAIN sites : /\ sites[r] \in SiteRows /\ sites[r].order \in Nat
                               /\ sites[r].category \in DOMAIN categories
    BY DEF Tables, SiteTable, SiteRows
  <1>4. /\ new \in SiteRows /\ new.category = c
        /\ new.order = IF c = old THEN sites[s].order ELSE next
    BY <1>1, <1>2, <1>3 DEF PatchedSite, SiteRows
  <1>5. DOMAIN patched = DOMAIN sites /\ patched[s] = new
        /\ \A r \in DOMAIN sites \ {s} : patched[r] = sites[r]
    BY <1>1 DEF With
  <1>6. \A r \in DOMAIN sites : r \in ids <=> r # s /\ sites[r].category = old
    BY DEF InCategory
  <1> HIDE DEF next, new, patched, ids
  <1>7. SiteTable(patched, DOMAIN categories)
    <2>1. ASSUME NEW r \in DOMAIN sites, NEW q \in DOMAIN sites, r # q,
                 patched[r].category = patched[q].category, patched[r].order = patched[q].order
          PROVE  FALSE
      <3>1. CASE r # s /\ q # s
        BY <1>5, <2>1, <3>1 DEF Tables, SiteTable
      <3>2. CASE r = s
        BY <1>2, <1>3, <1>4, <1>5, <2>1, <3>2 DEF Tables, SiteTable
      <3>3. CASE q = s
        BY <1>2, <1>3, <1>4, <1>5, <2>1, <3>3 DEF Tables, SiteTable
      <3> QED BY <3>1, <3>2, <3>3
    <2>2. \A r \in DOMAIN patched : patched[r] \in SiteRows /\ patched[r].category \in DOMAIN categories
      BY <1>1, <1>3, <1>4, <1>5
    <2> QED BY <1>5, <2>1, <2>2 DEF Tables, SiteTable
  <1>8. ASSUME c # old
        PROVE  /\ ids \in SUBSET DOMAIN patched
               /\ \A r \in DOMAIN patched : r \in ids <=> patched[r].category = old
    <2>1. ids \in SUBSET DOMAIN patched
      BY <1>5 DEF ids, InCategory
    <2> QED BY <1>4, <1>5, <1>6, <1>8, <2>1
  <1>9. SiteTable(sites', DOMAIN categories)
    <2>1. CASE c = old
      BY <1>1, <1>7, <2>1
    <2>2. CASE c # old
      BY <1>1, <1>7, <1>8, <2>2, RenumberedSites
    <2> QED BY <2>1, <2>2
  <1> QED BY <1>1, <1>9 DEF Tables

LEMMA BatchKeeps ==
  ASSUME NEW c \in Clients, NEW ids \in SUBSET SiteIds, NEW e \in BOOLEAN,
         Tables, BatchSetSitesEnabled(c, ids, e)
  PROVE  Tables'
  <1>1. /\ DOMAIN sites' = DOMAIN sites /\ UNCHANGED categories
        /\ \A s \in DOMAIN sites :
             sites'[s] = IF s \in ids THEN [sites[s] EXCEPT !.enabled = e] ELSE sites[s]
    BY DEF BatchSetSitesEnabled
  <1>2. \A s \in DOMAIN sites : /\ sites'[s] \in SiteRows
                               /\ sites'[s].category = sites[s].category
                               /\ sites'[s].order = sites[s].order
    BY <1>1 DEF Tables, SiteTable, SiteRows
  <1> QED BY <1>1, <1>2 DEF Tables, SiteTable

LEMMA MovedToKeeps ==
  ASSUME NEW c \in CategoryIds, c # Uncategorized, Tables
  PROVE  SiteTable(MovedTo(Uncategorized, InCategory(c)), DOMAIN categories \ {c})
  <1> DEFINE ids == InCategory(c)
             next == NextOrder(sites, InCategory(Uncategorized))
             moved == MovedTo(Uncategorized, ids)
             pos(s) == Position(sites, ids, s)
  <1>1. /\ ids \in SUBSET DOMAIN sites /\ InCategory(Uncategorized) \in SUBSET DOMAIN sites
        /\ \A s \in DOMAIN sites : s \in ids <=> sites[s].category = c
        /\ \A s \in DOMAIN sites : s \in InCategory(Uncategorized) <=> sites[s].category = Uncategorized
    BY DEF InCategory
  <1>2. next \in Nat /\ \A s \in InCategory(Uncategorized) : sites[s].order < next
    BY <1>1, InCategoryFacts, NextOrderFacts DEF Tables
  <1>3. /\ \A s \in ids : pos(s) \in Nat
        /\ \A s, r \in ids : pos(s) = pos(r) => s = r
    <2>1. IsFiniteSet(ids) /\ ids \subseteq Nat /\ Ordered(sites, ids)
      BY <1>1, InCategoryFacts DEF Tables
    <2> HIDE DEF ids
    <2>2. Cardinality(ids) \in Nat
      BY <2>1, FS_CardinalityType
    <2>3. /\ \A s \in ids : pos(s) \in 0 .. Cardinality(ids)
          /\ \A s, r \in ids : pos(s) = pos(r) => s = r
      BY <2>1, PositionFacts
    <2> QED BY <2>2, <2>3
  <1>4. /\ DOMAIN moved = DOMAIN sites
        /\ \A s \in DOMAIN sites \ ids : moved[s] = sites[s]
        /\ \A s \in ids : moved[s] = [sites[s] EXCEPT !.category = Uncategorized, !.order = next + pos(s)]
    BY <1>1 DEF MovedTo
  <1> HIDE DEF ids, next, moved, pos
  <1>5. \A s \in DOMAIN sites : sites[s] \in SiteRows /\ sites[s].order \in Nat
                               /\ sites[s].category \in DOMAIN categories
    BY DEF Tables, SiteTable, SiteRows
  <1>6. \A s \in ids : /\ moved[s] \in SiteRows /\ moved[s].category = Uncategorized
                      /\ moved[s].order = next + pos(s)
    <2> SUFFICES ASSUME NEW s \in ids
                 PROVE  /\ moved[s] \in SiteRows /\ moved[s].category = Uncategorized
                        /\ moved[s].order = next + pos(s)
      OBVIOUS
    <2>1. next + pos(s) \in Nat /\ sites[s] \in SiteRows
      BY <1>1, <1>2, <1>3, <1>5
    <2>2. moved[s] = [sites[s] EXCEPT !.category = Uncategorized, !.order = next + pos(s)]
      BY <1>4
    <2> QED BY <2>1, <2>2, IdsAssumption DEF SiteRows
  <1>7. \A s \in DOMAIN moved : moved[s] \in SiteRows /\ moved[s].category \in DOMAIN categories \ {c}
    <2>1. Uncategorized \in DOMAIN categories
      BY DEF Tables, CategoryTable
    <2> QED BY <1>1, <1>4, <1>5, <1>6, <2>1
  <1>8. ASSUME NEW s \in DOMAIN sites, NEW r \in DOMAIN sites,
               moved[s].category = moved[r].category, moved[s].order = moved[r].order
        PROVE  s = r
    <2>1. CASE s \in ids /\ r \in ids
      BY <1>2, <1>3, <1>6, <1>8, <2>1
    <2>2. CASE s \in ids /\ r \notin ids
      <3>1. /\ moved[s].order >= next /\ moved[s].category = Uncategorized
        BY <1>2, <1>3, <1>6, <2>2
      <3>2. moved[r] = sites[r] /\ sites[r].order \in Nat
        BY <1>4, <1>5, <2>2
      <3>3. sites[r].order < next
        BY <1>1, <1>2, <1>8, <3>1, <3>2
      <3> QED BY <1>2, <1>8, <3>1, <3>2, <3>3
    <2>3. CASE s \notin ids /\ r \in ids
      <3>1. /\ moved[r].order >= next /\ moved[r].category = Uncategorized
        BY <1>2, <1>3, <1>6, <2>3
      <3>2. moved[s] = sites[s] /\ sites[s].order \in Nat
        BY <1>4, <1>5, <2>3
      <3>3. sites[s].order < next
        BY <1>1, <1>2, <1>8, <3>1, <3>2
      <3> QED BY <1>2, <1>8, <3>1, <3>2, <3>3
    <2>4. CASE s \notin ids /\ r \notin ids
      BY <1>4, <1>8, <2>4 DEF Tables, SiteTable
    <2> QED BY <2>1, <2>2, <2>3, <2>4
  <1>9. SiteTable(moved, DOMAIN categories \ {c})
    BY <1>4, <1>7, <1>8 DEF Tables, SiteTable
  <1> QED BY <1>9 DEF moved, ids

LEMMA DeleteCategoryKeeps ==
  ASSUME NEW c \in CategoryIds, NEW mode, Tables, DeleteCategory(c, mode)
  PROVE  Tables'
  <1>1. /\ CategoryTable(categories') /\ DOMAIN categories' = DOMAIN categories \ {c}
        /\ c # Uncategorized
    BY DeleteCategoryKeepsCategories DEF Tables
  <1>2. CASE mode = "move-to-uncategorized"
    <2>1. sites' = MovedTo(Uncategorized, InCategory(c))
      BY <1>2 DEF DeleteCategory
    <2> QED BY <1>1, <2>1, MovedToKeeps DEF Tables
  <1>3. CASE mode # "move-to-uncategorized"
    <2> DEFINE ids == DOMAIN sites \ InCategory(c)
    <2>1. sites' = Restrict(sites, ids)
      BY <1>3 DEF DeleteCategory, Without
    <2>2. \A s \in ids : sites[s].category \in DOMAIN categories'
      BY <1>1 DEF InCategory, Tables, SiteTable
    <2>3. SiteTable(sites', DOMAIN categories')
      BY <2>1, <2>2, FewerSites DEF Tables
    <2> QED BY <1>1, <2>3 DEF Tables
  <1> QED BY <1>2, <1>3

LEMMA SamePair ==
  ASSUME NEW S, NEW T, NEW p \in S \X T, NEW q \in S \X T, p[1] = q[1], p[2] = q[2]
  PROVE  p = q
  OBVIOUS

LEMMA SiteOrderFacts ==
  ASSUME NEW cats, NEW ids, NEW place \in SiteOrders(cats, ids)
  PROVE  /\ \A s \in ids : place[s] \in cats \X (0 .. Cardinality(ids) - 1)
         /\ \A s, r \in ids : place[s] = place[r] => s = r
  <1> DEFINE places == cats \X (0 .. Cardinality(ids) - 1)
             dense(p) == \A s \in ids : \A n \in 0 .. p[s][2] - 1 : \E t \in ids : p[t] = <<p[s][1], n>>
  <1>1. place \in {p \in Injection(ids, places) : dense(p)}
    BY DEF SiteOrders
  <1> HIDE DEF places, dense
  <1>2. place \in Injection(ids, places)
    BY <1>1
  <1>3. place \in [ids -> places] /\ IsInjective(place)
    BY <1>2 DEF Injection
  <1>4. \A s \in ids : place[s] \in places
    BY <1>3
  <1>5. \A s, r \in ids : place[s] = place[r] => s = r
    BY <1>3 DEF IsInjective
  <1> QED BY <1>4, <1>5 DEF places

LEMMA ReplaceContentOrderKeeps ==
  ASSUME NEW c \in Clients, NEW rank \in CategoryOrders(DOMAIN categories),
         NEW place \in SiteOrders(DOMAIN categories, DOMAIN sites),
         Tables, ReplaceContentOrder(c, rank, place)
  PROVE  Tables'
  <1>1. /\ DOMAIN categories' = DOMAIN categories
        /\ \A i \in DOMAIN categories : categories'[i] = [categories[i] EXCEPT !.order = rank[i]]
        /\ DOMAIN sites' = DOMAIN sites
        /\ \A s \in DOMAIN sites :
             sites'[s] = [sites[s] EXCEPT !.category = place[s][1], !.order = place[s][2]]
    BY DEF ReplaceContentOrder
  <1>2. Cardinality(DOMAIN categories) \in Nat /\ Cardinality(DOMAIN sites) \in Nat
    BY FS_CardinalityType DEF Tables, CategoryTable, SiteTable
  <1>3. /\ \A i \in DOMAIN categories : rank[i] \in Nat
        /\ \A i, j \in DOMAIN categories : rank[i] = rank[j] => i = j
    BY <1>2 DEF CategoryOrders, Injection, IsInjective
  <1>4. /\ \A s \in DOMAIN sites : place[s] \in (DOMAIN categories) \X (0 .. Cardinality(DOMAIN sites) - 1)
        /\ \A s, r \in DOMAIN sites : place[s] = place[r] => s = r
    BY SiteOrderFacts
  <1>5. \A i \in DOMAIN categories : /\ categories'[i] \in CategoryRows
                                    /\ categories'[i].order = rank[i]
    <2> SUFFICES ASSUME NEW i \in DOMAIN categories
                 PROVE  categories'[i] \in CategoryRows /\ categories'[i].order = rank[i]
      OBVIOUS
    <2>1. categories[i] \in CategoryRows /\ rank[i] \in Nat
      BY <1>3 DEF Tables, CategoryTable
    <2> QED BY <1>1, <2>1 DEF CategoryRows
  <1>6. \A s \in DOMAIN sites : /\ sites'[s] \in SiteRows
                               /\ sites'[s].category = place[s][1]
                               /\ sites'[s].order = place[s][2]
                               /\ sites'[s].category \in DOMAIN categories
    <2> SUFFICES ASSUME NEW s \in DOMAIN sites
                 PROVE  /\ sites'[s] \in SiteRows
                        /\ sites'[s].category = place[s][1]
                        /\ sites'[s].order = place[s][2]
                        /\ sites'[s].category \in DOMAIN categories
      OBVIOUS
    <2>1. /\ sites[s] \in SiteRows /\ place[s][1] \in DOMAIN categories
          /\ place[s][1] \in CategoryIds /\ place[s][2] \in Nat
      <3>1. sites[s] \in SiteRows /\ DOMAIN categories \subseteq CategoryIds
        BY DEF Tables, CategoryTable, SiteTable
      <3>2. place[s] \in (DOMAIN categories) \X (0 .. Cardinality(DOMAIN sites) - 1)
        BY <1>4
      <3>3. /\ place[s][1] \in DOMAIN categories
            /\ place[s][2] \in 0 .. Cardinality(DOMAIN sites) - 1
        BY <3>2
      <3> QED BY <1>2, <3>1, <3>3
    <2>2. sites'[s] = [sites[s] EXCEPT !.category = place[s][1], !.order = place[s][2]]
      BY <1>1
    <2> QED BY <2>1, <2>2 DEF SiteRows
  <1>7. ASSUME NEW s \in DOMAIN sites, NEW r \in DOMAIN sites,
               sites'[s].category = sites'[r].category, sites'[s].order = sites'[r].order
        PROVE  s = r
    <2>1. place[s][1] = place[r][1] /\ place[s][2] = place[r][2]
      BY <1>6, <1>7
    <2>2. place[s] = place[r]
      BY <1>4, <2>1, SamePair
    <2> QED BY <1>4, <2>2
  <1>8. CategoryTable(categories')
    <2>1. ASSUME NEW i \in DOMAIN categories, NEW j \in DOMAIN categories,
                 categories'[i].order = categories'[j].order
          PROVE  i = j
      <3>1. rank[i] = rank[j]
        BY <1>5, <2>1
      <3> QED BY <1>3, <3>1
    <2>2. \A i \in DOMAIN categories' : categories'[i] \in CategoryRows
      BY <1>1, <1>5
    <2>3. /\ IsFiniteSet(DOMAIN categories') /\ DOMAIN categories' \subseteq CategoryIds
          /\ Cardinality(DOMAIN categories') <= MaxCategories
          /\ Uncategorized \in DOMAIN categories'
      BY <1>1 DEF Tables, CategoryTable
    <2> QED BY <1>1, <2>1, <2>2, <2>3 DEF CategoryTable
  <1>9. SiteTable(sites', DOMAIN categories)
    BY <1>1, <1>6, <1>7 DEF Tables, SiteTable
  <1> QED BY <1>1, <1>8, <1>9 DEF Tables

LEMMA TablesInit == DraftInit => Tables
  <1> SUFFICES ASSUME DraftInit PROVE Tables
    OBVIOUS
  <1>1. /\ DOMAIN categories = {Uncategorized} /\ categories[Uncategorized] \in CategoryRows
        /\ DOMAIN sites = {}
    BY FirstAssumption DEF DraftInit, CategoryRows
  <1>2. /\ IsFiniteSet({Uncategorized}) /\ Cardinality({Uncategorized}) = 1
        /\ IsFiniteSet({}) /\ Cardinality({}) = 0
    BY FS_Singleton, FS_EmptySet
  <1>3. 1 <= MaxCategories /\ 0 <= MaxSites
    BY LimitsAssumption
  <1> QED BY <1>1, <1>2, <1>3, IdsAssumption DEF Tables, CategoryTable, SiteTable

LEMMA TablesStep == Tables /\ [DraftNext]_draftVars => Tables'
  <1> SUFFICES ASSUME Tables, [DraftNext]_draftVars PROVE Tables'
    OBVIOUS
  <1>1. CASE UNCHANGED <<categories, sites>>
    BY <1>1 DEF Tables
  <1>2. ASSUME NEW c \in CategoryIds, NEW n \in Names, CreateCategory(c, n) \/ UpdateCategory(c, n)
        PROVE  Tables'
    <2>1. UNCHANGED sites /\ DOMAIN categories \subseteq DOMAIN categories'
      BY <1>2 DEF CreateCategory, UpdateCategory, With
    <2>2. CategoryTable(categories')
      BY <1>2, CreateCategoryKeeps, UpdateCategoryKeeps DEF Tables
    <2> QED BY <2>1, <2>2 DEF Tables, SiteTable
  <1>3. CASE EditCategory
    BY <1>2, <1>3, DeleteCategoryKeeps DEF EditCategory
  <1>4. CASE EditSite
    BY <1>4, CreateSiteKeeps, UpdateSiteKeeps, DeleteSiteKeeps, DeletePersonalLinkKeeps DEF EditSite
  <1>5. ASSUME NEW c \in Clients, Load(c) \/ EditPage(c) \/ Layout(c)
        PROVE  Tables'
    <2>1. CASE Load(c)
      BY <1>1, <2>1, LoadCounts DEF content
    <2>2. CASE EditPage(c)
      <3>1. ASSUME NEW ids \in SUBSET SiteIds \ {{}}, NEW e \in BOOLEAN, BatchSetSitesEnabled(c, ids, e)
            PROVE  Tables'
        BY <3>1, BatchKeeps
      <3> QED BY <1>1, <2>2, <3>1 DEF EditPage, UpdatePage, ReplaceSettings
    <2>3. CASE Layout(c)
      BY <1>1, <2>3, ReplaceContentOrderKeeps
         DEF Layout, BeginLayout, DropLayout, SaveLayoutSettings, content
    <2> QED BY <1>5, <2>1, <2>2, <2>3
  <1>6. CASE ReadForClearing \/ ClearBackground
    BY <1>1, <1>6 DEF ReadForClearing, ClearBackground, content
  <1>7. CASE UNCHANGED draftVars
    BY <1>1, <1>7 DEF draftVars, content
  <1> QED BY <1>3, <1>4, <1>5, <1>6, <1>7 DEF DraftNext, LoadsAndEdits

LEMMA TablesAlways == DraftSpec => []Tables
  BY TablesInit, TablesStep, PTL DEF DraftSpec

\* Orders never tie, so what a page shows never depends on random ids.
THEOREM OrdersNeverTie == DraftSpec => []OrdersDiffer
  <1>1. Tables => OrdersDiffer
    BY DEF Tables, CategoryTable, SiteTable, OrdersDiffer
  <1> QED BY <1>1, TablesAlways, PTL

\* Categories and sites stay within the limits.
THEOREM LimitsAreKept == DraftSpec => []LimitsHold
  <1>1. Tables => LimitsHold
    BY DEF Tables, CategoryTable, SiteTable, LimitsHold
  <1> QED BY <1>1, TablesAlways, PTL

-----------------------------------------------------------------------------
(* Only a layout rearranges                                                *)

CategoriesStay(t, u) == \A i, j \in DOMAIN t \cap DOMAIN u : Before(t, i, j) => Before(u, i, j)

SitesStay(t, u) ==
  \A i, j \in DOMAIN t \cap DOMAIN u :
    t[i].category = t[j].category /\ u[i].category = u[j].category /\ Before(t, i, j)
    => Before(u, i, j)

Arranged == CategoriesStay(categories, categories') /\ SitesStay(sites, sites')

LEMMA SameOrders ==
  ASSUME NEW t, NEW u, \A i \in DOMAIN t \cap DOMAIN u : u[i].order = t[i].order
  PROVE  CategoriesStay(t, u) /\ SitesStay(t, u)
  BY DEF CategoriesStay, SitesStay, Before

LEMMA RenumberedBefore ==
  ASSUME NEW t, NEW ids, IsFiniteSet(ids), ids \subseteq Nat, ids \subseteq DOMAIN t,
         \A i \in ids : t[i] \in CategoryRows \/ t[i] \in SiteRows,
         NEW i \in ids, NEW j \in ids, Before(t, i, j)
  PROVE  Before(Renumbered(t, ids), i, j)
  <1> DEFINE new == Renumbered(t, ids)
             pos(k) == Position(t, ids, k)
  <1>1. Ordered(t, ids)
    BY DEF Ordered, CategoryRows, SiteRows
  <1>2. \A k \in ids : pos(k) \in Nat /\ new[k] = [t[k] EXCEPT !.order = pos(k)]
    BY <1>1, RenumberedFacts
  <1>3. pos(i) < pos(j)
    BY <1>1, PositionFacts
  <1> HIDE DEF new, pos
  <1>4. \A k \in ids : new[k].order = pos(k)
    BY <1>2 DEF CategoryRows, SiteRows
  <1>5. Before(new, i, j)
    BY <1>3, <1>4 DEF Before
  <1> QED BY <1>5 DEF new

LEMMA CategoriesOfDeleteStay ==
  ASSUME NEW c \in CategoryIds, NEW mode, Tables, DeleteCategory(c, mode)
  PROVE  CategoriesStay(categories, categories')
  <1> DEFINE kept == Without(categories, {c})
             ids == DOMAIN categories \ {c}
  <1>1. /\ DOMAIN kept = ids /\ \A d \in ids : kept[d] = categories[d]
        /\ categories' = Renumbered(kept, DOMAIN kept)
    BY DEF Without, Restrict, DeleteCategory
  <1>2. /\ IsFiniteSet(ids) /\ ids \subseteq Nat /\ ids \subseteq DOMAIN categories
        /\ \A d \in ids : categories[d] \in CategoryRows
    BY FewerRows, LimitsAssumption, IdsAssumption DEF Tables, CategoryTable
  <1> HIDE DEF kept, ids
  <1>3. DOMAIN categories' = ids
    BY <1>1 DEF Renumbered
  <1>4. ASSUME NEW i \in ids, NEW j \in ids, Before(categories, i, j)
        PROVE  Before(categories', i, j)
    <2>1. Before(kept, i, j)
      BY <1>1, <1>4 DEF Before
    <2>2. Before(Renumbered(kept, ids), i, j)
      BY <1>1, <1>2, <2>1, RenumberedBefore
    <2> QED BY <1>1, <2>2
  <1> QED BY <1>2, <1>3, <1>4 DEF CategoriesStay

\* Moved sites keep the order they had among themselves.
LEMMA MovedSitesStay ==
  ASSUME NEW c \in CategoryIds, c # Uncategorized, Tables,
         sites' = MovedTo(Uncategorized, InCategory(c))
  PROVE  SitesStay(sites, sites')
  <1> DEFINE ids == InCategory(c)
             next == NextOrder(sites, InCategory(Uncategorized))
             pos(s) == Position(sites, ids, s)
  <1>1. /\ ids \in SUBSET DOMAIN sites /\ InCategory(Uncategorized) \in SUBSET DOMAIN sites
        /\ \A s \in DOMAIN sites : s \in ids <=> sites[s].category = c
    BY DEF InCategory
  <1>2. next \in Nat
    BY <1>1, InCategoryFacts, NextOrderFacts DEF Tables
  <1>3. IsFiniteSet(ids) /\ ids \subseteq Nat /\ Ordered(sites, ids)
    BY <1>1, InCategoryFacts DEF Tables
  <1>4. /\ \A s \in DOMAIN sites \ ids : sites'[s] = sites[s]
        /\ \A s \in ids : sites'[s] = [sites[s] EXCEPT !.category = Uncategorized, !.order = next + pos(s)]
        /\ DOMAIN sites' = DOMAIN sites
    BY <1>1 DEF MovedTo
  <1> HIDE DEF ids, next
  <1>5. /\ \A s \in ids : pos(s) \in Nat
        /\ \A s, r \in ids : Before(sites, s, r) => pos(s) < pos(r)
    <2>1. Cardinality(ids) \in Nat
      BY <1>3, FS_CardinalityType
    <2>2. /\ \A s \in ids : pos(s) \in 0 .. Cardinality(ids)
          /\ \A s, r \in ids : Before(sites, s, r) => pos(s) < pos(r)
      BY <1>3, PositionFacts
    <2> QED BY <2>1, <2>2
  <1> HIDE DEF pos
  <1>6. \A s \in ids : sites'[s].order = next + pos(s)
    BY <1>1, <1>4 DEF Tables, SiteTable, SiteRows
  <1>7. ASSUME NEW i \in DOMAIN sites, NEW j \in DOMAIN sites,
               sites[i].category = sites[j].category, Before(sites, i, j)
        PROVE  Before(sites', i, j)
    <2>1. CASE i \in ids
      <3>1. j \in ids
        BY <1>1, <1>7, <2>1
      <3> QED BY <1>2, <1>5, <1>6, <1>7, <2>1, <3>1 DEF Before
    <2>2. CASE i \notin ids
      <3>1. j \notin ids
        BY <1>1, <1>7, <2>2
      <3> QED BY <1>4, <1>7, <2>2, <3>1 DEF Before
    <2> QED BY <2>1, <2>2
  <1> QED BY <1>4, <1>7 DEF SitesStay

LEMMA EditCategoryStays ==
  ASSUME Tables, EditCategory
  PROVE  Arranged
  <1>1. ASSUME NEW c \in CategoryIds, NEW n \in Names, CreateCategory(c, n) \/ UpdateCategory(c, n)
        PROVE  Arranged
    <2>1. CASE CreateCategory(c, n)
      BY <2>1, SameOrders DEF CreateCategory, With, Arranged
    <2>2. CASE UpdateCategory(c, n)
      <3>1. \A d \in DOMAIN categories : categories[d] \in CategoryRows
        BY DEF Tables, CategoryTable
      <3>2. /\ DOMAIN categories' = DOMAIN categories /\ UNCHANGED sites
            /\ \A d \in DOMAIN categories :
                 categories'[d] = IF d = c THEN [categories[c] EXCEPT !.name = n] ELSE categories[d]
        BY <2>2 DEF UpdateCategory
      <3>3. \A d \in DOMAIN categories : categories'[d].order = categories[d].order
        BY <3>1, <3>2 DEF CategoryRows
      <3> QED BY <3>2, <3>3, SameOrders DEF Arranged
    <2> QED BY <1>1, <2>1, <2>2
  <1>2. ASSUME NEW c \in CategoryIds, NEW mode, DeleteCategory(c, mode)
        PROVE  Arranged
    <2>1. SitesStay(sites, sites')
      <3>1. CASE mode = "move-to-uncategorized"
        BY <1>2, <3>1, MovedSitesStay DEF DeleteCategory
      <3>2. CASE mode # "move-to-uncategorized"
        BY <1>2, <3>2, SameOrders DEF DeleteCategory, Without, Restrict
      <3> QED BY <3>1, <3>2
    <2> QED BY <1>2, <2>1, CategoriesOfDeleteStay DEF Arranged
  <1> QED BY <1>1, <1>2 DEF EditCategory

\* Renumbering the sites of one category, after one of them left.
LEMMA RenumberedSitesStay ==
  ASSUME NEW t, NEW ids \in SUBSET DOMAIN t, IsFiniteSet(ids), ids \subseteq Nat,
         \A i \in ids : t[i] \in SiteRows,
         NEW c, \A r \in DOMAIN t : r \in ids <=> t[r].category = c
  PROVE  SitesStay(t, Renumbered(t, ids))
  <1> DEFINE new == Renumbered(t, ids)
  <1>1. DOMAIN new = DOMAIN t /\ \A r \in DOMAIN t \ ids : new[r] = t[r]
    BY DEF Renumbered
  <1>2. \A i, j \in ids : Before(t, i, j) => Before(new, i, j)
    BY RenumberedBefore
  <1> HIDE DEF new
  <1>3. ASSUME NEW i \in DOMAIN t, NEW j \in DOMAIN t, t[i].category = t[j].category, Before(t, i, j)
        PROVE  Before(new, i, j)
    <2>1. CASE i \in ids
      BY <1>2, <1>3, <2>1
    <2>2. CASE i \notin ids
      BY <1>1, <1>3, <2>2 DEF Before
    <2> QED BY <2>1, <2>2
  <1>4. SitesStay(t, new)
    BY <1>1, <1>3 DEF SitesStay
  <1> QED BY <1>4 DEF new

LEMMA DeleteSiteStays ==
  ASSUME NEW s \in SiteIds, Tables, DeleteSite(s)
  PROVE  SitesStay(sites, sites')
  <1> DEFINE kept == Without(sites, {s})
             c == sites[s].category
             ids == InCategory(c) \ {s}
  <1>1. /\ DOMAIN kept = DOMAIN sites \ {s} /\ \A r \in DOMAIN kept : kept[r] = sites[r]
        /\ sites' = Renumbered(kept, ids)
    BY DEF Without, Restrict, DeleteSite
  <1>2. /\ ids \in SUBSET DOMAIN sites /\ ids \in SUBSET DOMAIN kept
        /\ \A r \in DOMAIN kept : r \in ids <=> kept[r].category = c
    BY <1>1 DEF InCategory
  <1>3. IsFiniteSet(ids) /\ ids \subseteq Nat /\ \A r \in ids : sites[r] \in SiteRows
    BY <1>2, InCategoryFacts DEF Tables, SiteTable
  <1> HIDE DEF kept, ids, c
  <1>4. SitesStay(kept, sites')
    BY <1>1, <1>2, <1>3, RenumberedSitesStay
  <1>5. DOMAIN sites' = DOMAIN kept
    BY <1>1 DEF Renumbered
  <1> QED BY <1>1, <1>4, <1>5 DEF SitesStay, Before

LEMMA UpdateSiteStays ==
  ASSUME NEW s \in SiteIds, NEW c \in CategoryIds, NEW u \in Urls, NEW e \in BOOLEAN,
         Tables, UpdateSite(s, c, u, e)
  PROVE  SitesStay(sites, sites')
  <1> DEFINE old == sites[s].category
             new == PatchedSite(s, c, u, e)
             patched == With(sites, s, new)
             ids == InCategory(old) \ {s}
  <1>1. /\ s \in DOMAIN sites
        /\ sites' = IF c = old THEN patched ELSE Renumbered(patched, ids)
        /\ DOMAIN patched = DOMAIN sites /\ patched[s] = new
        /\ \A r \in DOMAIN sites \ {s} : patched[r] = sites[r]
    BY DEF UpdateSite, With
  <1>2. /\ new.category = c
        /\ c = old => new.order = sites[s].order
    BY DEF PatchedSite
  <1>3. /\ ids \in SUBSET DOMAIN sites /\ s \notin ids
        /\ \A r \in DOMAIN sites \ {s} : r \in ids <=> sites[r].category = old
    BY DEF InCategory
  <1>4. IsFiniteSet(ids) /\ ids \subseteq Nat /\ \A r \in ids : sites[r] \in SiteRows
    BY <1>3, InCategoryFacts DEF Tables, SiteTable
  <1> HIDE DEF new, patched, ids
  <1>5. CASE c = old
    BY <1>1, <1>2, <1>5, SameOrders
  <1>6. CASE c # old
    <2>1. \A r \in DOMAIN patched : r \in ids <=> patched[r].category = old
      BY <1>1, <1>2, <1>3, <1>6
    <2>2. \A r \in ids : patched[r] \in SiteRows
      BY <1>1, <1>3, <1>4
    <2>3. SitesStay(patched, sites') /\ DOMAIN sites' = DOMAIN patched
      BY <1>1, <1>3, <1>4, <1>6, <2>1, <2>2, RenumberedSitesStay DEF Renumbered
    <2>4. sites'[s] = new
      BY <1>1, <1>3, <1>6 DEF Renumbered
    <2>5. \A r \in DOMAIN sites : r # s => sites'[r].category = sites[r].category
      <3>1. \A r \in ids : sites'[r] = [patched[r] EXCEPT !.order = Position(patched, ids, r)]
        BY <1>1, <1>3, <1>6 DEF Renumbered
      <3>2. \A r \in DOMAIN sites \ ids : sites'[r] = patched[r]
        BY <1>1, <1>6 DEF Renumbered
      <3>3. \A r \in ids : sites'[r].category = patched[r].category
        BY <2>2, <3>1 DEF SiteRows
      <3> QED BY <1>1, <3>2, <3>3
    <2>6. ASSUME NEW i \in DOMAIN sites, NEW j \in DOMAIN sites,
                 sites[i].category = sites[j].category, sites'[i].category = sites'[j].category,
                 Before(sites, i, j)
          PROVE  Before(sites', i, j)
      <3>1. CASE i # s /\ j # s
        BY <1>1, <2>3, <2>6, <3>1 DEF SitesStay, Before
      <3>2. CASE i = s /\ j # s
        BY <1>2, <1>6, <2>4, <2>5, <2>6, <3>2
      <3>3. CASE i # s /\ j = s
        BY <1>2, <1>6, <2>4, <2>5, <2>6, <3>3
      <3>4. CASE i = s /\ j = s
        <4>1. s \in Nat /\ sites[s].order \in Nat
          BY <1>1, IdsAssumption DEF Tables, SiteTable, SiteRows
        <4> QED BY <2>6, <3>4, <4>1 DEF Before
      <3> QED BY <3>1, <3>2, <3>3, <3>4
    <2> QED BY <1>1, <2>3, <2>6 DEF SitesStay
  <1> QED BY <1>5, <1>6

LEMMA EditSiteStays ==
  ASSUME Tables, EditSite
  PROVE  Arranged
  <1>1. UNCHANGED categories
    BY DEF EditSite, DeleteSite, DeletePersonalLink, CreateSite, UpdateSite
  <1>2. CategoriesStay(categories, categories')
    BY <1>1, SameOrders
  <1>3. ASSUME NEW s \in SiteIds, DeletePersonalLink(s)
        PROVE  SitesStay(sites, sites')
    BY <1>3, SameOrders DEF DeletePersonalLink, Without, Restrict
  <1>4. ASSUME NEW s \in SiteIds, NEW c \in CategoryIds, NEW u \in Urls, NEW e \in BOOLEAN,
               CreateSite(s, c, u, e)
        PROVE  SitesStay(sites, sites')
    BY <1>4, SameOrders DEF CreateSite, With
  <1> QED BY <1>2, <1>3, <1>4, DeleteSiteStays, UpdateSiteStays DEF EditSite, Arranged

\* What a client has saved is a revision, and it has a layout save of its own.
SavingInv == revision \in Nat /\ DOMAIN saving = Clients

LEMMA SavingInvStep == SavingInv /\ [DraftNext]_draftVars => SavingInv'
  <1> SUFFICES ASSUME SavingInv, [DraftNext]_draftVars PROVE SavingInv'
    OBVIOUS
  <1>1. revision' \in Nat
    BY EveryStepCounts DEF Counted, SavingInv
  <1>2. DOMAIN saving' = DOMAIN saving
    <2>1. CASE EditCategory \/ EditSite
      BY <2>1 DEF EditCategory, CreateCategory, UpdateCategory, DeleteCategory, EditSite,
         CreateSite, UpdateSite, DeleteSite, DeletePersonalLink, Edit, clientVars
    <2>2. ASSUME NEW c \in Clients, Load(c) \/ EditPage(c)
          PROVE  UNCHANGED saving
      BY <2>2 DEF Load, LoadBase, LoadCategories, LoadSites, EditPage, UpdatePage,
         ReplaceSettings, BatchSetSitesEnabled, Edit, clientVars
    <2>3. CASE ReadForClearing \/ ClearBackground \/ UNCHANGED draftVars
      BY <2>3 DEF ReadForClearing, ClearBackground, draftVars, clientVars
    <2>4. ASSUME NEW c \in Clients, Layout(c)
          PROVE  DOMAIN saving' = DOMAIN saving
      BY <2>4 DEF Layout, BeginLayout, DropLayout, ReplaceContentOrder, SaveLayoutSettings
    <2> QED BY <2>1, <2>2, <2>3, <2>4 DEF DraftNext, LoadsAndEdits
  <1> QED BY <1>1, <1>2 DEF SavingInv

LEMMA StepsStay ==
  Tables /\ SavingInv /\ [DraftNext]_draftVars
    => (\E c \in Clients : saving'[c] # saving[c]) \/ Arranged
  <1> SUFFICES ASSUME Tables, SavingInv, [DraftNext]_draftVars,
                      ~\E c \in Clients : saving'[c] # saving[c]
               PROVE  Arranged
    OBVIOUS
  <1>1. CASE UNCHANGED <<categories, sites>>
    BY <1>1, SameOrders DEF Arranged
  <1>2. CASE EditCategory \/ EditSite
    BY <1>2, EditCategoryStays, EditSiteStays
  <1>3. ASSUME NEW c \in Clients, Load(c) \/ EditPage(c) \/ Layout(c)
        PROVE  Arranged
    <2>1. CASE Load(c)
      BY <1>1, <2>1, LoadCounts DEF content
    <2>2. CASE EditPage(c)
      <3>1. ASSUME NEW ids \in SUBSET SiteIds \ {{}}, NEW e \in BOOLEAN, BatchSetSitesEnabled(c, ids, e)
            PROVE  Arranged
        <4>1. /\ DOMAIN sites' = DOMAIN sites /\ UNCHANGED categories
              /\ \A s \in DOMAIN sites :
                   sites'[s] = IF s \in ids THEN [sites[s] EXCEPT !.enabled = e] ELSE sites[s]
          BY <3>1 DEF BatchSetSitesEnabled
        <4>2. \A s \in DOMAIN sites : sites'[s].order = sites[s].order
          BY <4>1 DEF Tables, SiteTable, SiteRows
        <4> QED BY <4>1, <4>2, SameOrders DEF Arranged
      <3> QED BY <1>1, <2>2, <3>1 DEF EditPage, UpdatePage, ReplaceSettings
    <2>3. CASE Layout(c)
      <3>1. ASSUME NEW rank, NEW place, ReplaceContentOrder(c, rank, place)
            PROVE  FALSE
        <4>1. saving[c] = -1 /\ saving'[c] = revision + 1
          BY <3>1 DEF ReplaceContentOrder, NotSaving, SavingInv
        <4> QED BY <4>1 DEF SavingInv
      <3> QED BY <1>1, <2>3, <3>1 DEF Layout, BeginLayout, DropLayout, SaveLayoutSettings, content
    <2> QED BY <1>3, <2>1, <2>2, <2>3
  <1>4. CASE ReadForClearing \/ ClearBackground
    BY <1>1, <1>4 DEF ReadForClearing, ClearBackground, content
  <1>5. CASE UNCHANGED draftVars
    BY <1>1, <1>5 DEF draftVars, content
  <1> QED BY <1>2, <1>3, <1>4, <1>5 DEF DraftNext, LoadsAndEdits

\* Only a layout rearranges, whatever else is moved, deleted or renumbered.
THEOREM OrderStaysTheUsers == DraftSpec => OrderIsTheUsers
  <1>1. DraftInit => SavingInv
    BY DEF DraftInit, SavingInv
  <1>2. Tables /\ SavingInv /\ [DraftNext]_draftVars =>
          [\/ \E c \in Clients : saving'[c] # saving[c]
           \/ /\ \A c, d \in DOMAIN categories \cap DOMAIN categories' :
                   Before(categories, c, d) => Before(categories', c, d)
              /\ \A s, t \in DOMAIN sites \cap DOMAIN sites' :
                   /\ sites[s].category = sites[t].category
                   /\ sites'[s].category = sites'[t].category
                   /\ Before(sites, s, t)
                   => Before(sites', s, t)]_draftVars
    BY StepsStay DEF Arranged, CategoriesStay, SitesStay
  <1> QED BY <1>1, <1>2, SavingInvStep, TablesAlways, PTL DEF DraftSpec, OrderIsTheUsers

-----------------------------------------------------------------------------
(* Types                                                                   *)

\* What DraftTypeOK says beside the tables, and that a layout which is saved is
\* one that was begun.
RestOK ==
  /\ page \in Pages /\ revision \in 0 .. MaxRevision
  /\ clearing \in Pages \cup {NoPage}
  /\ DOMAIN views = Clients /\ DOMAIN layouts = Clients
  /\ saving \in [Clients -> {NotSaving} \cup 0 .. MaxRevision]
  /\ \A c \in Clients :
       /\ ViewOK(views[c]) /\ ViewOK(layouts[c])
       /\ layouts[c] = NoView \/ layouts[c].step = "loaded"
       /\ saving[c] # NotSaving => layouts[c] # NoView

LEMMA RestInit == DraftInit => RestOK
  BY FirstAssumption, LimitsAssumption DEF DraftInit, RestOK, Pages, ViewOK, NoView

LEMMA Touched ==
  ASSUME RestOK, Touch
  PROVE  revision' \in 0 .. MaxRevision
  BY LimitsAssumption DEF RestOK, Touch

\* Edits that leave what clients hold.
LEMMA EditRest ==
  ASSUME RestOK, Edit, page' \in Pages
  PROVE  RestOK'
  <1>1. revision' \in 0 .. MaxRevision
    BY Touched DEF Edit
  <1> QED BY <1>1 DEF Edit, clientVars, RestOK, ViewOK

LEMMA EditTablesRest ==
  ASSUME RestOK, EditCategory \/ EditSite
  PROVE  RestOK'
  <1>1. Edit /\ UNCHANGED page
    BY DEF EditCategory, CreateCategory, UpdateCategory, DeleteCategory, EditSite,
       CreateSite, UpdateSite, DeleteSite, DeletePersonalLink
  <1> QED BY <1>1, EditRest DEF RestOK

LEMMA EditPageRest ==
  ASSUME RestOK, NEW c \in Clients, EditPage(c)
  PROVE  RestOK'
  <1>1. Edit
    BY DEF EditPage, UpdatePage, ReplaceSettings, BatchSetSitesEnabled
  <1>2. page \in Pages
    BY DEF RestOK
  <1>3. ASSUME NEW t \in Titles, UpdatePage(c, t)
        PROVE  page' \in Pages
    BY <1>2, <1>3 DEF UpdatePage, Pages
  <1>4. ASSUME NEW look \in Looks, NEW shown \in BOOLEAN, ReplaceSettings(c, look, shown)
        PROVE  page' \in Pages
    BY <1>2, <1>4 DEF ReplaceSettings, Pages
  <1>5. page' \in Pages
    BY <1>2, <1>3, <1>4 DEF EditPage, BatchSetSitesEnabled
  <1> QED BY <1>1, <1>5, EditRest

LEMMA LoadRest ==
  ASSUME RestOK, NEW c \in Clients, Load(c)
  PROVE  RestOK'
  <1>1. UNCHANGED <<page, revision, layouts, saving, clearing>>
    BY DEF Load, LoadBase, LoadCategories, LoadSites, content
  <1>2. /\ DOMAIN views' = Clients
        /\ \A d \in Clients \ {c} : views'[d] = views[d]
    BY DEF RestOK, Load, LoadBase, LoadCategories, LoadSites
  <1>3. ViewOK(views'[c])
    <2>1. CASE LoadBase(c)
      BY <2>1 DEF LoadBase, RestOK, ViewOK
    <2>2. CASE LoadCategories(c)
      BY <2>2 DEF LoadCategories, RestOK, ViewOK
    <2>3. CASE LoadSites(c)
      BY <2>3 DEF LoadSites, RestOK, ViewOK
    <2> QED BY <2>1, <2>2, <2>3 DEF Load
  <1>4. \A d \in Clients : ViewOK(views'[d])
    BY <1>2, <1>3 DEF RestOK
  <1> QED BY <1>1, <1>2, <1>4 DEF RestOK, ViewOK

LEMMA LayoutRest ==
  ASSUME RestOK, NEW c \in Clients, Layout(c)
  PROVE  RestOK'
  <1>1. UNCHANGED <<views, clearing>>
    BY DEF Layout, BeginLayout, DropLayout, ReplaceContentOrder, SaveLayoutSettings
  <1>2. CASE BeginLayout(c) \/ DropLayout(c)
    <2>1. UNCHANGED <<page, revision, saving>>
      BY <1>2 DEF BeginLayout, DropLayout, content
    <2>2. /\ DOMAIN layouts' = Clients
          /\ \A d \in Clients \ {c} : layouts'[d] = layouts[d]
          /\ layouts'[c] = views[c] \/ layouts'[c] = NoView
      BY <1>2 DEF BeginLayout, DropLayout, RestOK
    <2>3. /\ ViewOK(layouts'[c]) /\ saving[c] = NotSaving
          /\ layouts'[c] = NoView \/ layouts'[c].step = "loaded"
      <3>1. CASE BeginLayout(c)
        BY <3>1 DEF BeginLayout, RestOK, Loaded
      <3>2. CASE DropLayout(c)
        BY <3>2, LimitsAssumption DEF DropLayout, RestOK, ViewOK, NoView
      <3> QED BY <1>2, <3>1, <3>2
    <2> QED BY <1>1, <2>1, <2>2, <2>3 DEF RestOK, ViewOK
  <1>3. ASSUME NEW rank, NEW place, ReplaceContentOrder(c, rank, place)
        PROVE  RestOK'
    <2>1. /\ UNCHANGED <<page, layouts>> /\ revision' \in 0 .. MaxRevision
          /\ layouts[c] # NoView /\ saving' = [saving EXCEPT ![c] = revision']
      BY <1>3, Touched DEF ReplaceContentOrder, Touch
    <2>2. /\ saving' \in [Clients -> {NotSaving} \cup 0 .. MaxRevision]
          /\ \A d \in Clients \ {c} : saving'[d] = saving[d]
      BY <2>1 DEF RestOK
    <2> QED BY <1>1, <2>1, <2>2 DEF RestOK, ViewOK
  <1>4. ASSUME NEW look \in Looks, SaveLayoutSettings(c, look)
        PROVE  RestOK'
    <2>1. /\ saving[c] # NotSaving /\ saving' = [saving EXCEPT ![c] = NotSaving]
          /\ \/ /\ page' = [page EXCEPT !.look = look, !.background = layouts[c].page.background]
                /\ layouts' = [layouts EXCEPT ![c] = NoView]
                /\ Touch
             \/ UNCHANGED <<page, layouts, revision>>
      BY <1>4 DEF SaveLayoutSettings
    <2>2. /\ saving' \in [Clients -> {NotSaving} \cup 0 .. MaxRevision]
          /\ saving'[c] = NotSaving
          /\ \A d \in Clients \ {c} : saving'[d] = saving[d]
      BY <2>1 DEF RestOK
    <2>3. page' \in Pages
      <3>1. layouts[c].page \in Pages
        BY <2>1 DEF RestOK, ViewOK
      <3>2. layouts[c].page.background \in BOOLEAN /\ page \in Pages
        BY <3>1 DEF RestOK, Pages
      <3>3. CASE page' = [page EXCEPT !.look = look, !.background = layouts[c].page.background]
        BY <3>2, <3>3 DEF Pages
      <3> QED BY <2>1, <3>2, <3>3
    <2>4. revision' \in 0 .. MaxRevision
      BY <2>1, Touched DEF RestOK
    <2>5. /\ DOMAIN layouts' = Clients
          /\ \A d \in Clients \ {c} : layouts'[d] = layouts[d]
          /\ layouts'[c] = NoView \/ layouts'[c] = layouts[c]
      BY <2>1 DEF RestOK
    <2>6. ViewOK(NoView)
      BY LimitsAssumption DEF ViewOK, NoView
    <2> QED BY <1>1, <2>2, <2>3, <2>4, <2>5, <2>6 DEF RestOK, ViewOK
  <1> QED BY <1>2, <1>3, <1>4 DEF Layout

LEMMA ClearingRest ==
  ASSUME RestOK, ReadForClearing \/ ClearBackground
  PROVE  RestOK'
  <1>1. UNCHANGED clientVars
    BY DEF ReadForClearing, ClearBackground
  <1>2. CASE ReadForClearing
    BY <1>1, <1>2 DEF ReadForClearing, RestOK, content, clientVars, ViewOK
  <1>3. CASE ClearBackground
    <2>1. clearing \in Pages /\ page \in Pages
      BY <1>3 DEF ClearBackground, RestOK
    <2>2. page' \in Pages
      BY <1>3, <2>1 DEF ClearBackground, Pages
    <2>3. revision' \in 0 .. MaxRevision /\ clearing' = NoPage
      BY <1>3, Touched DEF ClearBackground, RestOK
    <2> QED BY <1>1, <2>2, <2>3 DEF RestOK, clientVars, ViewOK
  <1> QED BY <1>2, <1>3

LEMMA RestStep == RestOK /\ [DraftNext]_draftVars => RestOK'
  <1> SUFFICES ASSUME RestOK, [DraftNext]_draftVars PROVE RestOK'
    OBVIOUS
  <1>1. CASE UNCHANGED draftVars
    BY <1>1 DEF draftVars, content, clientVars, RestOK, ViewOK
  <1> QED BY <1>1, EditTablesRest, EditPageRest, LoadRest, LayoutRest, ClearingRest
          DEF DraftNext, LoadsAndEdits

\* Every reachable draft is well typed: its sites lie in categories of the page,
\* and its first category is never deleted.
THEOREM DraftTypeCorrect == DraftSpec => []DraftTypeOK
  <1>1. Tables /\ RestOK => DraftTypeOK
    BY DEF Tables, CategoryTable, SiteTable, RestOK, DraftTypeOK
  <1> QED BY <1>1, TablesAlways, RestInit, RestStep, PTL DEF DraftSpec

-----------------------------------------------------------------------------
(* Imports                                                                 *)

LandedInv ==
  /\ previews \in [Tokens -> {"none", "stored", "expired", "consumed"}]
  /\ landed \in [Tokens -> Nat]
  /\ \A t \in Tokens : landed[t] = IF previews[t] = "consumed" THEN 1 ELSE 0

LEMMA LandedInvInit == Init => LandedInv
  BY DEF Init, LandedInv

LEMMA LandedInvStep == LandedInv /\ [Next]_vars => LandedInv'
  <1> SUFFICES ASSUME LandedInv, [Next]_vars PROVE LandedInv'
    OBVIOUS
  <1>1. CASE HandlePreview \/ \E t \in Tokens : ExpirePreview(t)
    BY <1>1 DEF HandlePreview, Preview, ExpirePreview, LandedInv
  <1>2. CASE \E k \in Keys : ForgetAnswer(k)
    BY <1>2 DEF ForgetAnswer, LandedInv
  <1>3. CASE HandleCommit
    <2>0. PICK c \in Clients, k \in Keys, t \in Tokens, mode \in {"merge", "replace"},
               picked \in Requests : Commit(c, k, t, mode, picked)
      BY <1>3 DEF HandleCommit
    <2>1. /\ previews[t] = "stored"
          /\ previews' = [previews EXCEPT ![t] = "consumed"]
          /\ landed' = [landed EXCEPT ![t] = @ + 1]
      BY <2>0 DEF Commit, Consumed
    <2>2. landed[t] = 0
      BY <2>1 DEF LandedInv
    <2>3. landed' \in [Tokens -> Nat] /\ landed'[t] = 1
           /\ \A u \in Tokens \ {t} : landed'[u] = landed[u]
      BY <2>1, <2>2 DEF LandedInv
    <2>4. /\ previews' \in [Tokens -> {"none", "stored", "expired", "consumed"}]
          /\ previews'[t] = "consumed"
          /\ \A u \in Tokens \ {t} : previews'[u] = previews[u]
      BY <2>1 DEF LandedInv
    <2> QED BY <2>3, <2>4 DEF LandedInv
  <1>4. CASE UNCHANGED importVars
    BY <1>4 DEF importVars, LandedInv
  <1>5. CASE UNCHANGED vars
    BY <1>5 DEF vars, importVars, LandedInv
  <1> QED BY <1>1, <1>2, <1>3, <1>4, <1>5 DEF Next, Import

\* A file is imported once from its preview, whatever is repeated.
THEOREM ImportsLandOnce == Spec => []ImportedOnce
  <1>1. LandedInv => ImportedOnce
    BY DEF LandedInv, ImportedOnce
  <1> QED BY <1>1, LandedInvInit, LandedInvStep, PTL DEF Spec

-----------------------------------------------------------------------------
(* An import: one site after the other                                     *)

\* A set of naturals has a least one.
LEMMA MinOfNaturals ==
  ASSUME NEW S, S \subseteq Nat, S # {}
  PROVE  Min(S) \in S /\ \A n \in S : Min(S) <= n
  <1>1. PICK n \in S : \A m \in S : ~(<<m, n>> \in OpToRel(<, Nat))
    BY NatLessThanWellFounded, WFMin
  <1>2. ASSUME NEW m \in S, m < n PROVE FALSE
    <2>1. m \in Nat /\ n \in Nat
      OBVIOUS
    <2>2. <<m, n>> \in OpToRel(<, Nat)
      BY <1>2, <2>1 DEF OpToRel
    <2> QED BY <1>1, <2>2
  <1>3. \A m \in S : m \in Nat /\ n <= m
    <2>1. \A m \in S : m \in Nat /\ n \in Nat
      OBVIOUS
    <2> QED BY <1>2, <2>1
  <1> QED BY <1>3 DEF Min

\* What was imported when the first n of the chosen sites are done.
NewSites(mode, acc) == DOMAIN acc.sites \ KeptSites(mode)

Done(mode, picked, n, acc) ==
  /\ acc = [ok |-> acc.ok, categories |-> acc.categories, sites |-> acc.sites]
  /\ CategoryTable(acc.categories)
  /\ SiteTable(acc.sites, DOMAIN acc.categories)
  /\ \A s \in KeptSites(mode) : s \in DOMAIN acc.sites /\ acc.sites[s] = sites[s]
  /\ \A c \in KeptCategories(mode) : c \in DOMAIN acc.categories /\ acc.categories[c] = categories[c]
  /\ {acc.sites[s].url : s \in NewSites(mode, acc)}
       = {File[picked[i]].url : i \in 1 .. n} \ {sites[s].url : s \in KeptSites(mode)}
  /\ DOMAIN acc.categories \ KeptCategories(mode)
       \subseteq {acc.sites[s].category : s \in NewSites(mode, acc)}
  /\ \/ acc.sites = sites /\ acc.categories = categories
     \/ DOMAIN acc.sites # DOMAIN sites
     \/ mode = "replace"

LEMMA StartDone ==
  ASSUME Tables, NEW mode \in {"merge", "replace"}, NEW picked
  PROVE  Done(mode, picked, 0, Start(mode))
  <1> DEFINE acc == Start(mode)
  <1>1. {File[picked[i]].url : i \in 1 .. 0} = {}
    OBVIOUS
  <1>2. CASE mode = "merge"
    <2>1. acc = [ok |-> TRUE, categories |-> categories, sites |-> sites]
      BY <1>2 DEF Start
    <2>2. /\ acc.sites = sites /\ acc.categories = categories
          /\ acc = [ok |-> acc.ok, categories |-> acc.categories, sites |-> acc.sites]
          /\ KeptSites(mode) = DOMAIN sites /\ KeptCategories(mode) = DOMAIN categories
      BY <1>2, <2>1 DEF KeptSites, KeptCategories
    <2>3. NewSites(mode, acc) = {}
      BY <2>2 DEF NewSites
    <2> HIDE DEF acc
    <2> QED BY <1>1, <2>2, <2>3 DEF Done, Tables, acc
  <1>3. CASE mode = "replace"
    <2>1. acc = [ok |-> TRUE, categories |-> Restrict(categories, {Uncategorized}),
                 sites |-> Restrict(sites, {})]
      BY <1>3 DEF Start
    <2>2. /\ acc.sites = Restrict(sites, {}) /\ acc.categories = Restrict(categories, {Uncategorized})
          /\ acc = [ok |-> acc.ok, categories |-> acc.categories, sites |-> acc.sites]
          /\ KeptSites(mode) = {} /\ KeptCategories(mode) = {Uncategorized}
      BY <1>3, <2>1 DEF KeptSites, KeptCategories
    <2> HIDE DEF acc
    <2>3. DOMAIN acc.sites = {} /\ NewSites(mode, acc) = {}
      BY <2>2 DEF Restrict, NewSites
    <2>4. DOMAIN acc.categories = {Uncategorized}
          /\ acc.categories[Uncategorized] = categories[Uncategorized]
      BY <2>2 DEF Restrict
    <2>5. SiteTable(acc.sites, DOMAIN acc.categories)
      <3>1. IsFiniteSet({}) /\ Cardinality({}) = 0 /\ 0 <= MaxSites
        BY FS_EmptySet, LimitsAssumption
      <3> QED BY <2>3, <3>1 DEF SiteTable
    <2>6. CategoryTable(acc.categories)
      <3>1. IsFiniteSet({Uncategorized}) /\ Cardinality({Uncategorized}) <= MaxCategories
        BY FewerRows, LimitsAssumption DEF Tables, CategoryTable
      <3> QED BY <2>4, <3>1 DEF Tables, CategoryTable
    <2> QED BY <1>1, <1>3, <2>2, <2>3, <2>4, <2>5, <2>6 DEF Done, acc
  <1> QED BY <1>2, <1>3

\* The category a site goes to: one of its name, new if there was none.
LEMMA WithCategoryFacts ==
  ASSUME Tables, NEW acc, NEW n \in Names, WithCategory(acc, n).ok,
         acc = [ok |-> acc.ok, categories |-> acc.categories, sites |-> acc.sites],
         CategoryTable(acc.categories)
  PROVE  LET with == WithCategory(acc, n)
             c == CHOOSE d \in Named(with.categories, n) : TRUE
         IN /\ with = [ok |-> acc.ok, categories |-> with.categories, sites |-> acc.sites]
            /\ with.ok = acc.ok /\ with.sites = acc.sites
            /\ CategoryTable(with.categories)
            /\ DOMAIN with.categories \subseteq DOMAIN acc.categories \cup {c}
            /\ c \in DOMAIN with.categories
            /\ \A d \in DOMAIN acc.categories :
                 d \in DOMAIN with.categories /\ with.categories[d] = acc.categories[d]
  <1> DEFINE with == WithCategory(acc, n)
             c == CHOOSE d \in Named(with.categories, n) : TRUE
  <1>1. CASE Named(acc.categories, n) # {}
    <2>1. with = acc
      BY <1>1 DEF WithCategory
    <2>2. c \in Named(acc.categories, n)
      BY <1>1, <2>1
    <2> HIDE DEF with, c
    <2>3. c \in DOMAIN acc.categories
      BY <2>2 DEF Named
    <2> QED BY <2>1, <2>3 DEF with, c
  <1>2. CASE Named(acc.categories, n) = {}
    <2> DEFINE unused == CategoryIds \ (DOMAIN acc.categories \cup DOMAIN categories)
               more == With(acc.categories, Min(unused),
                         [name |-> n, order |-> NextOrder(acc.categories, DOMAIN acc.categories)])
    <2>1. ~(unused = {} \/ Cardinality(DOMAIN acc.categories) >= MaxCategories)
      <3>1. Refused(acc).ok = FALSE
        BY DEF Refused
      <3>2. ASSUME unused = {} \/ Cardinality(DOMAIN acc.categories) >= MaxCategories
            PROVE  with = Refused(acc)
        BY <1>2, <3>2 DEF WithCategory
      <3> HIDE DEF unused
      <3> QED BY <3>1, <3>2
    <2>2. with = [acc EXCEPT !.categories = more]
      BY <1>2, <2>1 DEF WithCategory
    <2>3. Min(unused) \in unused
      BY <2>1, IdsAssumption, MinOfNaturals
    <2>4. Min(unused) \in CategoryIds \ DOMAIN acc.categories
      BY <2>3
    <2>5. Cardinality(DOMAIN acc.categories) < MaxCategories
      <3>1. Cardinality(DOMAIN acc.categories) \in Nat
        BY FS_CardinalityType DEF CategoryTable
      <3> QED BY <2>1, <3>1, LimitsAssumption
    <2> HIDE DEF unused
    <2>6. /\ CategoryTable(more) /\ DOMAIN more = DOMAIN acc.categories \cup {Min(unused)}
          /\ more[Min(unused)].name = n
          /\ \A d \in DOMAIN acc.categories : more[d] = acc.categories[d]
      BY <2>4, <2>5, AddedCategory
    <2> HIDE DEF more
    <2>7. /\ with = [ok |-> acc.ok, categories |-> more, sites |-> acc.sites]
      BY <2>2
    <2>8. with.categories = more /\ with.ok = acc.ok /\ with.sites = acc.sites
      <3> HIDE DEF with
      <3> QED BY <2>7
    <2>9. Named(more, n) = {Min(unused)}
      BY <1>2, <2>6 DEF Named
    <2>10. c = Min(unused)
      BY <2>8, <2>9
    <2> HIDE DEF with, c
    <2> QED BY <2>6, <2>7, <2>8, <2>10 DEF with, c
  <1> QED BY <1>1, <1>2

LEMMA RefusedIsRefused ==
  ASSUME NEW acc, acc = [ok |-> acc.ok, categories |-> acc.categories, sites |-> acc.sites], NEW n
  PROVE  Refused(WithCategory(acc, n)).ok = FALSE
  <1> DEFINE with == WithCategory(acc, n)
  <1>1. "ok" \in DOMAIN acc
    <2>1. DOMAIN acc = {"ok", "categories", "sites"}
      OBVIOUS
    <2> QED BY <2>1
  <1>2. DOMAIN with = DOMAIN acc
    <2>1. DOMAIN Refused(acc) = DOMAIN acc
      BY DEF Refused
    <2>2. \A more : DOMAIN [acc EXCEPT !.categories = more] = DOMAIN acc
      OBVIOUS
    <2> QED BY <2>1, <2>2 DEF WithCategory
  <1>3. \A r : "ok" \in DOMAIN r => [r EXCEPT !.ok = FALSE].ok = FALSE
    OBVIOUS
  <1> HIDE DEF with
  <1> QED BY <1>1, <1>2, <1>3 DEF Refused, with

\* A site that is imported: at the end of its category, whatever that took.
LEMMA WithSiteFacts ==
  ASSUME Tables, NEW acc, NEW item \in [name : Names, url : Urls, enabled : BOOLEAN],
         acc = [ok |-> acc.ok, categories |-> acc.categories, sites |-> acc.sites],
         CategoryTable(acc.categories), SiteTable(acc.sites, DOMAIN acc.categories),
         WithSite(WithCategory(acc, item.name), item).ok
  PROVE  LET after == WithSite(WithCategory(acc, item.name), item)
         IN /\ after = [ok |-> after.ok, categories |-> after.categories, sites |-> after.sites]
            /\ CategoryTable(after.categories)
            /\ SiteTable(after.sites, DOMAIN after.categories)
            /\ \A d \in DOMAIN acc.categories :
                 d \in DOMAIN after.categories /\ after.categories[d] = acc.categories[d]
            /\ \A r \in DOMAIN acc.sites :
                 r \in DOMAIN after.sites /\ after.sites[r] = acc.sites[r]
            /\ \E s \in SiteIds \ (DOMAIN acc.sites \cup DOMAIN sites) :
                 /\ DOMAIN after.sites = DOMAIN acc.sites \cup {s}
                 /\ after.sites[s].url = item.url
                 /\ DOMAIN after.categories
                      \subseteq DOMAIN acc.categories \cup {after.sites[s].category}
  <1> DEFINE with == WithCategory(acc, item.name)
             after == WithSite(with, item)
             c == CHOOSE d \in Named(with.categories, item.name) : TRUE
             unused == SiteIds \ (DOMAIN with.sites \cup DOMAIN sites)
             inside == {s \in DOMAIN with.sites : with.sites[s].category = c}
             row == [category |-> c, url |-> item.url,
                     order |-> NextOrder(with.sites, inside), enabled |-> item.enabled]
             more == With(with.sites, Min(unused), row)
  <1>1. ~(~with.ok \/ unused = {} \/ Cardinality(DOMAIN with.sites) >= MaxSites)
    <2>1. ASSUME ~with.ok \/ unused = {} \/ Cardinality(DOMAIN with.sites) >= MaxSites
          PROVE  after = Refused(with)
      <3> HIDE DEF with
      <3> QED BY <2>1 DEF WithSite
    <2>2. Refused(with).ok = FALSE
      BY RefusedIsRefused
    <2>3. after.ok
      OBVIOUS
    <2> HIDE DEF after, with, unused
    <2> QED BY <2>1, <2>2, <2>3
  <1>2. after = [with EXCEPT !.sites = more]
    <2> HIDE DEF with
    <2> QED BY <1>1 DEF WithSite
  <1>3. with.ok
    <2> HIDE DEF with, unused
    <2> QED BY <1>1
  <1>4. item.name \in Names /\ item.url \in Urls /\ item.enabled \in BOOLEAN
    OBVIOUS
  <1>5. /\ with = [ok |-> acc.ok, categories |-> with.categories, sites |-> acc.sites]
        /\ with.sites = acc.sites
        /\ CategoryTable(with.categories)
        /\ DOMAIN with.categories \subseteq DOMAIN acc.categories \cup {c}
        /\ c \in DOMAIN with.categories
        /\ \A d \in DOMAIN acc.categories :
             d \in DOMAIN with.categories /\ with.categories[d] = acc.categories[d]
    BY <1>3, <1>4, WithCategoryFacts
  <1> HIDE DEF with, c
  <1>6. SiteTable(acc.sites, DOMAIN with.categories)
    BY <1>5 DEF SiteTable
  <1>7. PICK s : s = Min(unused)
    OBVIOUS
  <1>8. s \in SiteIds \ (DOMAIN acc.sites \cup DOMAIN sites)
    <2>1. unused # {} /\ unused \subseteq Nat
      BY <1>1, IdsAssumption
    <2>2. s \in unused
      BY <1>7, <2>1, MinOfNaturals
    <2> QED BY <1>5, <2>2
  <1>9. Cardinality(DOMAIN acc.sites) < MaxSites
    <2>1. Cardinality(DOMAIN acc.sites) \in Nat
      BY FS_CardinalityType DEF SiteTable
    <2> HIDE DEF unused
    <2> QED BY <1>1, <1>5, <2>1, LimitsAssumption
  <1>10. /\ SiteTable(more, DOMAIN with.categories) /\ DOMAIN more = DOMAIN acc.sites \cup {s}
         /\ more[s].url = item.url /\ more[s].category = c
         /\ \A r \in DOMAIN acc.sites : more[r] = acc.sites[r]
    <2>1. /\ inside = {r \in DOMAIN acc.sites : acc.sites[r].category = c}
          /\ more = With(acc.sites, s, [category |-> c, url |-> item.url,
                          order |-> NextOrder(acc.sites, inside), enabled |-> item.enabled])
      BY <1>5, <1>7
    <2>2. DOMAIN with.categories \subseteq CategoryIds /\ s \in SiteIds \ DOMAIN acc.sites
      BY <1>5, <1>8 DEF CategoryTable
    <2> HIDE DEF inside, more
    <2> QED BY <1>4, <1>5, <1>6, <1>9, <2>1, <2>2, AddedSite
  <1> HIDE DEF more, unused
  <1>11. after = [ok |-> acc.ok, categories |-> with.categories, sites |-> more]
    <2> HIDE DEF after
    <2> QED BY <1>2, <1>5
  <1>12. after.sites = more /\ after.categories = with.categories /\ after.ok = acc.ok
    <2> HIDE DEF after
    <2> QED BY <1>11
  <1> HIDE DEF after
  <1>13. /\ after = [ok |-> after.ok, categories |-> after.categories, sites |-> after.sites]
         /\ CategoryTable(after.categories)
         /\ SiteTable(after.sites, DOMAIN after.categories)
    BY <1>5, <1>10, <1>11, <1>12
  <1>14. /\ \A d \in DOMAIN acc.categories :
              d \in DOMAIN after.categories /\ after.categories[d] = acc.categories[d]
         /\ \A r \in DOMAIN acc.sites : r \in DOMAIN after.sites /\ after.sites[r] = acc.sites[r]
    BY <1>5, <1>10, <1>12
  <1>15. /\ DOMAIN after.sites = DOMAIN acc.sites \cup {s}
         /\ after.sites[s].url = item.url
         /\ DOMAIN after.categories \subseteq DOMAIN acc.categories \cup {after.sites[s].category}
    BY <1>5, <1>10, <1>12
  <1> QED BY <1>8, <1>13, <1>14, <1>15 DEF after, with

\* One more site of the file.
LEMMA ImportedDone ==
  ASSUME Tables, NEW mode \in {"merge", "replace"}, NEW picked, NEW n \in Nat, NEW acc,
         File[picked[n + 1]] \in [name : Names, url : Urls, enabled : BOOLEAN],
         Done(mode, picked, n, acc), Imported(acc, File[picked[n + 1]]).ok
  PROVE  acc.ok /\ Done(mode, picked, n + 1, Imported(acc, File[picked[n + 1]]))
  <1> DEFINE item == File[picked[n + 1]]
             keptUrls == {sites[s].url : s \in KeptSites(mode)}
             before == {File[picked[i]].url : i \in 1 .. n}
  <1>1. {File[picked[i]].url : i \in 1 .. n + 1} = before \cup {item.url}
    <2>1. \A i : i \in 1 .. n + 1 <=> i \in 1 .. n \/ i = n + 1
      OBVIOUS
    <2> QED BY <2>1
  <1> HIDE DEF item, before
  <1>2. /\ {acc.sites[s].url : s \in NewSites(mode, acc)} = before \ keptUrls
        /\ \A s \in KeptSites(mode) : s \in DOMAIN acc.sites /\ acc.sites[s] = sites[s]
    BY DEF Done, before
  <1>3. acc.ok
    BY DEF Imported, item
  <1>4. CASE OnPage(acc.sites, item.url)
    <2>1. Imported(acc, item) = acc
      BY <1>4 DEF Imported
    <2>2. (before \cup {item.url}) \ keptUrls = before \ keptUrls
      <3>1. PICK s \in DOMAIN acc.sites : acc.sites[s].url = item.url
        BY <1>4 DEF OnPage
      <3>2. CASE s \in KeptSites(mode)
        BY <1>2, <3>1, <3>2
      <3>3. CASE s \notin KeptSites(mode)
        <4>1. item.url \in {acc.sites[r].url : r \in NewSites(mode, acc)}
          BY <3>1, <3>3 DEF NewSites
        <4> HIDE DEF keptUrls
        <4> QED BY <1>2, <4>1
      <3> QED BY <3>2, <3>3
    <2>3. {File[picked[i]].url : i \in 1 .. n + 1} \ keptUrls
            = {File[picked[i]].url : i \in 1 .. n} \ keptUrls
      BY <1>1, <2>2 DEF before
    <2> HIDE DEF keptUrls
    <2>4. Done(mode, picked, n + 1, acc)
      BY <2>3 DEF Done, keptUrls
    <2> QED BY <1>3, <2>1, <2>4 DEF item
  <1>5. CASE ~OnPage(acc.sites, item.url)
    <2> DEFINE after == WithSite(WithCategory(acc, item.name), item)
    <2>1. Imported(acc, item) = after
      BY <1>3, <1>5 DEF Imported
    <2>2. /\ after = [ok |-> after.ok, categories |-> after.categories, sites |-> after.sites]
          /\ CategoryTable(after.categories)
          /\ SiteTable(after.sites, DOMAIN after.categories)
          /\ \A d \in DOMAIN acc.categories :
               d \in DOMAIN after.categories /\ after.categories[d] = acc.categories[d]
          /\ \A r \in DOMAIN acc.sites :
               r \in DOMAIN after.sites /\ after.sites[r] = acc.sites[r]
          /\ \E s \in SiteIds \ (DOMAIN acc.sites \cup DOMAIN sites) :
               /\ DOMAIN after.sites = DOMAIN acc.sites \cup {s}
               /\ after.sites[s].url = item.url
               /\ DOMAIN after.categories
                    \subseteq DOMAIN acc.categories \cup {after.sites[s].category}
      BY <2>1, WithSiteFacts DEF Done, item
    <2> HIDE DEF after
    <2>3. PICK s \in SiteIds \ (DOMAIN acc.sites \cup DOMAIN sites) :
            /\ DOMAIN after.sites = DOMAIN acc.sites \cup {s}
            /\ after.sites[s].url = item.url
            /\ DOMAIN after.categories
                 \subseteq DOMAIN acc.categories \cup {after.sites[s].category}
      BY <2>2
    <2>4. KeptSites(mode) \subseteq DOMAIN sites
      BY DEF KeptSites
    <2>5. NewSites(mode, after) = NewSites(mode, acc) \cup {s}
      BY <2>3, <2>4 DEF NewSites
    <2>6. \A r \in NewSites(mode, acc) : after.sites[r] = acc.sites[r]
      BY <2>2 DEF NewSites
    <2>7. item.url \notin keptUrls
      BY <1>2, <1>5 DEF OnPage
    <2>8. {after.sites[r].url : r \in NewSites(mode, after)}
            = {File[picked[i]].url : i \in 1 .. n + 1} \ keptUrls
      <3>1. {after.sites[r].url : r \in NewSites(mode, after)}
              = {acc.sites[r].url : r \in NewSites(mode, acc)} \cup {item.url}
        BY <2>3, <2>5, <2>6
      <3> HIDE DEF keptUrls
      <3> QED BY <1>1, <1>2, <2>7, <3>1
    <2>9. DOMAIN after.categories \ KeptCategories(mode)
            \subseteq {after.sites[r].category : r \in NewSites(mode, after)}
      <3>1. DOMAIN acc.categories \ KeptCategories(mode)
              \subseteq {acc.sites[r].category : r \in NewSites(mode, acc)}
        BY DEF Done
      <3> QED BY <2>3, <2>5, <2>6, <3>1
    <2>10. /\ \A r \in KeptSites(mode) : r \in DOMAIN after.sites /\ after.sites[r] = sites[r]
           /\ \A d \in KeptCategories(mode) :
                d \in DOMAIN after.categories /\ after.categories[d] = categories[d]
      BY <2>2 DEF Done
    <2>11. DOMAIN after.sites # DOMAIN sites
      BY <2>3
    <2>12. Done(mode, picked, n + 1, after)
      BY <2>2, <2>8, <2>9, <2>10, <2>11 DEF Done
    <2> QED BY <1>3, <2>1, <2>12 DEF item
  <1> QED BY <1>4, <1>5

\* The rows after each site, as Outcome counts them.
Steps(mode, picked, m, f) ==
  f = [n \in 0 .. m |-> IF n = 0 THEN Start(mode) ELSE Imported(f[n - 1], File[picked[n]])]

LEMMA StepsExist ==
  ASSUME NEW mode, NEW picked, NEW m \in Nat
  PROVE  \E f : Steps(mode, picked, m, f)
  <1> DEFINE Bad == {n \in Nat : ~ \E f : Steps(mode, picked, n, f)}
  <1>1. ASSUME Bad # {} PROVE FALSE
    <2>1. PICK n \in Bad : \A k \in Bad : ~(<<k, n>> \in OpToRel(<, Nat))
      <3>1. Bad \subseteq Nat
        OBVIOUS
      <3> HIDE DEF Bad
      <3> QED BY <1>1, <3>1, NatLessThanWellFounded, WFMin
    <2>2. n \in Nat /\ ~ \E f : Steps(mode, picked, n, f)
      OBVIOUS
    <2>3. CASE n = 0
      <3> DEFINE f == [k \in 0 .. 0 |-> Start(mode)]
      <3>1. \A k \in 0 .. 0 : k = 0
        OBVIOUS
      <3>2. Steps(mode, picked, 0, f)
        BY <3>1 DEF Steps
      <3> QED BY <2>2, <2>3, <3>2
    <2>4. CASE n # 0
      <3>1. n - 1 \in Nat /\ <<n - 1, n>> \in OpToRel(<, Nat)
        BY <2>2, <2>4 DEF OpToRel
      <3>2. PICK g : Steps(mode, picked, n - 1, g)
        <4>1. n - 1 \notin Bad
          BY <2>1, <3>1
        <4> QED BY <3>1, <4>1
      <3> DEFINE f == [k \in 0 .. n |-> IF k = n THEN Imported(g[n - 1], File[picked[n]]) ELSE g[k]]
      <3>3. /\ \A k \in 0 .. n - 1 : k \in 0 .. n /\ k # n
            /\ \A k \in 0 .. n : k # n => k \in 0 .. n - 1
            /\ \A k \in 0 .. n : k # 0 => k - 1 \in 0 .. n - 1
            /\ n \in 0 .. n
        BY <2>2, <2>4
      <3>4. /\ f[n] = Imported(g[n - 1], File[picked[n]])
            /\ \A k \in 0 .. n - 1 : f[k] = g[k]
        BY <3>3
      <3>5. \A k \in 0 .. n - 1 :
              g[k] = IF k = 0 THEN Start(mode) ELSE Imported(g[k - 1], File[picked[k]])
        BY <3>2 DEF Steps
      <3>6. \A k \in 0 .. n :
              f[k] = IF k = 0 THEN Start(mode) ELSE Imported(f[k - 1], File[picked[k]])
        <4> HIDE DEF f
        <4> TAKE k \in 0 .. n
        <4>1. CASE k = n
          <5>1. f[n - 1] = g[n - 1]
            BY <2>4, <3>3, <3>4
          <5> QED BY <2>4, <3>4, <4>1, <5>1
        <4>2. CASE k # n
          <5>1. k # 0 => f[k - 1] = g[k - 1]
            BY <3>3, <3>4
          <5> QED BY <3>3, <3>4, <3>5, <4>2, <5>1
        <4> QED BY <4>1, <4>2
      <3>7. f = [k \in 0 .. n |-> f[k]]
        OBVIOUS
      <3> HIDE DEF f
      <3>8. Steps(mode, picked, n, f)
        BY <3>6, <3>7 DEF Steps
      <3> QED BY <2>2, <3>8
    <2> QED BY <2>3, <2>4
  <1> QED BY <1>1

LEMMA RequestFacts ==
  ASSUME NEW picked \in Requests
  PROVE  /\ Len(picked) \in Nat /\ DOMAIN picked = 1 .. Len(picked)
         /\ \A i \in 1 .. Len(picked) :
              File[picked[i]] \in [name : Names, url : Urls, enabled : BOOLEAN]
  <1>1. PICK n \in 0 .. Len(File) : picked \in Injection(1 .. n, DOMAIN File)
    BY DEF Requests
  <1>2. n \in Nat /\ picked \in [1 .. n -> DOMAIN File]
    BY <1>1, FileAssumption DEF Injection
  <1>3. picked \in Seq(DOMAIN File) /\ Len(picked) = n /\ DOMAIN picked = 1 .. n
    BY <1>2
  <1>4. \A j \in DOMAIN File : File[j] \in [name : Names, url : Urls, enabled : BOOLEAN]
    <2>1. \A S : File \in Seq(S) => \A j \in DOMAIN File : File[j] \in S
      OBVIOUS
    <2> QED BY <2>1, FileAssumption
  <1> QED BY <1>2, <1>3, <1>4

\* A successful import has imported every site that was chosen.
LEMMA OutcomeDone ==
  ASSUME Tables, NEW mode \in {"merge", "replace"}, NEW picked \in Requests, Outcome(mode, picked).ok
  PROVE  Done(mode, picked, Len(picked), Outcome(mode, picked))
  <1> DEFINE m == Len(picked)
  <1>1. m \in Nat /\ \A i \in 1 .. m : File[picked[i]] \in [name : Names, url : Urls, enabled : BOOLEAN]
    BY RequestFacts
  <1>2. Outcome(mode, picked) = (CHOOSE f : Steps(mode, picked, m, f))[m]
    BY DEF Outcome, Steps
  <1> HIDE DEF m
  <1>3. PICK f : Steps(mode, picked, m, f) /\ Outcome(mode, picked) = f[m]
    <2>1. \E f : Steps(mode, picked, m, f)
      BY <1>1, StepsExist
    <2>2. Steps(mode, picked, m, CHOOSE f : Steps(mode, picked, m, f))
      BY <2>1
    <2> QED BY <1>2, <2>2
  <1>4. \A n \in 0 .. m : f[n] = IF n = 0 THEN Start(mode) ELSE Imported(f[n - 1], File[picked[n]])
    BY <1>3 DEF Steps
  <1> DEFINE Bad == {n \in Nat : n <= m /\ f[n].ok /\ ~Done(mode, picked, n, f[n])}
  <1>5. ASSUME Bad # {} PROVE FALSE
    <2>1. PICK n \in Bad : \A k \in Bad : ~(<<k, n>> \in OpToRel(<, Nat))
      <3>1. Bad \subseteq Nat
        OBVIOUS
      <3> HIDE DEF Bad
      <3> QED BY <1>5, <3>1, NatLessThanWellFounded, WFMin
    <2>2. n \in 0 .. m /\ f[n].ok /\ ~Done(mode, picked, n, f[n])
      BY <1>1
    <2>3. CASE n = 0
      <3>1. f[0] = Start(mode)
        BY <1>4, <2>2, <2>3
      <3> QED BY <2>2, <2>3, <3>1, StartDone
    <2>4. CASE n # 0
      <3>1. PICK k \in Nat : n = k + 1
        <4>1. n - 1 \in Nat /\ n = (n - 1) + 1
          BY <2>2, <2>4
        <4> QED BY <4>1
      <3>2. k <= m /\ <<k, n>> \in OpToRel(<, Nat) /\ n - 1 = k /\ k + 1 \in 1 .. m
        BY <1>1, <2>2, <3>1 DEF OpToRel
      <3>3. f[n] = Imported(f[k], File[picked[k + 1]])
        BY <1>4, <2>2, <2>4, <3>1, <3>2
      <3>4. File[picked[k + 1]] \in [name : Names, url : Urls, enabled : BOOLEAN]
        BY <1>1, <3>2
      <3>5. f[k].ok
        <4>1. ASSUME ~f[k].ok PROVE FALSE
          <5>1. f[n] = f[k]
            BY <3>3, <4>1 DEF Imported
          <5> QED BY <2>2, <4>1, <5>1
        <4> QED BY <4>1
      <3>6. Done(mode, picked, k, f[k])
        BY <2>1, <3>2, <3>5
      <3>7. Done(mode, picked, k + 1, f[n])
        <4>1. Imported(f[k], File[picked[k + 1]]).ok
          BY <2>2, <3>3
        <4> HIDE DEF Bad
        <4> QED BY <3>3, <3>4, <3>6, <4>1, ImportedDone
      <3> QED BY <2>2, <3>1, <3>7
    <2> QED BY <2>3, <2>4
  <1>6. m \notin Bad
    BY <1>5
  <1> QED BY <1>1, <1>3, <1>6 DEF m

-----------------------------------------------------------------------------
(* Steps with imports                                                      *)

LEMMA CommitDone ==
  ASSUME Tables, NEW c, NEW k, NEW t, NEW mode \in {"merge", "replace"}, NEW picked \in Requests,
         Commit(c, k, t, mode, picked)
  PROVE  LET after == Outcome(mode, picked)
         IN /\ Done(mode, picked, Len(picked), after)
            /\ categories' = after.categories /\ sites' = after.sites
  BY OutcomeDone DEF Commit

LEMMA CommitSays ==
  ASSUME Tables, NEW c, NEW k, NEW t, NEW mode \in {"merge", "replace"}, NEW picked \in Requests,
         Commit(c, k, t, mode, picked)
  PROVE  DoesWhatItSays(mode, picked)
  <1> DEFINE new == DOMAIN sites' \ KeptSites(mode)
             keptUrls == {sites[s].url : s \in KeptSites(mode)}
  <1>1. PICK after : after = Outcome(mode, picked)
    OBVIOUS
  <1>2. /\ Done(mode, picked, Len(picked), after)
        /\ categories' = after.categories /\ sites' = after.sites
    BY <1>1, CommitDone
  <1>3. NewSites(mode, after) = new
    BY <1>2 DEF NewSites
  <1>4. {File[i].url : i \in Range(picked)} = {File[picked[i]].url : i \in 1 .. Len(picked)}
    BY RequestFacts DEF Range
  <1>5. {sites'[s].url : s \in new} = {File[i].url : i \in Range(picked)} \ keptUrls
    <2>1. {after.sites[s].url : s \in NewSites(mode, after)}
            = {File[picked[i]].url : i \in 1 .. Len(picked)} \ keptUrls
      BY <1>2 DEF Done
    <2>2. {sites'[s].url : s \in new} = {after.sites[s].url : s \in NewSites(mode, after)}
      BY <1>2, <1>3
    <2> HIDE DEF new, keptUrls
    <2> QED BY <1>4, <2>1, <2>2
  <1>6. DOMAIN categories' \ KeptCategories(mode) \subseteq {sites'[s].category : s \in new}
    BY <1>2, <1>3 DEF Done
  <1>7. /\ \A s \in KeptSites(mode) : s \in DOMAIN sites' /\ sites'[s] = sites[s]
        /\ \A d \in KeptCategories(mode) : d \in DOMAIN categories' /\ categories'[d] = categories[d]
    BY <1>2 DEF Done
  <1> QED BY <1>5, <1>6, <1>7 DEF DoesWhatItSays

LEMMA CommitTables ==
  ASSUME Tables, NEW c, NEW k, NEW t, NEW mode \in {"merge", "replace"}, NEW picked \in Requests,
         Commit(c, k, t, mode, picked)
  PROVE  Tables'
  BY CommitDone DEF Done, Tables

\* What adds nothing to the page and removes nothing leaves its revision.
LEMMA CommitCounts ==
  ASSUME Tables, NEW c, NEW k, NEW t, NEW mode \in {"merge", "replace"}, NEW picked \in Requests,
         Commit(c, k, t, mode, picked)
  PROVE  Counted /\ UNCHANGED <<page, views, layouts, saving, clearing>> /\ (Touch \/ UNCHANGED revision)
  <1>1. PICK after : after = Outcome(mode, picked)
    OBVIOUS
  <1>2. /\ Done(mode, picked, Len(picked), after)
        /\ categories' = after.categories /\ sites' = after.sites
    BY <1>1, CommitDone
  <1>3. /\ IF Advances(mode, after) THEN Touch ELSE UNCHANGED revision
        /\ UNCHANGED <<page, clientVars, clearing>>
    BY <1>1 DEF Commit
  <1>4. CASE Advances(mode, after)
    BY <1>3, <1>4 DEF Counted, Touch, clientVars
  <1>5. CASE ~Advances(mode, after)
    <2>1. sites' = sites /\ categories' = categories
      BY <1>2, <1>5 DEF Done, Advances
    <2> QED BY <1>3, <1>5, <2>1 DEF Counted, content, clientVars
  <1> QED BY <1>4, <1>5

\* A step of Spec is an edit of the draft, an import, or leaves the draft alone.
LEMMA DraftOrImport ==
  [Next]_vars => \/ [DraftNext]_draftVars
                 \/ \E c \in Clients, k \in Keys, t \in Tokens, mode \in {"merge", "replace"},
                       picked \in Requests : Commit(c, k, t, mode, picked)
  BY DEF Next, Import, HandlePreview, HandleCommit, Preview, ExpirePreview, ForgetAnswer,
         DraftNext, vars

ImportInv == Tables /\ RestOK /\ ViewInv /\ LandedInv /\ answered \subseteq Keys

LEMMA AnsweredStep == answered \subseteq Keys /\ [Next]_vars => answered' \subseteq Keys
  BY DEF Next, Import, HandlePreview, HandleCommit, Preview, ExpirePreview, ForgetAnswer, Commit,
         vars, importVars

LEMMA ImportInvStep == ImportInv /\ [Next]_vars => ImportInv'
  <1> SUFFICES ASSUME ImportInv, [Next]_vars PROVE ImportInv'
    OBVIOUS
  <1> USE DEF ImportInv
  <1>1. LandedInv' /\ answered' \subseteq Keys
    BY LandedInvStep, AnsweredStep
  <1>2. CASE [DraftNext]_draftVars
    BY <1>1, <1>2, TablesStep, RestStep, ViewInvStep
  <1>3. ASSUME NEW c \in Clients, NEW k \in Keys, NEW t \in Tokens,
               NEW mode \in {"merge", "replace"}, NEW picked \in Requests,
               Commit(c, k, t, mode, picked)
        PROVE  ImportInv'
    <2>1. Tables'
      BY <1>3, CommitTables
    <2>2. Counted /\ UNCHANGED <<page, views, layouts, saving, clearing>> /\ (Touch \/ UNCHANGED revision)
      BY <1>3, CommitCounts
    <2>3. RestOK'
      <3>1. revision' \in 0 .. MaxRevision
        BY <2>2, Touched DEF RestOK
      <3> QED BY <2>2, <3>1 DEF RestOK, ViewOK
    <2>4. ViewInv'
      <3>1. revision' \in Nat
        BY <2>2 DEF Counted, ViewInv
      <3>2. ASSUME NEW d \in Clients, views'[d].step \in {"base", "categories", "loaded"}
            PROVE  Reads(views[d])'
        BY <2>2, <3>2, ReadsKept
      <3> QED BY <2>2, <3>1, <3>2 DEF ViewInv
    <2> QED BY <1>1, <2>1, <2>3, <2>4
  <1> QED BY <1>2, <1>3, DraftOrImport

LEMMA ImportInvAlways == Spec => []ImportInv
  <1>1. Init => ImportInv
    BY TablesInit, RestInit, ViewInvInit, LandedInvInit DEF Init, ImportInv
  <1> QED BY <1>1, ImportInvStep, PTL DEF Spec

\* Edits and imports, in any order, leave well-typed rows within the limits whose
\* orders never tie.
THEOREM ImportsKeepTables == Spec => []TablesAreSound
  <1>1. ImportInv => TablesAreSound
    <2> SUFFICES ASSUME ImportInv PROVE TablesAreSound
      OBVIOUS
    <2>1. DraftTypeOK
      BY DEF ImportInv, Tables, CategoryTable, SiteTable, RestOK, DraftTypeOK
    <2>2. OrdersDiffer /\ LimitsHold
      BY DEF ImportInv, Tables, CategoryTable, SiteTable, OrdersDiffer, LimitsHold
    <2> QED BY <2>1, <2>2 DEF ImportInv, LandedInv, TypeOK, TablesAreSound
  <1> QED BY <1>1, ImportInvAlways, PTL

\* With imports, too, a client whose revision is current has seen the current page.
THEOREM ImportsAreSeen == Spec => []SeenIsCurrent
  <1>1. ImportInv => SeenIsCurrent
    BY ReadsAreCurrent DEF ImportInv
  <1> QED BY <1>1, ImportInvAlways, PTL

\* An import that changes the page advances its revision, like any edit.
THEOREM ImportsAreCounted == Spec => RevisionCountsChanges
  <1>1. ImportInv /\ [Next]_vars => [content' # content => revision' = revision + 1]_draftVars
    BY DraftOrImport, EveryStepCounts, CommitCounts DEF ImportInv, Counted
  <1> QED BY <1>1, ImportInvAlways, PTL DEF Spec, RevisionCountsChanges

\* An import does what its mode says, all of it, whatever the file and the choice.
THEOREM ImportsDoWhatTheySay == Spec => ImportDoesWhatItSays
  <1>1. ImportInv /\ [Next]_vars =>
          [landed' # landed =>
             \A c \in Clients, k \in Keys, t \in Tokens, mode \in {"merge", "replace"},
                picked \in Requests :
               Commit(c, k, t, mode, picked) => DoesWhatItSays(mode, picked)]_vars
    BY CommitSays DEF ImportInv
  <1> QED BY <1>1, ImportInvAlways, PTL DEF Spec, ImportDoesWhatItSays
=============================================================================
