---------------------------- MODULE DraftContent ----------------------------
(***************************************************************************)
(* The draft of one page (internal/navigation): its title and settings,    *)
(* its categories and sites in the order the user gave them, and the       *)
(* revision that every change advances.  Edits of one row need no revision;*)
(* edits of the whole page name the revision their client saw.  Beside the *)
(* owner's clients, an administrator deletes single links                  *)
(* (internal/directoryadmin) and the deletion of a background rewrites the *)
(* settings (internal/backgrounds).                                        *)
(*                                                                         *)
(* Every edit is one SQLite transaction, hence one action; a refused edit  *)
(* changes nothing.  A client loads the page with four queries outside any *)
(* transaction, keeps it (the query cache of the web client) and may lay   *)
(* it out locally before it saves.                                         *)
(***************************************************************************)
EXTENDS Integers, FiniteSets, FiniteSetsExt, Functions

CONSTANTS
  CategoryIds, SiteIds,   \* ids of rows; SQLite breaks ties of orders by id
  Uncategorized,          \* the category every page keeps
  Names, Urls,            \* names of categories, addresses of sites
  Titles, Looks,          \* titles of the page; its settings but the background
  Clients,                \* tabs and devices of the page's owner
  MaxCategories, MaxSites,\* system_settings
  FirstName, FirstTitle, FirstLook,  \* what registration inserts
  MaxRevision             \* bound: edits of the page

ASSUME IdsAssumption ==
  /\ CategoryIds \subseteq Nat /\ Uncategorized \in CategoryIds
  /\ SiteIds \subseteq Nat
ASSUME LimitsAssumption ==
  /\ MaxCategories \in Nat \ {0} /\ MaxSites \in Nat \ {0} /\ MaxRevision \in Nat
ASSUME FirstAssumption ==
  FirstName \in Names /\ FirstTitle \in Titles /\ FirstLook \in Looks

VARIABLES
  page,        \* title and settings_json of navigation_pages
  categories,  \* rows of categories by id
  sites,       \* rows of sites by id
  revision,    \* navigation_pages.draft_revision
  views,       \* views[c]: the page as client c loaded it, or as far as it came
  layouts,     \* layouts[c]: the page c began to lay out locally, or NoView
  saving,      \* saving[c]: revision of the second half of a layout save, or -1
  clearing     \* settings the deletion of a background has read, or NoPage

content == <<page, categories, sites>>
clientVars == <<views, layouts, saving>>
draftVars == <<content, revision, clientVars, clearing>>

-----------------------------------------------------------------------------
(* Rows and their orders                                                   *)

\* The row shows a background of the library, or none.
Pages == [title : Titles, look : Looks, background : BOOLEAN]
CategoryRows == [name : Names, order : Nat]
SiteRows == [category : CategoryIds, url : Urls, order : Nat, enabled : BOOLEAN]

NoPage == [title |-> "none"]
NoView == [step |-> "none", revision |-> 0]
NotSaving == -1

InCategory(c) == {s \in DOMAIN sites : sites[s].category = c}

With(table, id, row) == [i \in DOMAIN table \cup {id} |-> IF i = id THEN row ELSE table[i]]
Without(table, ids) == Restrict(table, DOMAIN table \ ids)

\* ORDER BY sort_order, id
Before(table, i, j) ==
  \/ table[i].order < table[j].order
  \/ table[i].order = table[j].order /\ i < j

Position(table, ids, i) == Cardinality({j \in ids : Before(table, j, i)})

\* COALESCE(MAX(sort_order), -1) + 1
NextOrder(table, ids) == Max({-1} \cup {table[i].order : i \in ids}) + 1

Renumbered(table, ids) ==
  [i \in DOMAIN table |->
     IF i \in ids THEN [table[i] EXCEPT !.order = Position(table, ids, i)] ELSE table[i]]

Touch ==
  /\ revision < MaxRevision
  /\ revision' = revision + 1

\* Every edit but those of a layout leaves what clients hold.
Edit == Touch /\ UNCHANGED <<clientVars, clearing>>

\* UNIQUE (page_id, name) and UNIQUE (page_id, url)
NameFree(n, c) == \A d \in DOMAIN categories \ {c} : categories[d].name # n
UrlFree(u, s) == \A t \in DOMAIN sites \ {s} : sites[t].url # u

-----------------------------------------------------------------------------
(* Edits of one row                                                        *)

CreateCategory(c, n) ==
  /\ c \notin DOMAIN categories
  /\ Cardinality(DOMAIN categories) < MaxCategories
  /\ NameFree(n, c)
  /\ categories' = With(categories, c,
       [name |-> n, order |-> NextOrder(categories, DOMAIN categories)])
  /\ UNCHANGED <<page, sites>>
  /\ Edit

UpdateCategory(c, n) ==
  /\ c \in DOMAIN categories
  /\ NameFree(n, c)
  /\ categories' = [categories EXCEPT ![c].name = n]
  /\ UNCHANGED <<page, sites>>
  /\ Edit

\* The rows of ids, in their order, behind those of category c.
MovedTo(c, ids) ==
  [s \in DOMAIN sites |->
     IF s \in ids
       THEN [sites[s] EXCEPT !.category = c,
                !.order = NextOrder(sites, InCategory(c)) + Position(sites, ids, s)]
       ELSE sites[s]]

\* Deleting the category's row deletes the sites still in it (ON DELETE CASCADE).
DeleteCategory(c, mode) ==
  LET ids == InCategory(c) IN
  /\ c \in DOMAIN categories \ {Uncategorized}
  /\ mode = "reject-if-not-empty" => ids = {}
  /\ sites' = IF mode = "move-to-uncategorized" THEN MovedTo(Uncategorized, ids)
              ELSE Without(sites, ids)
  /\ categories' = LET kept == Without(categories, {c}) IN Renumbered(kept, DOMAIN kept)
  /\ UNCHANGED page
  /\ Edit

CreateSite(s, c, u, e) ==
  /\ s \notin DOMAIN sites
  /\ c \in DOMAIN categories
  /\ Cardinality(DOMAIN sites) < MaxSites
  /\ UrlFree(u, s)
  /\ sites' = With(sites, s,
       [category |-> c, url |-> u, order |-> NextOrder(sites, InCategory(c)), enabled |-> e])
  /\ UNCHANGED <<page, categories>>
  /\ Edit

\* A site that changes its category goes to the end there.
PatchedSite(s, c, u, e) ==
  [category |-> c, url |-> u, enabled |-> e,
   order |-> IF c = sites[s].category THEN sites[s].order ELSE NextOrder(sites, InCategory(c))]

\* The category it left is renumbered, without it.
UpdateSite(s, c, u, e) ==
  /\ s \in DOMAIN sites
  /\ c \in DOMAIN categories
  /\ UrlFree(u, s)
  /\ sites' = LET patched == With(sites, s, PatchedSite(s, c, u, e))
              IN IF c = sites[s].category THEN patched
                 ELSE Renumbered(patched, InCategory(sites[s].category) \ {s})
  /\ UNCHANGED <<page, categories>>
  /\ Edit

DeleteSite(s) ==
  /\ s \in DOMAIN sites
  /\ sites' = LET kept == Without(sites, {s})
              IN Renumbered(kept, InCategory(sites[s].category) \ {s})
  /\ UNCHANGED <<page, categories>>
  /\ Edit

\* Mutant: the administrator's deletion does not advance the revision.
DeletePersonalLinkQuietly(s) ==
  /\ s \in DOMAIN sites
  /\ sites' = Without(sites, {s})
  /\ UNCHANGED <<page, categories, revision, clientVars, clearing>>

\* The administrator's deletion renumbers nothing.
DeletePersonalLink(s) ==
  /\ s \in DOMAIN sites
  /\ sites' = Without(sites, {s})
  /\ UNCHANGED <<page, categories>>
  /\ Edit

-----------------------------------------------------------------------------
(* Loading the page: its row, its categories, its sites.  Each query sees  *)
(* what is committed when it runs.                                         *)

Loaded(c) == views[c].step = "loaded"

LoadBase(c) ==
  /\ views' = [views EXCEPT ![c] = [step |-> "base", revision |-> revision, page |-> page]]
  /\ UNCHANGED <<content, revision, layouts, saving, clearing>>

LoadCategories(c) ==
  /\ views[c].step = "base"
  /\ views' = [views EXCEPT ![c] =
       [step |-> "categories", revision |-> views[c].revision, page |-> views[c].page,
        categories |-> categories]]
  /\ UNCHANGED <<content, revision, layouts, saving, clearing>>

LoadSites(c) ==
  /\ views[c].step = "categories"
  /\ views' = [views EXCEPT ![c] =
       [step |-> "loaded", revision |-> views[c].revision, page |-> views[c].page,
        categories |-> views[c].categories, sites |-> sites]]
  /\ UNCHANGED <<content, revision, layouts, saving, clearing>>

-----------------------------------------------------------------------------
(* Edits of the whole page, which name the revision of the loaded page.    *)
(* Title and settings are edited on other routes of the web client than    *)
(* the layout, which leaving its route drops.                              *)

Current(c) == Loaded(c) /\ views[c].revision = revision

UpdatePage(c, t) ==
  /\ Current(c) /\ layouts[c] = NoView
  /\ page' = [page EXCEPT !.title = t]
  /\ UNCHANGED <<categories, sites>>
  /\ Edit

ReplaceSettings(c, look, shown) ==
  /\ Current(c) /\ layouts[c] = NoView
  /\ page' = [page EXCEPT !.look = look, !.background = shown]
  /\ UNCHANGED <<categories, sites>>
  /\ Edit

\* Every id must be a site of the page, or nothing changes.
BatchSetSitesEnabled(c, ids, e) ==
  /\ Current(c)
  /\ ids \subseteq DOMAIN sites
  /\ sites' = [s \in DOMAIN sites |->
                 IF s \in ids THEN [sites[s] EXCEPT !.enabled = e] ELSE sites[s]]
  /\ UNCHANGED <<page, categories>>
  /\ Edit

-----------------------------------------------------------------------------
(* A layout: the client drags categories and sites on a copy of the loaded *)
(* page and saves it in two requests, the order and then the settings.     *)

BeginLayout(c) ==
  /\ Loaded(c) /\ layouts[c] = NoView
  /\ layouts' = [layouts EXCEPT ![c] = views[c]]
  /\ UNCHANGED <<content, revision, views, saving, clearing>>

\* Leaving the page drops the layout.
DropLayout(c) ==
  /\ layouts[c] # NoView /\ saving[c] = NotSaving
  /\ layouts' = [layouts EXCEPT ![c] = NoView]
  /\ UNCHANGED <<content, revision, views, saving, clearing>>

\* Orders that name every category and every site exactly once: the ranks are
\* indexes in the lists of the request.
CategoryOrders(ids) == Injection(ids, 0 .. Cardinality(ids) - 1)
SiteOrders(cats, ids) ==
  {place \in Injection(ids, cats \X (0 .. Cardinality(ids) - 1)) :
     \A s \in ids : \A n \in 0 .. place[s][2] - 1 : \E t \in ids : place[t] = <<place[s][1], n>>}

Complete(layout) ==
  DOMAIN layout.categories = DOMAIN categories /\ DOMAIN layout.sites = DOMAIN sites

\* The answer carries the revision after this one.
ReplaceContentOrder(c, rank, place) ==
  /\ layouts[c] # NoView /\ saving[c] = NotSaving
  /\ Current(c)
  /\ Complete(layouts[c])
  /\ revision + 1 < MaxRevision   \* bound: room for the second request
  /\ categories' = [i \in DOMAIN categories |-> [categories[i] EXCEPT !.order = rank[i]]]
  /\ sites' = [s \in DOMAIN sites |->
       [sites[s] EXCEPT !.category = place[s][1], !.order = place[s][2]]]
  /\ Touch
  /\ saving' = [saving EXCEPT ![c] = revision + 1]
  /\ UNCHANGED <<page, views, layouts, clearing>>

\* The second request names that revision.  The settings are those of the
\* layout; if they are refused the layout stays, to be saved again.
SaveLayoutSettings(c, look) ==
  /\ saving[c] # NotSaving
  /\ saving' = [saving EXCEPT ![c] = NotSaving]
  /\ \/ /\ saving[c] = revision
        /\ page' = [page EXCEPT !.look = look, !.background = layouts[c].page.background]
        /\ layouts' = [layouts EXCEPT ![c] = NoView]
        /\ Touch
     \/ /\ saving[c] # revision
        /\ UNCHANGED <<page, layouts, revision>>
  /\ UNCHANGED <<categories, sites, views, clearing>>

-----------------------------------------------------------------------------
(* Deleting a background of the library: a query reads the settings of all *)
(* pages; those that show it are written back without it.                  *)

ReadForClearing ==
  /\ clearing = NoPage
  /\ page.background
  /\ clearing' = page
  /\ UNCHANGED <<content, revision, clientVars>>

\* Nothing compares the revision that was read.  An error is only logged.
ClearBackground ==
  /\ clearing # NoPage
  /\ clearing' = NoPage
  /\ \/ /\ page' = [page EXCEPT !.look = clearing.look, !.background = FALSE]
        /\ Touch
     \/ UNCHANGED <<page, revision>>
  /\ UNCHANGED <<categories, sites, clientVars>>

-----------------------------------------------------------------------------

DraftInit ==
  /\ page = [title |-> FirstTitle, look |-> FirstLook, background |-> FALSE]
  /\ categories = [c \in {Uncategorized} |-> [name |-> FirstName, order |-> 0]]
  /\ sites = [s \in {} |-> s]
  /\ revision = 0
  /\ views = [c \in Clients |-> NoView]
  /\ layouts = [c \in Clients |-> NoView]
  /\ saving = [c \in Clients |-> NotSaving]
  /\ clearing = NoPage

EditCategory ==
  \E c \in CategoryIds :
    \/ \E n \in Names : CreateCategory(c, n) \/ UpdateCategory(c, n)
    \/ \E mode \in {"reject-if-not-empty", "delete-sites", "move-to-uncategorized"} :
         DeleteCategory(c, mode)

EditSite ==
  \E s \in SiteIds :
    \/ DeleteSite(s) \/ DeletePersonalLink(s)
    \/ \E c \in CategoryIds, u \in Urls, e \in BOOLEAN :
         CreateSite(s, c, u, e) \/ UpdateSite(s, c, u, e)

Load(c) == LoadBase(c) \/ LoadCategories(c) \/ LoadSites(c)

EditPage(c) ==
  \/ \E t \in Titles : UpdatePage(c, t)
  \/ \E look \in Looks, shown \in BOOLEAN : ReplaceSettings(c, look, shown)
  \/ \E ids \in SUBSET SiteIds \ {{}}, e \in BOOLEAN : BatchSetSitesEnabled(c, ids, e)

Layout(c) ==
  \/ BeginLayout(c) \/ DropLayout(c)
  \/ \E rank \in CategoryOrders(DOMAIN categories),
        place \in SiteOrders(DOMAIN categories, DOMAIN sites) : ReplaceContentOrder(c, rank, place)
  \/ \E look \in Looks : SaveLayoutSettings(c, look)

LoadsAndEdits ==
  \/ EditCategory \/ EditSite
  \/ \E c \in Clients : Load(c) \/ EditPage(c)

DraftNext ==
  \/ LoadsAndEdits
  \/ ReadForClearing \/ ClearBackground
  \/ \E c \in Clients : Layout(c)

DraftSpec == DraftInit /\ [][DraftNext]_draftVars

-----------------------------------------------------------------------------
(* Properties                                                              *)

ViewOK(v) ==
  /\ v.step \in {"none", "base", "categories", "loaded"}
  /\ v.revision \in 0 .. MaxRevision
  /\ v.step # "none" => v.page \in Pages

\* Every site lies in a category of the page, whose first category stays.
DraftTypeOK ==
  /\ page \in Pages
  /\ DOMAIN categories \subseteq CategoryIds
  /\ Uncategorized \in DOMAIN categories
  /\ \A c \in DOMAIN categories : categories[c] \in CategoryRows
  /\ DOMAIN sites \subseteq SiteIds
  /\ \A s \in DOMAIN sites : sites[s] \in SiteRows /\ sites[s].category \in DOMAIN categories
  /\ revision \in 0 .. MaxRevision
  /\ \A c \in Clients : ViewOK(views[c]) /\ ViewOK(layouts[c])
  /\ saving \in [Clients -> {NotSaving} \cup 0 .. MaxRevision]
  /\ clearing \in Pages \cup {NoPage}

\* Orders never tie, so what a page shows never depends on random ids:
\* whatever is moved, deleted, imported or cleared away, two categories, and two
\* sites of one category, have different orders.
OrdersDiffer ==
  /\ \A c, d \in DOMAIN categories : categories[c].order = categories[d].order => c = d
  /\ \A s, t \in DOMAIN sites :
       sites[s].category = sites[t].category /\ sites[s].order = sites[t].order => s = t

\* The quotas of requirements.md:41 hold of the rows of the draft, hidden or not.
LimitsHold ==
  Cardinality(DOMAIN categories) <= MaxCategories /\ Cardinality(DOMAIN sites) <= MaxSites

\* The three queries of a load are not a transaction; yet a client whose
\* revision is current has seen the current page, so an edit that names the
\* revision never overwrites what its client did not see.
SeenIsCurrent ==
  \A c \in Clients : Current(c) =>
    /\ views[c].page = page
    /\ views[c].categories = categories
    /\ views[c].sites = sites

\* Every change of the draft, by whichever package, advances its revision by one.
RevisionCountsChanges == [][content' # content => revision' = revision + 1]_draftVars

\* Only a layout rearranges: through moves, deletions and renumbering the
\* categories keep their order, and so do sites that stay in one category or move
\* to another one together.
OrderIsTheUsers ==
  [][\/ \E c \in Clients : saving'[c] # saving[c]
     \/ /\ \A c, d \in DOMAIN categories \cap DOMAIN categories' :
             Before(categories, c, d) => Before(categories', c, d)
        /\ \A s, t \in DOMAIN sites \cap DOMAIN sites' :
             /\ sites[s].category = sites[t].category
             /\ sites'[s].category = sites'[t].category
             /\ Before(sites, s, t)
             => Before(sites', s, t)]_draftVars

\* A layout that will be saved was begun on the page it overwrites: "Prefer
\* revision from the payload-bearing page when caller passes local edits"
\* (web/src/hooks/useQueries.ts:142).
LayoutSavesWhatItSaw ==
  \A c \in Clients : saving[c] = revision => layouts[c].page = page
=============================================================================
