---------------------------- MODULE LayoutEditor ----------------------------
(***************************************************************************)
(* The layout half of the link editor of the web client                    *)
(* (web/src/pages/app/links): categories and sites are dragged, and the    *)
(* look of the page is chosen, on a local copy of the loaded page.  After  *)
(* a pause the copy is saved in two requests, its order and its look, each *)
(* naming the revision of the draft it changes.                            *)
(*                                                                         *)
(* Beside the editor, rows of the draft are created and deleted: by other  *)
(* forms of the same page, which refetch it, and by other tabs, which do   *)
(* not.  Requests fail, answers are lost, and the user leaves and returns  *)
(* while a save is on its way.  Filters of the list, which only make drops *)
(* ineffective, are left out.                                              *)
(***************************************************************************)
EXTENDS Integers, Sequences, FiniteSets, SequencesExt

CONSTANTS
  CatIds, SiteIds,  \* ids of categories and sites
  Templates,        \* settings.layout
  OpenedPage,       \* the draft when the editor is opened
  MaxChanges,       \* bound: changes of the draft
  MaxEdits          \* bound: drags begun, looks, saves by hand and departures

ASSUME LayoutBoundsAssumption == MaxChanges \in Nat /\ MaxEdits \in Nat

VARIABLES
  draft,     \* the page at the server
  rendered,  \* the page of the query cache, as the editor last rendered it
  refetch,   \* the refetch of that page
  local,     \* localPage: the copy being laid out, or NoCopy
  state,     \* layoutSaveState
  dirty,     \* layoutDirtyRef
  timer,     \* layoutSaveTimerRef is set
  saves,     \* calls of persistLayout that have not ended
  drag,      \* the drag in progress
  edits      \* bound: those acts so far

layoutVars == <<draft, rendered, refetch, local, state, dirty, timer, saves, drag, edits>>
editorVars == <<local, state, dirty, timer, drag, edits>>

-----------------------------------------------------------------------------
(* Pages: categories in their order, each with its sites in theirs         *)

NoCopy == [revision |-> -1]
NoRefetch == [step |-> "none"]
NoDrag == [kind |-> "none"]

SitesIn(cats) == UNION {ToSet(cats[i].sites) : i \in DOMAIN cats}
IdsIn(cats) == {cats[i].id : i \in DOMAIN cats}

\* Where the category or the site lies; the caller knows that it does.
IndexOf(cats, c) == CHOOSE i \in DOMAIN cats : cats[i].id = c
HomeOf(cats, s) == CHOOSE i \in DOMAIN cats : s \in ToSet(cats[i].sites)
PlaceOf(list, s) == CHOOSE j \in DOMAIN list : list[j] = s

NoDuplicates(cats) ==
  /\ \A i \in DOMAIN cats : IsInjective(cats[i].sites)
  /\ \A i, j \in DOMAIN cats :
       i # j => cats[i].id # cats[j].id /\ ToSet(cats[i].sites) \cap ToSet(cats[j].sites) = {}

\* The page that is opened is a sound one.
ASSUME OpenedPageAssumption ==
  /\ OpenedPage = [revision |-> 0, look |-> OpenedPage.look, cats |-> OpenedPage.cats]
  /\ OpenedPage.look \in Templates /\ OpenedPage.cats \in Seq([id : CatIds, sites : Seq(SiteIds)])
  /\ NoDuplicates(OpenedPage.cats)

\* page: the local copy, else what the query returned
Shown == IF local # NoCopy THEN local ELSE rendered

-----------------------------------------------------------------------------
(* Drops.  The manage list offers sites, headers and categories as targets,*)
(* the preview sites and categories.  A site dropped on a category or its  *)
(* header is appended to it.                                               *)

SiteTargets(cats) ==
  {[type |-> "site", category |-> cats[i].id, site |-> s] : i \in DOMAIN cats, s \in SitesIn(cats)}

CategoryTargets(cats) == {[type |-> "category", category |-> c] : c \in IdsIn(cats)}

Targets(cats) == SiteTargets(cats) \cup CategoryTargets(cats)

\* What can be gripped, in the preview as in the list
SiteGrips(cats) ==
  {[kind |-> "site", site |-> s, source |-> cats[HomeOf(cats, s)].id] : s \in SitesIn(cats)}

CategoryGrips(cats) == {[kind |-> "category", category |-> c] : c \in IdsIn(cats)}

\* A preview of folders offers none; the list beside it offers all of them.
Grips(cats) == SiteGrips(cats) \cup CategoryGrips(cats)

\* A site is on a page once, so a filter takes it from one place.
Without(list, s) == RemoveAt(list, PlaceOf(list, s))

\* arrayMove of dnd-kit
ArrayMove(list, i, j) == InsertAt(RemoveAt(list, i), j, list[i])

\* Mutant: the site leaves its category and is put nowhere.
ApplySiteDropLosing(cats, s, over) ==
  [cats EXCEPT ![HomeOf(cats, s)].sites = Without(@, s)]

\* A site over another one of its category takes its place there; over one of
\* another category it is inserted before it; an unknown place is the end.
ApplySiteDrop(cats, s, over) ==
  LET from == HomeOf(cats, s)
      to == IndexOf(cats, over.category)
      list == cats[to].sites
      onSite == over.type = "site" /\ over.site \in ToSet(list)
      at == IF onSite THEN PlaceOf(list, over.site) ELSE Len(list) + 1
  IN CASE from = to /\ onSite ->
            [cats EXCEPT ![to].sites = ArrayMove(list, PlaceOf(list, s), at)]
       [] from = to /\ ~onSite -> cats
       [] OTHER ->
            [cats EXCEPT ![from].sites = Without(@, s), ![to].sites = InsertAt(@, at, s)]

ApplyCategoryReorder(cats, c, over) ==
  ArrayMove(cats, IndexOf(cats, c), IndexOf(cats, over))

-----------------------------------------------------------------------------
(* Dragging                                                                *)

Edited == edits < MaxEdits /\ edits' = edits + 1

MarkLayoutDirty == dirty' = TRUE /\ state' = "dirty"

DragStart ==
  /\ drag = NoDrag
  /\ Edited
  /\ \E grip \in Grips(Shown.cats) : drag' = grip
  /\ UNCHANGED <<draft, rendered, refetch, local, state, dirty, timer, saves>>

\* Crossing into another category moves the site at once, without a timer.
DragOver ==
  /\ drag.kind = "site" /\ drag.site \in SitesIn(Shown.cats)
  /\ \E over \in Targets(Shown.cats) :
       /\ over.category # Shown.cats[HomeOf(Shown.cats, drag.site)].id
       /\ local' = [Shown EXCEPT !.cats = ApplySiteDrop(Shown.cats, drag.site, over)]
  /\ MarkLayoutDirty
  /\ UNCHANGED <<draft, rendered, refetch, timer, saves, drag, edits>>

\* The order the end of a drag over a target leaves: a category is moved; a site
\* is moved inside the category in which its drag began, if it still lies there.
Dropped(over) ==
  CASE drag.kind = "category" /\ {drag.category, over.category} \subseteq IdsIn(Shown.cats) ->
         ApplyCategoryReorder(Shown.cats, drag.category, over.category)
    [] drag.kind = "site" /\ drag.site \in SitesIn(Shown.cats)
         /\ Shown.cats[HomeOf(Shown.cats, drag.site)].id = drag.source ->
         ApplySiteDrop(Shown.cats, drag.site, over)
    [] OTHER -> Shown.cats

\* Also a drop outside any target schedules the save of what the drag changed.
DragEnd ==
  /\ drag # NoDrag
  /\ drag' = NoDrag
  /\ \E cats \in {Shown.cats} \cup {Dropped(over) : over \in Targets(Shown.cats)} :
       local' = IF cats # Shown.cats THEN [Shown EXCEPT !.cats = cats] ELSE local
  /\ IF dirty \/ local' # local
       THEN MarkLayoutDirty /\ timer' = TRUE
       ELSE UNCHANGED <<dirty, state, timer>>
  /\ UNCHANGED <<draft, rendered, refetch, saves, edits>>

\* onDragCancel: what the drag moved stays, unsaved and without a timer.
ClearDragChrome ==
  /\ drag # NoDrag
  /\ drag' = NoDrag
  /\ UNCHANGED <<draft, rendered, refetch, local, state, dirty, timer, saves, edits>>

\* setHomeLayout, setDensity, setCategoryStyle, setColumns
Relaid(look) ==
  /\ local' = [Shown EXCEPT !.look = look]
  /\ MarkLayoutDirty
  /\ timer' = TRUE

\* The dialog offers what the theme allows; no drag starts while it is open.
SetLayout(look) ==
  /\ drag = NoDrag
  /\ look # Shown.look
  /\ Edited
  /\ Relaid(look)
  /\ UNCHANGED <<draft, rendered, refetch, saves, drag>>

-----------------------------------------------------------------------------
(* Saving.  One call of persistLayout at a time runs for a mounted editor; *)
(* another one asks it to run again when it ends.                          *)

Running == {sv \in saves : sv.mine}

\* The revision is that of the rendered page, the content that of pageRef.
Call(page) ==
  [mine |-> TRUE, again |-> FALSE, last |-> NoCopy, step |-> "order",
   page |-> page, revision |-> rendered.revision]

Persist ==
  IF Running # {}
    THEN /\ saves' = {[sv EXCEPT !.again = @ \/ sv.mine] : sv \in saves}
         /\ UNCHANGED state
    ELSE /\ saves' = saves \cup {Call(Shown)}
         /\ state' = "saving"

TimerFires ==
  /\ timer
  /\ timer' = FALSE
  /\ Persist
  /\ UNCHANGED <<draft, rendered, refetch, local, dirty, drag, edits>>

\* The button is shown while the layout is dirty or could not be saved.
SaveOffered == state \in {"dirty", "error"}

HandleSaveLayout ==
  /\ SaveOffered
  /\ Edited
  /\ timer' = FALSE
  /\ Persist
  /\ UNCHANGED <<draft, rendered, refetch, local, dirty, drag>>

\* The call ends.  Asked to run again it goes on with the copy it had before its
\* own end cleared it, and with the revision last rendered.
Ended(sv, others) ==
  IF sv.again
    THEN /\ saves' = others \cup
              {[Call(IF sv.mine THEN Shown ELSE sv.last) EXCEPT !.mine = sv.mine]}
         /\ state' = IF sv.mine THEN "saving" ELSE state
    ELSE saves' = others

\* Mutant: a failed call does not reset layoutSavingRef.
FailedStaying(sv) ==
  /\ saves' = (saves \ {sv}) \cup {[sv EXCEPT !.step = "failed"]}
  /\ state' = IF sv.mine THEN "error" ELSE state
  /\ UNCHANGED <<rendered, refetch, local, dirty, timer, drag, edits>>

SaveFailed(sv) ==
  /\ Ended(sv, saves \ {sv})
  /\ sv.again \/ state' = IF sv.mine THEN "error" ELSE state
  /\ UNCHANGED <<rendered, refetch, local, dirty, timer, drag, edits>>

\* Mutant: after a save the copy stays.
SucceededKeepingCopy(sv) ==
  /\ sv.step = "refetch" /\ refetch.step \in {"none", "delivered"}
  /\ Ended(sv, saves \ {sv})
  /\ sv.again \/ state' = IF sv.mine THEN "saved" ELSE state
  /\ UNCHANGED <<draft, rendered, refetch, local, dirty, timer, drag, edits>>

\* Resolves when the refetch that onSuccess began has ended.
SaveSucceeded(sv) ==
  /\ sv.step = "refetch" /\ refetch.step \in {"none", "delivered"}
  /\ Ended(sv, saves \ {sv})
  /\ sv.again \/ state' = IF sv.mine THEN "saved" ELSE state
  /\ IF sv.mine THEN local' = NoCopy /\ dirty' = FALSE ELSE UNCHANGED <<local, dirty>>
  /\ UNCHANGED <<draft, rendered, refetch, timer, drag, edits>>

-----------------------------------------------------------------------------
(* The server and the query of the page                                    *)

\* invalidateQueries cancels a running fetch and starts another one.
InvalidatePage == refetch' = [step |-> "asked"]

WithinChanges == draft.revision < MaxChanges

\* The order must name every category and every site of the draft.
OrderAccepted(sv) ==
  /\ sv.revision = draft.revision
  /\ IdsIn(sv.page.cats) = IdsIn(draft.cats) /\ SitesIn(sv.page.cats) = SitesIn(draft.cats)

\* The second request names the revision the answer to the first one carries.
AfterOrder(sv) == [sv EXCEPT !.step = "settings", !.revision = draft.revision + 1]

\* Mutant: the second request names the revision of the moment it arrives.
SettingsAcceptedAlways(sv) == TRUE

SettingsAccepted(sv) == sv.revision = draft.revision

SaveOrder(sv) ==
  /\ sv.step = "order"
  /\ \/ /\ OrderAccepted(sv) /\ WithinChanges
        /\ draft' = [draft EXCEPT !.cats = sv.page.cats, !.revision = @ + 1]
        /\ \/ /\ saves' = (saves \ {sv}) \cup {AfterOrder(sv)}
              /\ UNCHANGED <<rendered, refetch, editorVars>>
           \/ SaveFailed(sv)    \* the answer is lost
     \/ SaveFailed(sv) /\ UNCHANGED draft

SaveSettings(sv) ==
  /\ sv.step = "settings"
  /\ \/ /\ SettingsAccepted(sv) /\ WithinChanges
        /\ draft' = [draft EXCEPT !.look = sv.page.look, !.revision = @ + 1]
        /\ \/ /\ saves' = (saves \ {sv}) \cup {[sv EXCEPT !.step = "refetch"]}
              /\ InvalidatePage
              /\ UNCHANGED <<rendered, editorVars>>
           \/ SaveFailed(sv)
     \/ SaveFailed(sv) /\ UNCHANGED draft

RefetchAnswered ==
  /\ refetch.step = "asked"
  /\ refetch' \in {[step |-> "delivered", page |-> draft], NoRefetch}
  /\ UNCHANGED <<draft, rendered, saves, editorVars>>

\* React renders after the cache has been told, hence after promises resolved.
RenderPage ==
  /\ refetch.step = "delivered"
  /\ rendered' = refetch.page
  /\ refetch' = NoRefetch
  /\ UNCHANGED <<draft, saves, editorVars>>

Insert(cats, c, s) == [cats EXCEPT ![IndexOf(cats, c)].sites = Append(@, s)]
Delete(cats, s) == [cats EXCEPT ![HomeOf(cats, s)].sites = Without(@, s)]

\* A row is created or deleted; only a form of this editor refetches the page.
EditRows ==
  /\ WithinChanges
  /\ \/ \E s \in SiteIds \ SitesIn(draft.cats), c \in IdsIn(draft.cats) :
          draft' = [draft EXCEPT !.cats = Insert(@, c, s), !.revision = @ + 1]
     \/ \E s \in SitesIn(draft.cats) :
          draft' = [draft EXCEPT !.cats = Delete(@, s), !.revision = @ + 1]
  /\ InvalidatePage \/ UNCHANGED refetch
  /\ UNCHANGED <<rendered, saves, editorVars>>

-----------------------------------------------------------------------------

\* The user leaves the editor and returns.  The timer is cleared; calls go on
\* without it; the page is refetched unless it is fresh.
Leave ==
  /\ Cardinality(saves) < 2   \* bound: saves of editors that were left
  /\ Edited
  /\ drag' = NoDrag /\ local' = NoCopy /\ state' = "idle" /\ dirty' = FALSE /\ timer' = FALSE
  /\ saves' = {IF sv.mine THEN [sv EXCEPT !.mine = FALSE, !.last = IF sv.again THEN Shown ELSE NoCopy]
               ELSE sv : sv \in saves}
  /\ InvalidatePage \/ UNCHANGED refetch
  /\ UNCHANGED <<draft, rendered>>

LayoutInit ==
  /\ draft = OpenedPage /\ rendered = OpenedPage /\ refetch = NoRefetch
  /\ local = NoCopy /\ state = "idle" /\ dirty = FALSE /\ timer = FALSE
  /\ saves = {} /\ drag = NoDrag /\ edits = 0

Lay == DragStart \/ DragOver \/ DragEnd \/ ClearDragChrome \/ \E look \in Templates : SetLayout(look)

Answer == \E sv \in saves : SaveOrder(sv) \/ SaveSettings(sv) \/ SaveSucceeded(sv)

LayoutNext ==
  \/ Lay \/ TimerFires \/ HandleSaveLayout
  \/ Answer \/ RefetchAnswered \/ RenderPage \/ EditRows \/ Leave

\* Timers fire, requests end and React renders; the user owes nothing.
LayoutSpec ==
  /\ LayoutInit /\ [][LayoutNext]_layoutVars
  /\ WF_layoutVars(TimerFires) /\ WF_layoutVars(Answer)
  /\ WF_layoutVars(RefetchAnswered) /\ WF_layoutVars(RenderPage)

-----------------------------------------------------------------------------
(* Properties                                                              *)

PageIsSound(p) ==
  /\ p.revision \in 0 .. MaxChanges /\ p.look \in Templates
  /\ IdsIn(p.cats) \subseteq CatIds /\ SitesIn(p.cats) \subseteq SiteIds
  /\ NoDuplicates(p.cats)

\* Every page, of the server, of the cache, of the copy and of every save, lists
\* each of its categories and sites once: no drop loses its place or copies a row.
LayoutTypeOK ==
  /\ PageIsSound(draft) /\ PageIsSound(rendered)
  /\ local # NoCopy => PageIsSound(local)
  /\ \A sv \in saves : PageIsSound(sv.page) /\ sv.revision \in 0 .. MaxChanges
  /\ state \in {"idle", "dirty", "saving", "saved", "error"}
  /\ refetch.step \in {"none", "asked", "delivered"}

\* Dragging rearranges: whatever crosses what, and whatever a refetch brings in
\* between, the copy holds exactly the sites that were shown.
DragsKeepSites ==
  [][local' # local /\ local' # NoCopy => SitesIn(local'.cats) = SitesIn(Shown.cats)]_layoutVars

\* The editor never looks saved while the user sees a copy that is not, and never
\* looks busy without a call that will say how it ended.
UnsavedIsShown ==
  /\ local # NoCopy => state \in {"dirty", "saving", "error"}
  /\ state = "saving" => Running # {}

\* The editor is in a state its display tells the truth about.
EditorIsSound == LayoutTypeOK /\ UnsavedIsShown

\* The look of a save lands only on the order it sent just before, although rows
\* change and other saves run between its two requests.
HalvesBelongTogether ==
  [][draft'.look # draft.look =>
       \E sv \in saves : draft'.look = sv.page.look /\ draft'.cats = sv.page.cats]_layoutVars

\* A scheduled save comes to rest: it was saved or the editor says it was not.
AutoSaveSettles == (timer \/ Running # {}) ~> (~timer /\ Running = {})

\* The end of a save drops only what it saved: "Local layout changes - auto-saved
\* to draft so left/right panels stay in sync"
\* (web/src/pages/app/links/page.tsx:150).
DropsOnlyWhatItSaved ==
  [][local # NoCopy /\ local' = NoCopy /\ state' = "saved" =>
       \E sv \in Running : sv.page.cats = local.cats /\ sv.page.look = local.look]_layoutVars
=============================================================================
