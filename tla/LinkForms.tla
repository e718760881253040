----------------------------- MODULE LinkForms -----------------------------
(***************************************************************************)
(* The forms of the link editor of the web client (web/src/pages/app/links *)
(* and web/src/components/base): the dialog that adds sites and fills      *)
(* itself in from their addresses, the panel that edits one row, switches, *)
(* deletions, the selection and its batch operations, and the checker of   *)
(* links.                                                                  *)
(*                                                                         *)
(* Each form sends its request and goes on; answers come in any order.  An *)
(* accepted change makes the client fetch the page again, and the call has *)
(* ended when that fetch has.  Other tabs change the same page.  The bar   *)
(* that would show the phase of a save (useSaveStatus) is not mounted      *)
(* anywhere in the client, so only toasts tell how a call ended.           *)
(***************************************************************************)
EXTENDS Integers, Sequences, FiniteSets, FiniteSetsExt, SequencesExt

CONSTANTS
  Cats, Sites,     \* ids of rows
  Uncategorized,   \* the category every page keeps
  FirstRows,       \* the rows when the editor is opened
  Urls,            \* addresses the user may enter
  MaxCalls,        \* bound: requests sent by forms
  MaxSteps,        \* bound: clicks and keystrokes
  MaxRevision,     \* bound: changes of the page
  Chunk            \* links per request of the checker (50)

ASSUME BoundsAssumption ==
  /\ MaxCalls \in Nat /\ MaxSteps \in Nat /\ MaxRevision \in Nat /\ Chunk \in Nat \ {0}
  /\ IsFiniteSet(Sites) /\ IsFiniteSet(Urls)

VARIABLES
  rows,      \* the draft at the server
  shown,     \* the page of the query cache, as the editor rendered it
  fetch,     \* the refetch of that page
  calls,     \* requests of the mutation hooks that have not ended
  sent,      \* bound: how many were sent; also gives them their ids
  panel,     \* PropertiesPanel and editingItem
  add,       \* AddSiteDialog
  target,    \* deleteTarget
  selected,  \* selectedSiteIds
  batches,   \* handlers of batch operations that wait: clicks do not wait for one another
  check,     \* BatchLinkChecker
  told,      \* the sites the last toast called deleted
  steps      \* bound: clicks and keystrokes so far

vars == <<rows, shown, fetch, calls, sent, panel, add, target, selected, batches, check, told, steps>>
cacheVars == <<rows, shown, fetch>>
callVars == <<calls, sent>>
dialogVars == <<add, target, check>>
batchVars == <<selected, batches, told>>

-----------------------------------------------------------------------------
(* Rows, and the requests that change them                                 *)

Items == Cats \cup Sites

\* Titles and names, which the user sees.  No form reads their letters.
RowText(i) == <<"row", i>>
Typed == <<"typed">>
Guess(url) == <<"guess", url>>      \* recognizeLink
Preview(url) == <<"preview", url>>  \* what the server found at the address
Empty == <<>>
Unborn == <<"unborn">>
Gone == <<"gone">>

Exists(page, i) == page.text[i] \notin {Unborn, Gone}
SitesOf(page) == {s \in Sites : Exists(page, s)}
CatsOf(page) == {c \in Cats : Exists(page, c)}

\* Ids tell categories from sites, and the page that is opened is a sound one.
ASSUME RowsAssumption ==
  /\ Cats \cap Sites = {} /\ Uncategorized \in CatsOf(FirstRows)
  /\ FirstRows = [revision |-> 0, text |-> FirstRows.text, home |-> FirstRows.home, on |-> FirstRows.on]
  /\ FirstRows.text = [i \in Items |-> FirstRows.text[i]]
  /\ FirstRows.home \in [Sites -> Cats] /\ FirstRows.on \in [Items -> BOOLEAN]
  /\ \A i \in Items : FirstRows.text[i] \in {RowText(i), Unborn}
  /\ \A s \in SitesOf(FirstRows) : FirstRows.home[s] \in CatsOf(FirstRows)

NoFetch == [step |-> "none"]
Closed == [open |-> FALSE]
NoTarget == "none"

\* invalidateQueries cancels a running fetch and starts another one.
Invalidate == fetch' = [step |-> "asked"]

Touched == rows.revision < MaxRevision

\* What the server refuses: rows that are not there, more rows than it allows, a
\* category that still has sites (deleteCategory asks for reject-if-not-empty).
Accepted(call) ==
  CASE call.verb = "createSite" -> Exists(rows, call.item) /\ \E s \in Sites : rows.text[s] = Unborn
    [] call.verb = "createCategory" -> \E c \in Cats : rows.text[c] = Unborn
    [] call.verb = "delete" ->
         /\ Exists(rows, call.item) /\ call.item # Uncategorized
         /\ \A s \in SitesOf(rows) : rows.home[s] # call.item
    [] OTHER -> Exists(rows, call.item)

Changed(call) ==
  CASE call.verb = "createSite" ->
         LET s == CHOOSE x \in Sites : rows.text[x] = Unborn
         IN [rows EXCEPT !.revision = @ + 1, !.text[s] = call.text, !.home[s] = call.item]
    [] call.verb = "createCategory" ->
         LET c == CHOOSE x \in Cats : rows.text[x] = Unborn
         IN [rows EXCEPT !.revision = @ + 1, !.text[c] = call.text]
    [] call.verb = "delete" -> [rows EXCEPT !.revision = @ + 1, !.text[call.item] = Gone]
    [] call.verb = "rename" -> [rows EXCEPT !.revision = @ + 1, !.text[call.item] = call.text]
    [] call.verb = "switch" -> [rows EXCEPT !.revision = @ + 1, !.on[call.item] = call.on]

\* A hook is useUpdateSite, useUpdateCategory, and so on; renames and switches
\* of sites go through the same one.
SameHook(call, verb, i) ==
  /\ call.verb \in {"rename", "switch"} /\ verb \in {"rename", "switch"}
  /\ call.item \in Sites <=> i \in Sites

\* mutate: the callbacks given to the earlier calls of the hook are dropped.  The
\* only one that does more than show a toast closes the panel.
Send(verb, i, text, on) ==
  /\ sent < MaxCalls
  /\ sent' = sent + 1
  /\ calls' = {[c EXCEPT !.closes = @ /\ ~SameHook(c, verb, i)] : c \in calls} \cup
       {[id |-> sent + 1, verb |-> verb, item |-> i, text |-> text, on |-> on,
         closes |-> verb = "rename", step |-> "sent"]}

-----------------------------------------------------------------------------
(* The panel of a row                                                      *)

\* getEditData makes a new object at every render of the editor, so the effect of
\* the panel loads the row again each time, also over what was typed.
Loaded(p, page) ==
  IF p.open /\ Exists(page, p.item)
    THEN [p EXCEPT !.text = page.text[p.item], !.dirty = FALSE]
    ELSE p

\* The editor renders: a hook changed state, or the page did.
Rendered == panel' = Loaded(panel, shown')

Tap == steps < MaxSteps /\ steps' = steps + 1

NoModal == ~panel.open /\ ~add.open /\ target = NoTarget /\ ~check.open

OpenPanel(i) ==
  /\ NoModal /\ Exists(shown, i) /\ Tap
  /\ panel' = [open |-> TRUE, item |-> i, text |-> shown.text[i], dirty |-> FALSE]
  /\ UNCHANGED <<cacheVars, callVars, dialogVars, batchVars>>

UpdatePanel ==
  /\ panel.open /\ target = NoTarget /\ Tap
  /\ panel' = [panel EXCEPT !.text = Typed, !.dirty = TRUE]
  /\ UNCHANGED <<cacheVars, callVars, dialogVars, batchVars>>

\* The call renders the editor at once, which loads the old row into the panel.
HandleSavePanel ==
  /\ panel.open /\ panel.dirty /\ target = NoTarget /\ Tap
  /\ Send("rename", panel.item, panel.text, TRUE)
  /\ panel' = Loaded([panel EXCEPT !.dirty = FALSE], shown)
  /\ UNCHANGED <<cacheVars, dialogVars, batchVars>>

HandleDeletePanel ==
  /\ panel.open /\ target = NoTarget /\ Tap
  /\ target' = IF Exists(shown, panel.item) THEN panel.item ELSE NoTarget
  /\ UNCHANGED <<cacheVars, callVars, add, check, batchVars>> /\ Rendered

ClosePanel ==
  /\ panel.open /\ target = NoTarget
  /\ panel' = Closed
  /\ UNCHANGED <<cacheVars, callVars, dialogVars, batchVars, steps>>

-----------------------------------------------------------------------------
(* Switches and deletions                                                  *)

ToggleEnabled(i) ==
  /\ NoModal /\ Exists(shown, i) /\ Tap
  /\ Send("switch", i, Empty, ~shown.on[i])
  /\ UNCHANGED <<cacheVars, panel, dialogVars, batchVars>>

\* From the list, the table and the cards of the preview.
HandleToggleSiteEnabled(s) == s \in Sites /\ ToggleEnabled(s)

\* From the header of the list and its menu.
HandleToggleCategoryEnabled(c) == c \in Cats /\ ToggleEnabled(c)

AskDelete(i) ==
  /\ NoModal /\ Exists(shown, i) /\ Tap
  /\ target' = i
  /\ UNCHANGED <<cacheVars, callVars, panel, add, check, batchVars>>

\* Only a category closes the panel; the panel of a deleted site stays open.
ConfirmDelete ==
  /\ target # NoTarget /\ Tap
  /\ Send("delete", target, Empty, TRUE)
  /\ target' = NoTarget
  /\ panel' = IF target \in Cats THEN Closed ELSE Loaded(panel, shown)
  /\ UNCHANGED <<cacheVars, add, check, batchVars>>

CancelDelete ==
  /\ target # NoTarget
  /\ target' = NoTarget
  /\ UNCHANGED <<cacheVars, callVars, add, check, batchVars, steps>> /\ Rendered

\* AddCategoryDialog: a name is typed and sent, and the dialog closes.
HandleCreateCategory ==
  /\ NoModal /\ Tap
  /\ Send("createCategory", Uncategorized, Typed, TRUE)
  /\ UNCHANGED <<cacheVars, panel, dialogVars, batchVars>>

-----------------------------------------------------------------------------
(* AddSiteDialog                                                           *)

NoForm == [open |-> FALSE, url |-> Empty, title |-> Empty, touched |-> FALSE,
           category |-> Uncategorized, preferred |-> Uncategorized, asked |-> {}]

PickDefaultCategoryId(page, preferred) ==
  IF Exists(page, preferred) THEN preferred ELSE Uncategorized

\* The category last expanded may be gone.
OpenAddSite(c) ==
  /\ NoModal /\ shown.text[c] # Unborn /\ Tap
  /\ add' = [NoForm EXCEPT !.open = TRUE, !.preferred = c,
                           !.category = PickDefaultCategoryId(shown, c)]
  /\ UNCHANGED <<cacheVars, callVars, panel, target, check, batchVars>>

\* recognizeLink: what is filled in before the server answers
Guessed(url) == IF url = Empty THEN Empty ELSE Guess(url)

\* Mutant: the requests for earlier addresses are not cancelled.
EnteredKeepingAnswers(form, url) ==
  [form EXCEPT !.url = url, !.asked = @ \cup ({url} \ {Empty}),
     !.title = IF form.touched THEN @ ELSE Guessed(url)]

\* The effect of a new address: the timer or the request for the last one is
\* cancelled, and the fields nobody touched are guessed from the address.
Entered(form, url) ==
  [form EXCEPT !.url = url, !.asked = {url} \ {Empty},
     !.title = IF form.touched THEN @ ELSE Guessed(url)]

\* Several lines, one address each
Lines == SetToSeq(Urls)

TypeUrl(url) ==
  /\ add.open /\ url # add.url /\ Tap
  /\ add' = Entered(add, url)
  /\ UNCHANGED <<cacheVars, callVars, panel, target, check, batchVars>>

\* The preview is answered; a refused or lost one, or one without a title, leaves
\* the guess.
PreviewAnswered(url) ==
  /\ url \in add.asked
  /\ \E title \in {add.title} \cup (IF add.touched THEN {} ELSE {Preview(url)}) :
       add' = [add EXCEPT !.asked = @ \ {url}, !.title = title]
  /\ UNCHANGED <<cacheVars, callVars, panel, target, check, batchVars, steps>>

TypeTitle ==
  /\ add.open /\ add.url # Lines /\ Tap
  /\ add' = [add EXCEPT !.title = Typed, !.touched = TRUE]
  /\ UNCHANGED <<cacheVars, callVars, panel, target, check, batchVars>>

ChooseCategory(c) ==
  /\ add.open /\ Exists(shown, c) /\ Tap
  /\ add' = [add EXCEPT !.category = c]
  /\ UNCHANGED <<cacheVars, callVars, panel, target, check, batchVars>>

\* Other categories, even renamed ones, reset the choice, also the user's own.
CategorySynced(form, page) ==
  IF form.open
    THEN [form EXCEPT !.category = PickDefaultCategoryId(page, form.preferred)]
    ELSE form

\* The effect of resetting the address cancels what was asked.
Dismissed == add' = NoForm

\* One address is one call; several lines are one call each, through one hook.
HandleSubmit ==
  /\ add.open /\ add.url # Empty /\ Tap
  /\ IF add.url # Lines
       THEN Send("createSite", add.category, IF add.title = Empty THEN Guess(add.url) ELSE add.title, TRUE)
       ELSE /\ sent + Len(Lines) <= MaxCalls
            /\ sent' = sent + Len(Lines)
            /\ calls' = calls \cup
                 {[id |-> sent + n, verb |-> "createSite", item |-> add.category,
                   text |-> Guess(Lines[n]), on |-> TRUE, closes |-> FALSE, step |-> "sent"] :
                    n \in DOMAIN Lines}
  /\ Dismissed /\ UNCHANGED <<cacheVars, panel, target, check, batchVars>>

\* A site of the directory comes with its own title.
HandleDirectoryPick ==
  /\ add.open /\ Tap
  /\ Send("createSite", add.category, RowText("directory"), TRUE)
  /\ Dismissed /\ UNCHANGED <<cacheVars, panel, target, check, batchVars>>

HandleClose ==
  /\ add.open
  /\ Dismissed /\ UNCHANGED <<cacheVars, callVars, panel, target, check, batchVars, steps>>

-----------------------------------------------------------------------------
(* The selection and its batch operations                                  *)

HandleToggleSelect(s) ==
  /\ NoModal /\ Exists(shown, s) /\ Tap
  /\ selected' = IF s \in selected THEN selected \ {s} ELSE selected \cup {s}
  /\ UNCHANGED <<cacheVars, callVars, panel, dialogVars, batches, told>>

\* What passes the filters of the table, or the search of the list
Visible == SUBSET SitesOf(shown) \ {{}}

\* All sites of a category, or all that pass the filters, are selected, unless all
\* of them are; ids of sites that are gone or filtered out stay selected.
HandleSelectAll(visible) ==
  /\ NoModal /\ Tap
  /\ selected' = IF visible \subseteq selected THEN selected \ visible ELSE selected \cup visible
  /\ UNCHANGED <<cacheVars, callVars, panel, dialogVars, batches, told>>

\* Also by switching between the cards and the table.
HandleClearSelection ==
  /\ NoModal /\ selected # {}
  /\ selected' = {}
  /\ UNCHANGED <<cacheVars, callVars, panel, dialogVars, batches, told, steps>>

\* One request per site, all at once; the dialog closes and the editor goes on.  The
\* selection stays until the end, so the same sites can be deleted or hidden again.
HandleBatchDelete ==
  /\ NoModal /\ selected # {} /\ Tap
  /\ sent + Cardinality(selected) <= MaxCalls
  /\ sent' = sent + Cardinality(selected)
  /\ LET ids == SetToSeq(selected)
     IN calls' = calls \cup
          {[id |-> sent + n, verb |-> "delete", item |-> ids[n], text |-> Empty, on |-> TRUE,
            closes |-> FALSE, step |-> "sent"] : n \in DOMAIN ids}
  /\ batches' = batches \cup
       {[id |-> sent + 1, step |-> "deleting", ids |-> selected, waiting |-> sent + 1 .. sent',
         failed |-> FALSE]}
  /\ UNCHANGED <<cacheVars, panel, dialogVars, selected, told>>

\* Mutant: Promise.all, whose first rejection ends the handler.
SettledOrThrown(b, call, failed) ==
  IF b.step = "deleting" /\ call.id \in b.waiting
    THEN IF failed THEN [b EXCEPT !.step = "thrown"] ELSE [b EXCEPT !.waiting = @ \ {call.id}]
    ELSE b

\* Mutant: allSettled is awaited and its results are not read.
SettledUnread(b, call, failed) ==
  IF b.step = "deleting" THEN [b EXCEPT !.waiting = @ \ {call.id}] ELSE b

\* One promise of allSettled
Settled(b, call, failed) ==
  IF b.step = "deleting" /\ call.id \in b.waiting
    THEN [b EXCEPT !.waiting = @ \ {call.id}, !.failed = @ \/ failed]
    ELSE b

\* It clears the selection of this moment, and the toast speaks of its own sites.
BatchDeleted(b) ==
  /\ b.step = "deleting" /\ b.waiting = {}
  /\ selected' = {} /\ batches' = batches \ {b}
  /\ told' = IF b.failed THEN told ELSE b.ids
  /\ UNCHANGED <<cacheVars, callVars, dialogVars, steps>> /\ Rendered

\* The revision is that of the page the user sees.
HandleBatchSetEnabled(on) ==
  /\ NoModal /\ selected # {} /\ Tap
  /\ sent < MaxCalls /\ sent' = sent + 1
  /\ batches' = batches \cup
       {[id |-> sent', step |-> "enabling", ids |-> selected, on |-> on, revision |-> shown.revision]}
  /\ UNCHANGED <<cacheVars, calls, panel, dialogVars, selected, told>>

BatchAccepted(b) == b.revision = rows.revision /\ \A s \in b.ids : Exists(rows, s)

\* A refused one, or one whose answer is lost, leaves the selection.
BatchSetEnabled(b) ==
  /\ b.step = "enabling"
  /\ \/ /\ BatchAccepted(b) /\ Touched
        /\ rows' = [rows EXCEPT !.revision = @ + 1,
                      !.on = [i \in Items |-> IF i \in b.ids THEN b.on ELSE @[i]]]
        /\ \/ /\ batches' = (batches \ {b}) \cup {[id |-> b.id, step |-> "refetch"]}
              /\ selected' = {} /\ Invalidate /\ UNCHANGED shown /\ Rendered
           \/ batches' = batches \ {b} /\ UNCHANGED <<shown, fetch, selected, panel>>
     \/ batches' = batches \ {b} /\ UNCHANGED <<cacheVars, selected, panel>>
  /\ UNCHANGED <<callVars, dialogVars, told, steps>>

\* refetch resolves also when the fetch fails.
BatchEnabled(b) ==
  /\ b.step = "refetch" /\ fetch = NoFetch
  /\ batches' = batches \ {b}
  /\ UNCHANGED <<cacheVars, callVars, panel, dialogVars, selected, told, steps>>

-----------------------------------------------------------------------------
(* BatchLinkChecker                                                        *)

NoCheck == [open |-> FALSE, checking |-> FALSE, targets |-> <<>>, start |-> 0, got |-> <<>>,
            results |-> <<>>, error |-> FALSE]

OpenCheck ==
  /\ NoModal /\ Tap
  /\ check' = [check EXCEPT !.open = TRUE]
  /\ UNCHANGED <<cacheVars, callVars, panel, add, target, batchVars>>

\* Closing the dialog leaves its state, and a check that runs goes on.
CloseCheck ==
  /\ check.open
  /\ check' = [check EXCEPT !.open = FALSE]
  /\ UNCHANGED <<cacheVars, callVars, panel, add, target, batchVars, steps>>

ClearResults ==
  /\ check.open /\ ~check.checking
  /\ check.results # <<>> \/ check.error
  /\ check' = [check EXCEPT !.results = <<>>, !.error = FALSE]
  /\ UNCHANGED <<cacheVars, callVars, panel, add, target, batchVars, steps>>

\* All sites of the draft, or those that are not hidden
ManagedLinks(enabledOnly) == SetToSeq({s \in SitesOf(shown) : enabledOnly => shown.on[s]})

HandleCheck(enabledOnly) ==
  LET targets == ManagedLinks(enabledOnly)
  IN /\ check.open /\ ~check.checking /\ targets # <<>> /\ Tap
     /\ check' = [NoCheck EXCEPT !.open = TRUE, !.checking = TRUE, !.targets = targets]
     /\ UNCHANGED <<cacheVars, callVars, panel, add, target, batchVars>>

\* Mutant: the next part begins one link too late.
NextPartLate(start) == start + Chunk + 1

NextPart(start) == start + Chunk

\* One part is answered, or refused: the server checks all of it or, when a site is
\* gone or it is busy, nothing, and then the parts before are lost too.
PartChecked ==
  /\ check.checking
  /\ LET part == SubSeq(check.targets, check.start + 1, Min({check.start + Chunk, Len(check.targets)}))
         next == NextPart(check.start)
     IN \/ /\ \A n \in DOMAIN part : Exists(rows, part[n])
           /\ check' = IF next < Len(check.targets)
                         THEN [check EXCEPT !.start = next, !.got = @ \o part]
                         ELSE [check EXCEPT !.checking = FALSE, !.start = 0, !.got = <<>>,
                                            !.results = check.got \o part]
        \/ check' = [check EXCEPT !.checking = FALSE, !.start = 0, !.got = <<>>, !.error = TRUE]
  /\ UNCHANGED <<cacheVars, callVars, panel, add, target, batchVars, steps>>

-----------------------------------------------------------------------------
(* Answers, the query of the page, and other tabs                          *)

\* A refused or lost request ends at once; the page is not fetched.
Refused(call) ==
  /\ calls' = calls \ {call}
  /\ batches' = {Settled(b, call, TRUE) : b \in batches}
  /\ UNCHANGED <<shown, fetch>>
  /\ Rendered

Answered(call) ==
  /\ call.step = "sent"
  /\ \/ /\ Accepted(call) /\ Touched
        /\ rows' = Changed(call)
        /\ \/ /\ calls' = (calls \ {call}) \cup {[call EXCEPT !.step = "refetch"]}
              /\ Invalidate /\ UNCHANGED <<shown, panel, batches>>
           \/ Refused(call)
     \/ Refused(call) /\ UNCHANGED rows
  /\ UNCHANGED <<sent, dialogVars, selected, told, steps>>

\* The panel is closed by the save that was made last, whichever row it shows now.
Succeeded(call) ==
  /\ call.step = "refetch" /\ fetch.step \in {"none", "delivered"}
  /\ calls' = calls \ {call}
  /\ batches' = {Settled(b, call, FALSE) : b \in batches}
  /\ panel' = IF call.closes THEN Closed ELSE Loaded(panel, shown)
  /\ UNCHANGED <<cacheVars, sent, dialogVars, selected, told, steps>>

FetchAnswered ==
  /\ fetch.step = "asked"
  /\ fetch' \in {[step |-> "delivered", page |-> rows], NoFetch}
  /\ UNCHANGED <<rows, shown, callVars, panel, dialogVars, batchVars, steps>>

Render ==
  /\ fetch.step = "delivered"
  /\ shown' = fetch.page
  /\ fetch' = NoFetch
  /\ add' = IF [fetch.page EXCEPT !.revision = 0] = [shown EXCEPT !.revision = 0] THEN add
            ELSE CategorySynced(add, fetch.page)
  /\ Rendered
  /\ UNCHANGED <<rows, callVars, target, check, batchVars, steps>>

\* The automatic save of the layout renders the editor and fetches the page.
LayoutSaved ==
  /\ Touched
  /\ rows' = [rows EXCEPT !.revision = @ + 1]
  /\ Invalidate /\ UNCHANGED shown
  /\ Rendered /\ UNCHANGED <<callVars, dialogVars, batchVars, steps>>

\* An administrator deletes a link of any user (handleDelete of the page of
\* links); the owner's page is not told, only its revision moves.
DeletedByAdmin(s) ==
  /\ Touched /\ Exists(rows, s)
  /\ rows' = Changed([verb |-> "delete", item |-> s])
  /\ UNCHANGED <<shown, fetch, callVars, panel, dialogVars, batchVars, steps>>

\* Another tab renames, hides or deletes; nothing tells this one.
ChangedElsewhere ==
  /\ Touched
  /\ \E i \in Items, verb \in {"rename", "switch", "delete"} :
       LET call == [verb |-> verb, item |-> i, text |-> RowText("other tab"), on |-> ~rows.on[i]]
       IN Accepted(call) /\ rows' = Changed(call)
  /\ UNCHANGED <<shown, fetch, callVars, panel, dialogVars, batchVars, steps>>

-----------------------------------------------------------------------------

Init ==
  /\ rows = FirstRows /\ shown = FirstRows /\ fetch = NoFetch
  /\ calls = {} /\ sent = 0
  /\ panel = Closed /\ add = NoForm /\ target = NoTarget
  /\ selected = {} /\ batches = {} /\ told = {} /\ check = NoCheck
  /\ steps = 0

PanelSteps == UpdatePanel \/ HandleSavePanel \/ HandleDeletePanel \/ ClosePanel

SiteSteps(s) == OpenPanel(s) \/ HandleToggleSiteEnabled(s) \/ AskDelete(s) \/ HandleToggleSelect(s)

\* Also by the menu of its context.
CategorySteps(c) == OpenPanel(c) \/ HandleToggleCategoryEnabled(c) \/ AskDelete(c) \/ OpenAddSite(c)

RowSteps ==
  \/ (\E s \in Sites : SiteSteps(s)) \/ (\E c \in Cats : CategorySteps(c))
  \/ ConfirmDelete \/ CancelDelete \/ HandleCreateCategory

AddSteps ==
  \/ \E c \in Cats : ChooseCategory(c)
  \/ \E url \in Urls \cup {Lines, Empty} : TypeUrl(url) \/ PreviewAnswered(url)
  \/ TypeTitle \/ HandleSubmit \/ HandleDirectoryPick \/ HandleClose

SelectionSteps ==
  \/ \E visible \in Visible : HandleSelectAll(visible)
  \/ \E on \in BOOLEAN : HandleBatchSetEnabled(on)
  \/ HandleClearSelection \/ HandleBatchDelete
  \/ \E b \in batches : BatchDeleted(b) \/ BatchSetEnabled(b) \/ BatchEnabled(b)

CheckSteps ==
  OpenCheck \/ CloseCheck \/ ClearResults \/ (\E on \in BOOLEAN : HandleCheck(on)) \/ PartChecked

ServerSteps ==
  (\E call \in calls : Answered(call) \/ Succeeded(call)) \/ FetchAnswered \/ Render \/ LayoutSaved
  \/ ChangedElsewhere \/ \E s \in Sites : DeletedByAdmin(s)

Next == PanelSteps \/ RowSteps \/ AddSteps \/ SelectionSteps \/ CheckSteps \/ ServerSteps

\* Requests end, fetches too, and React renders; the user owes nothing.
Spec ==
  /\ Init /\ [][Next]_vars
  /\ WF_vars(\E call \in calls : Answered(call) \/ Succeeded(call))
  /\ WF_vars(FetchAnswered) /\ WF_vars(Render)
  /\ WF_vars(\E b \in batches : BatchDeleted(b) \/ BatchSetEnabled(b))
  /\ WF_vars(\E b \in batches : BatchEnabled(b))

-----------------------------------------------------------------------------
(* Properties                                                              *)

TextsOf(i) ==
  {RowText(i), Typed, Unborn, Gone, RowText("other tab"), RowText("directory")} \cup
  {Guess(u) : u \in Urls} \cup {Preview(u) : u \in Urls \cup {Lines}} \cup {Guess(Lines)}

PageOK(page) ==
  /\ page.revision \in 0 .. MaxRevision
  /\ \A i \in Items : page.text[i] \in TextsOf(i)
  /\ \A s \in SitesOf(page) : Exists(page, page.home[s])

\* Every page keeps its sites in categories it has, through every order in which
\* additions, deletions and their answers arrive; forms refer to rows of the page.
TypeOK ==
  /\ PageOK(rows) /\ PageOK(shown)
  /\ fetch.step = "delivered" => PageOK(fetch.page)
  /\ \A c \in calls : c.id \in 1 .. sent /\ c.item \in Items
  /\ panel.open => panel.item \in Items
  /\ target \in Items \cup {NoTarget}
  /\ selected \subseteq Sites /\ told \subseteq Sites

\* What the panel would save is what the page shows, but for what the user typed
\* since; a change by another tab or by another form reaches an untouched panel.
PanelShowsItsRow ==
  panel.open /\ ~panel.dirty /\ Exists(shown, panel.item) => panel.text = shown.text[panel.item]

\* The form adds what it shows: a title nobody typed is one of the address in the
\* field, however late the answer about another address comes, and the category
\* exists on the page as shown, whatever a fetch removed meanwhile.
AddFormIsCurrent ==
  add.open =>
    /\ add.touched \/ add.title \in {Guessed(add.url), Preview(add.url)}
    /\ Exists(shown, add.category)

\* Both forms send what they show.
FormsAreCurrent == TypeOK /\ PanelShowsItsRow /\ AddFormIsCurrent

\* "Deleted" is said only of sites that are gone.
DeletedMeansDeleted == \A s \in told : rows.text[s] = Gone

\* A check that ended well has a result for each link it was about, each once.
CheckIsComplete == check.results # <<>> => check.results = check.targets

\* Every batch operation ends, whatever is refused or lost and whichever others run.
Waits(n) == \E b \in batches : b.id = n
BatchSettles == \A n \in 1 .. MaxCalls : Waits(n) ~> ~Waits(n)

\* The dialog says of a category: "all sites under this category will be deleted
\* too" (web/src/pages/app/links/page.tsx:1319), so what it confirms is possible.
CategoriesGoWithTheirSites ==
  \A c \in calls :
    c.step = "sent" /\ c.verb = "delete" /\ c.item \in CatsOf(rows) \ {Uncategorized} => Accepted(c)
=============================================================================
