----------------------------- MODULE Workspace -----------------------------
(***************************************************************************)
(* Publishing from the web client: the header, the banner, the overview    *)
(* and the draft preview each have a button for it, the publish page has   *)
(* one and the publication settings (web/src/pages/app, web/src/components *)
(* /feature); with the server's answers (internal/navigation).             *)
(*                                                                         *)
(* One tab has one copy of the page.  Every surface sends its own          *)
(* requests, and only what is still on the screen hears how they ended.    *)
(* Meanwhile another device edits the draft and the settings.  One scope:  *)
(* the system page has a cache entry of its own.                           *)
(***************************************************************************)
EXTENDS Naturals

CONSTANTS
  MaxCalls,   \* bound: requests of the tab
  MaxOthers   \* bound: acts of others

ASSUME WorkspaceAssumption == MaxCalls \in Nat /\ MaxOthers \in Nat

FormVisibilities == {"private", "unlisted"}   \* "public" is as "unlisted" here
Titles == {"home", "work"}   \* a title stands for the description too
SavedSettings == [visibility : FormVisibilities, seo : {"", "own"}]   \* an SEO text: none, or some
Forms == [visibility : FormVisibilities, seo : Titles \cup {"own"}]
Places == {"overview", "preview", "publish", "links"}   \* "links": and all other pages
Surfaces == {"toolbar", "banner", "overview", "preview", "publish"}   \* each has a usePublish
OffAir == [edition |-> 0]
NoFetch == [fetch |-> "idle"]
Sent == [fetch |-> "sent"]
Nothing == [arg |-> "none"]

VARIABLES
  draft,      \* server: revision of the draft
  title,      \* server: navigation_pages, the page's title
  saved,      \* server: page_publications
  live,       \* server: the snapshot on the air, or OffAir
  changed,    \* server: the settings are newer than that snapshot
  served,     \* requests of the tab that succeeded
  owed,       \* history: the last success the tab was told of
  page,       \* cache: ['navigation', 'page', scope]
  reading,    \* its fetch: NoFetch, Sent, or the page read
  failed,     \* isError: its last fetch that ended has failed
  place,      \* the page on the screen
  calls,      \* requests of the tab that have not ended
  sent,       \* bound: requests of the tab so far
  others,     \* bound: acts of others so far
  form,       \* the publication form
  dismissed   \* the banner was dismissed

pageVars == <<draft, title, saved, live, changed>>
serverVars == <<pageVars, served>>
cacheVars == <<page, reading, failed, owed>>
screenVars == <<place, form, dismissed>>
tabVars == <<serverVars, cacheVars, calls, sent, others, screenVars>>

-----------------------------------------------------------------------------
(* What the server tells                                                   *)

\* loadPublication; the edition stands for snapshotId and publishedAt.
PageNow ==
  [draft |-> draft, title |-> title, served |-> served,
   publication |->
     [settings |-> saved, edition |-> live.edition,
      hasUnpublishedChanges |-> live # OffAir /\ (live.draft # draft \/ changed)]]

-----------------------------------------------------------------------------
(* What the screen shows                                                   *)

\* A component is mounted: it hears its requests.
OnScreen(op, where) ==
  CASE op = "toolbar" -> TRUE
    [] op = "banner" -> where \in {"overview", "links"}
    [] op \in {"unpublish", "save"} -> where = "publish"
    [] op = "edit" -> where = "links"
    [] OTHER -> op = where

\* Components that leave the screen no longer hear their requests.
Hear == calls' = {[c EXCEPT !.heard = @ /\ OnScreen(c.op, place')] : c \in calls}

\* A page whose last fetch failed shows that instead of its contents; the
\* header and the banner go on showing the page in the cache.
Shown(op) == OnScreen(op, place) /\ (failed => op \in {"toolbar", "banner"})

Published == page.publication.edition # 0

PrimaryAction ==
  IF ~Published THEN "publish"
  ELSE IF page.publication.hasUnpublishedChanges THEN "publish_update" ELSE "none"

\* derivePublishUiState and resolvePrimaryPublishIntent.
Intent(surface) ==
  IF PrimaryAction = "none" THEN "noop"
  ELSE IF page.publication.settings.visibility # "private" THEN "publish"
  ELSE IF surface = "publish" THEN "noop" ELSE "redirect_visibility"

\* A form that was typed into may hold anything: what, is chosen when it is saved.
Typed == [form |-> "typed"]
NoForm == [form |-> "none"]

\* The title of the page fills in for an empty SEO title.
FormOf(p) ==
  LET told == p.publication.settings
  IN  [visibility |-> told.visibility, seo |-> IF told.seo = "" THEN p.title ELSE "own"]

\* The effect that fills the form in, on mounting and on another publication or title.
SameForm(p) == p.publication = page.publication /\ p.title = page.title
Filled(p, where) ==
  IF where # "publish" THEN NoForm ELSE IF place = "publish" /\ SameForm(p) THEN form ELSE FormOf(p)

-----------------------------------------------------------------------------
(* Requests of the tab                                                     *)

Pending(op) == \E c \in calls : c.op = op /\ c.heard

Ask(op, arg) ==
  /\ sent < MaxCalls /\ sent' = sent + 1
  /\ Shown(op) /\ ~Pending(op)
  /\ UNCHANGED others
  /\ calls' = calls \cup
       {[id |-> sent', op |-> op, arg |-> arg, answer |-> "none", served |-> 0, heard |-> TRUE]}

\* A button for it is on the screen: always in the header and on the publish
\* page, unless there is nothing to publish elsewhere, while the banner is up.
BannerUp == page.publication.hasUnpublishedChanges /\ ~dismissed

Offered(surface) ==
  /\ Shown(surface)
  /\ surface = "banner" => BannerUp
  /\ surface \in {"overview", "preview"} => PrimaryAction # "none"

\* handlePrimary of the header and the overview, onPublish of the banner,
\* handlePublish of the publish page.
Publish(surface) ==
  /\ Offered(surface) /\ Intent(surface) = "publish"
  /\ Ask(surface, [draft |-> page.draft])
  /\ UNCHANGED <<serverVars, cacheVars, screenVars>>

\* Leaving a page; most others fetch what is older than 30 seconds or failed.
GoTo(to) ==
  /\ place' = to
  /\ form' = Filled(page, to)
  /\ reading' \in IF reading = NoFetch THEN {NoFetch, Sent} ELSE {reading}
  /\ UNCHANGED <<page, failed>>

Navigate(to) ==
  /\ to # place
  /\ GoTo(to)
  /\ Hear
  /\ UNCHANGED <<serverVars, owed, sent, others, dismissed>>

RedirectToVisibility(surface) ==
  /\ place # "publish"
  /\ Offered(surface) /\ Intent(surface) = "redirect_visibility"
  /\ GoTo("publish")
  /\ Hear
  /\ UNCHANGED <<serverVars, owed, sent, others, dismissed>>

\* onDismiss: kept in the session storage.
Dismiss ==
  /\ OnScreen("banner", place) /\ BannerUp
  /\ dismissed' = TRUE
  /\ UNCHANGED <<serverVars, cacheVars, calls, sent, others, place, form>>

Unpublish ==
  /\ Published
  /\ Ask("unpublish", Nothing)
  /\ UNCHANGED <<serverVars, cacheVars, screenVars>>

TypeForm ==
  /\ Shown("save")
  /\ form' = Typed
  /\ UNCHANGED <<serverVars, cacheVars, calls, sent, others, place, dismissed>>

\* A title that filled in is saved as a text like any other.
SavePublication(new) ==
  /\ Ask("save", [settings |-> new])
  /\ form # Typed => new = [visibility |-> form.visibility, seo |-> "own"]
  /\ UNCHANGED <<serverVars, cacheVars, screenVars>>

\* Any change of the draft, by the pages that edit it.
Edit ==
  /\ Ask("edit", Nothing)
  /\ UNCHANGED <<serverVars, cacheVars, screenVars>>

-----------------------------------------------------------------------------
(* The server                                                              *)

\* A request succeeds, and its answer may be lost.
Succeed(c) ==
  /\ c.answer = "none"
  /\ served' = served + 1
  /\ \E answer \in {"ok", "failed"} :
       calls' = (calls \ {c}) \cup {[c EXCEPT !.answer = answer, !.served = served', !.arg = Nothing]}
  /\ UNCHANGED <<cacheVars, sent, others, screenVars>>

\* A request is refused, as what succeeds never is; or it, or its answer, is
\* lost, or another page has the address (409): that can happen to any.
Refuse(c, answer) ==
  /\ c.answer = "none"
  /\ calls' = (calls \ {c}) \cup {[c EXCEPT !.answer = answer, !.arg = Nothing]}
  /\ UNCHANGED <<serverVars, cacheVars, sent, others, screenVars>>

CallFails(c) == \E answer \in {"failed"} \cup (IF c.op \in Surfaces THEN {"conflict"} ELSE {}) : Refuse(c, answer)

\* Mutant: the revision is not compared.
CurrentOnAnyRevision(revision) == TRUE

Current(revision) == revision = draft

\* SQLStore.Publish in its order: another revision is a failure for the client.
ServePublish(c) ==
  /\ c.answer = "none" /\ c.op \in Surfaces /\ Current(c.arg.draft)
  /\ IF saved.visibility = "private" THEN Refuse(c, "private")
     ELSE /\ Succeed(c)
          /\ live' = [edition |-> served', draft |-> draft] /\ changed' = FALSE
          /\ UNCHANGED <<draft, title, saved>>

ServeUnpublish(c) ==
  /\ c.op = "unpublish"
  /\ Succeed(c)
  /\ saved' = [saved EXCEPT !.visibility = "private"]
  /\ live' = OffAir /\ changed' = FALSE
  /\ UNCHANGED <<draft, title>>

\* ReplacePublication
Replaced(new) ==
  /\ saved' = new
  /\ live' = IF new.visibility = "private" THEN OffAir ELSE live
  /\ changed' = (live' # OffAir)

ServeSave(c) ==
  /\ c.op = "save"
  /\ Succeed(c)
  /\ Replaced(c.arg.settings)
  /\ UNCHANGED <<draft, title>>

ServeEdit(c) ==
  /\ c.op = "edit"
  /\ Succeed(c)
  /\ draft' = draft + 1
  /\ UNCHANGED <<title, saved, live, changed>>

-----------------------------------------------------------------------------
(* Acts of others                                                          *)

Other ==
  /\ others < MaxOthers /\ others' = others + 1
  /\ UNCHANGED <<cacheVars, calls, screenVars, served, sent>>

\* UpdatePage, which this client has no page for, sets the title.
EditElsewhere(new) ==
  /\ Other
  /\ draft' = draft + 1 /\ title' = new
  /\ UNCHANGED <<saved, live, changed>>

SettingsElsewhere(new) ==
  /\ Other
  /\ Replaced(new)
  /\ UNCHANGED <<draft, title>>

-----------------------------------------------------------------------------
(* Answers and fetches                                                     *)

\* Mutant: a fetch under way is not started again.
RefetchedUnlessUnderWay(fetch) == IF fetch = NoFetch THEN Sent ELSE fetch

\* invalidateQueries and refetch: a fetch under way is started again.
Refetched(fetch) == Sent

Ended(c) ==
  /\ c.answer # "none"
  /\ owed' = IF c.answer = "ok" /\ owed < c.served THEN c.served ELSE owed
  /\ UNCHANGED <<serverVars, page, sent, others, dismissed>>

\* usePublish and handlePublishError; a message about visibility leads to the
\* settings, except on their own page.
PublishEnded(c) ==
  /\ c.op \in Surfaces
  /\ Ended(c)
  /\ IF c.answer = "private" /\ c.heard /\ c.op # "publish" /\ place # "publish"
       THEN /\ GoTo("publish")
            /\ calls' = {[d EXCEPT !.heard = @ /\ OnScreen(d.op, "publish")] : d \in calls \ {c}}
       ELSE /\ reading' = IF c.answer = "ok" \/ (c.answer = "conflict" /\ c.heard)
                            THEN Refetched(reading) ELSE reading
            /\ calls' = calls \ {c}
            /\ UNCHANGED <<place, form, failed>>

RevisedEnded(c) ==
  /\ c.op \in {"unpublish", "save", "edit"}
  /\ Ended(c)
  /\ reading' = IF c.answer = "ok" THEN Refetched(reading) ELSE reading
  /\ calls' = calls \ {c}
  /\ UNCHANGED <<place, form, failed>>

\* ErrorState of the pages: refetch.
Retry ==
  /\ failed
  /\ reading' = Refetched(reading)
  /\ UNCHANGED <<serverVars, page, failed, owed, calls, sent, others, screenVars>>

PageRead ==
  /\ reading = Sent /\ reading' = PageNow
  /\ UNCHANGED <<serverVars, page, failed, owed, calls, sent, others, screenVars>>

\* retry: 1, and the second attempt fails too; a first one that fails is as
\* one that reads later.
PageFails ==
  /\ reading # NoFetch
  /\ reading' = NoFetch /\ failed' = TRUE
  /\ UNCHANGED <<serverVars, page, owed, calls, sent, others, screenVars>>

PageArrives ==
  /\ reading \notin {NoFetch, Sent}
  /\ page' = reading /\ reading' = NoFetch /\ failed' = FALSE
  /\ form' = Filled(reading, place)
  /\ UNCHANGED <<serverVars, owed, calls, sent, others, place, dismissed>>

-----------------------------------------------------------------------------
(* The system                                                              *)

TabInit ==
  /\ draft = 1 /\ served = 0 /\ sent = 0 /\ others = 0
  /\ title = "home" /\ saved = [visibility |-> "unlisted", seo |-> ""]
  /\ live = OffAir /\ changed = FALSE
  /\ page = PageNow /\ reading = NoFetch /\ failed = FALSE /\ owed = 0
  /\ place = "overview" /\ calls = {} /\ dismissed = FALSE
  /\ form = NoForm

PublishSteps ==
  \/ \E surface \in Surfaces : Publish(surface) \/ RedirectToVisibility(surface)
  \/ Dismiss \/ Unpublish
  \/ \E to \in Places : Navigate(to)

FormSteps ==
  \/ TypeForm \/ Edit
  \/ \E new \in SavedSettings : SavePublication(new)

OtherSteps ==
  \/ \E new \in Titles : EditElsewhere(new)
  \/ \E new \in SavedSettings : SettingsElsewhere(new)

Executed(c) ==
  \/ ServePublish(c) \/ ServeUnpublish(c) \/ ServeSave(c)
  \/ ServeEdit(c)

Settled(c) == PublishEnded(c) \/ RevisedEnded(c)

TabNext ==
  \/ PublishSteps \/ FormSteps \/ OtherSteps
  \/ \E c \in calls : Executed(c) \/ CallFails(c) \/ Settled(c)
  \/ Retry \/ PageRead \/ PageFails \/ PageArrives

TabSpec == TabInit /\ [][TabNext]_tabVars

-----------------------------------------------------------------------------
(* Properties                                                              *)

\* The shape of the state; a private page is off the air.
TabTypeOK ==
  /\ draft \in Nat /\ served \in 0..sent /\ sent \in 0..MaxCalls /\ others \in 0..MaxOthers
  /\ title \in Titles /\ saved \in SavedSettings
  /\ live = OffAir \/ live \in [edition : 1..served, draft : 1..draft]
  /\ changed \in BOOLEAN /\ dismissed \in BOOLEAN /\ failed \in BOOLEAN
  /\ saved.visibility = "private" => live = OffAir
  /\ page.draft \in 1..draft /\ page.served \in 0..served /\ owed \in 0..served
  /\ place \in Places
  /\ form \in Forms \cup {Typed, NoForm}
  /\ \A c \in calls : c.id \in 1..sent /\ c.served \in 0..served

\* The visitor never sees a draft newer than one the tab has shown its owner:
\* a publish goes through only for the revision on the screen when it was
\* asked for (expectedRevision), however the draft moves in between.
LiveIsNotAheadOfTheScreen == live # OffAir => live.draft <= page.draft

\* What the publication form shows without having been typed into is the
\* publication in the cache, the page's title in it standing for an empty SEO
\* title: it does not lag behind, and saving it keeps what the tab shows.
FormIsCurrent == place = "publish" => form \in {Typed, FormOf(page)}

\* With no fetch under way, and unless the last one failed, the page on the
\* screen has in it every success the tab was told of, whichever surface asked
\* and whether or not it is still on the screen: a success refetches, and
\* restarts a fetch sent before.  A page fetched again after a failure has them.
SuccessIsShown == reading = NoFetch /\ ~failed => owed <= page.served

\* What the tab shows and would send is not older than what it was told.
ScreenIsCurrent == TabTypeOK /\ FormIsCurrent /\ SuccessIsShown
=============================================================================
