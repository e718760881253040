# Navax in TLA+

Navax is a self-hosted navigation-page server: one Go binary with an embedded
SQLite database and an embedded React client. Users edit a draft of a page and
publish immutable snapshots of it; administrators install themes, back the
instance up, restore it and update the binary in place. This directory holds
TLA+ models of the parts whose correctness depends on the *order* of things
(concurrent requests, cancelled contexts, failing file operations, crashes on
the server; late answers, refetches, timers and other devices in the client),
TLC configurations that check them on small instances, and proofs, checked by
TLAPS, that hold for every value of the constants.

Paths below are relative to `src/`; Go packages are under `src/internal/`.

## 1. Inventory

| component | state it keeps | operations | what is hard | what makes it correct |
|---|---|---|---|---|
| publishing (`navigation`) | `page_publications` (slug, visibility, live pointer, `updated_at`), `published_snapshots` | change settings, publish, unpublish, create page, suspend owner, public reads | requests overlap; times are taken before transactions; slug of the settings and of the live snapshot differ | one live page per slug; private pages off the air; revisions never go back; readers see a simple public site |
| draft editing (`navigation`, `directoryadmin`, `backgrounds`) | pages, categories, sites, orders, `draft_revision` | create, update, delete, move, reorder, batch switch, settings; load; clear a deleted background | edits with and without expected revision; a load is three queries outside a transaction; other packages edit the draft; renumbering after each change | orders never tie and stay the user's, every site in a category of its page, limits hold, whoever holds the current revision has seen the current page |
| idempotency (`idempotency`, `httpapi/navigation.go`) | `idempotency_records` | reserve, complete, abort, expire | the effect commits before the answer is stored; cancelled contexts; crash | one holder of a key, true answers, no key lost without cause |
| self-update (`maintenance/update*.go`) | `update_state` row, the executable and its rollback copy, process | check, apply, supervisor tick, restart | two renames replace the program; status survives crashes | some program survives, no downgrade, a blocking status is cleared |
| backup and restore (`maintenance/backup.go`, `app/run.go`) | live, `.restore-pending` and `.pre-restore` files, restore tokens | stage, swap at start, commit, rollback | a kill or a failing rename between any two file operations | what serves is of one piece, nothing is lost on the way, only accepted restores are applied |
| themes (`themes`, `themecatalog`, `admin`) | `themes`, `theme_versions`, `theme_catalog_requests`, versions snapshots refer to | install, upgrade, uninstall, apply, review, disable, default, sync at start, publish | long legal sequences by several actors on the same rows | a usable default, no dangling version, quota, unique names, disabled stays disabled |
| link editor (`web/src/pages/app/links`, `components/base`) | the cached page, the copy being laid out, its timer and saves; dialogs, panel, selection, check | drag, choose a look, save in two requests; add, edit, switch, delete, batch, check links | refetches replace what is dragged or typed; answers come late, fail or are lost; batches fail in part | nothing unsaved looks saved, a drop loses no site, the halves of a save belong together, forms show what they will send, batches and saves end |
| publishing in the client (`web/src/pages/app`, `components/feature`) | the cached page, five surfaces with a mutation each, the settings form | publish, unpublish, edit, save settings | surfaces and another device act on one page; refetches race with successes | nothing goes on the air that its owner has not seen, successes reach the screen |
| theme page of the client (`web/src/pages/app/themes`, `themes/registry.ts`) | choice, preview and its style sheet, pending background, library, import dialog | choose, upload, delete, validate, import | several handlers on one draft, style sheets and validations that answer late | the mark of the active theme is true, the preview follows the choice, a save changes only what was chosen |
| theme compiler and import | none | compile a manifest and style sheet, fetch a package | parsing | functions of their input |
| accounts and sessions (`auth`, `admin`, login, registration and settings pages) | users, sessions, invitations, reset tokens; in a browser the cookie and what was fetched for its user | bootstrap, register, log in and out, change and reset passwords, revoke, suspend | login races with reset and suspension; last use of an invitation; the cache is not keyed by user | no session outlives a reset, but for logins under way; invitations are not overspent; after a logout nothing of the last user is shown |
| email codes, OAuth (`auth`) | codes with attempts, OAuth states, identities | send, verify, register, link | attempts are compared and counted in two statements; code consumed before the registration that can fail | single use |
| throttle, rate limit (`auth/throttle.go`, `httpapi/rate_limit.go`) | counters in memory, bounded tables | allow, fail, succeed, evict | eviction at the limit | a locked key stays locked |
| import, export (`dataexchange`) | previews, import records | preview, commit, expiry | the draft changes between preview and commit; repeated commits; limits reached half way | an import lands once, does all its mode says and nothing else, and only on the draft its client saw |
| subdomains (`subdomains`, publish page) | requests, custom domains; the cached latest request | apply, cancel, review, revoke, set a domain | review races with cancellation and new applications | one owner per name, decisions stand, a success is shown |
| background library, assets (`backgrounds`, `assets`) | files, rows, references in drafts | upload, delete, clear references | count then insert; file and row not atomic | limits hold, references resolve |
| analytics (`analytics`) | events, visitors | record, purge | two inserts outside a transaction | visitors are counted once |
| discovery, SEO, rendering (`catalog`, `seo`, `webui`) | none | queries, formatting | | |
| administration (`admin`) | settings, users, audit log | lists, single-row updates | | |
| integrations, link check, link preview | provider configuration | calls of external services | network | |
| database (`database`) | SQLite in WAL mode | `WithinTx`, migrations | | one transaction at a time takes effect |
| HTTP handlers | | decode, call one service | | |
| the rest of the web client | public page, analytics, overview, other administration pages | show queries, send single forms | | |

How they interact. The HTTP layer calls one service per request; services take
the time and validate, stores run one SQLite transaction (`WithinTx`). A
read-then-write transaction that lost a race fails with `SQLITE_BUSY` and
changes nothing, so a transaction is an atomic step that may also fail. What is
not in a transaction is where the models are fine-grained: the gap between a
service's validation and its transaction, the handler around the publish
transaction, file operations, and the process itself. Publishing resolves a
theme version through `themes` and stores it in the snapshot; administration
suspends owners and so hides pages; restore and update both end in a restart of
the process, where `app.Run` applies pending restores, migrates, synchronises
built-in themes and starts the supervisor.

The client keeps one React Query cache per tab. A hook sends a request; an
accepted one invalidates queries, which cancels a fetch under way and sends
another, and the call has ended when that fetch has. What a component was
rendered with can therefore be older than the cache, and the cache older than
the server: the client modules keep these three apart. Most hooks are per
surface, so two buttons for one thing know nothing of each other.

## 2. Modules

    PublicSite            what publishing promises a visitor (abstract)
      ^ refined by
    Publication           settings, snapshots, live pointer, readers
      PublicationProofs   (of Workspace, too)
    Idempotency           the table of idempotency keys
      ^ extended by
    PublishRequest        the publish handler around key, transaction, answer
      PublishRequestProofs
    Update                self-update, supervisor, restart
    Restore               staging and applying a backup
      MaintenanceProofs   (of both)
    DraftContent          categories, sites, orders and revision of one draft
      ^ extended by
    DataExchange          imports into that draft
      DataExchangeProofs  (of both)
    Themes                packages, versions, catalog requests
      ThemesProofs        (of ThemeStudio, too)
    LayoutEditor          dragging and delayed saves in the link editor
    LinkForms             its dialogs, panel, selection and link check
      EditorProofs        (of both)
    Workspace             the five surfaces that publish, and their cache
    ThemeStudio           theme page, background library, style sheets, import
    Names                 subdomain requests and custom domains, and their page
      NamesProofs
    Accounts              sign-in, registration, passwords, what browsers keep
      AccountsProofs
    MC<module>            constants and symmetry for TLC, and one .cfg each

**Publication.** A request is two actions: `Start<Request>` is what the service
does before the database is involved (validate, take the time), `Commit<Request>`
is the store's transaction with its guards in the code's order, `Fail` is a
transaction that is refused or loses a race. `clock` is the source of the
timestamps, so two requests may commit in the other order than their times.
`settings[p]` is the row of `page_publications`, `current[p]` its
`current_snapshot_id`, `snapshots` the sequence of inserted snapshots.
`PublicBySlug` and `HasUnpublishedChanges` are the readers. Page creation
(registration), draft edits, suspension and the featured mark are there because
they write the same rows; a draft is only its revision. `Site` maps the state
to `PublicSite`: editions are snapshots, `shown` is `current`.

**DraftContent.** Every edit is one transaction and one action, with the
renumbering the code ends it with; a refused edit changes nothing and is no
step. `With`, `Without`, `NextOrder`, `Renumbered` and `MovedTo` are the SQL of
the edits on tables of rows. What is fine-grained is the reading: `LoadBase`,
`LoadCategories` and `LoadSites` are the queries of `pageDraft`, which runs in
no transaction; `views[c]` is the page as far as client `c` has loaded it.
Clients name the revision of their view; `UpdatePage`, `ReplaceSettings`,
`BatchSetSitesEnabled` and `ReplaceContentOrder` compare it, the edits of one
row do not. `layouts[c]` is the copy the client drags on and `saving[c]` the
revision between its two requests, in one step each: `LayoutEditor` has the same
in detail. `ReadForClearing` and `ClearBackground` are the deletion of a
background, `DeletePersonalLink` an administrator's deletion. The module has no
run of its own: its proofs are for any instance, and TLC runs its actions in
`import`, but for the layouts.

**DataExchange.** Extends `DraftContent` by previews and keys. `Commit` is one
transaction: `Outcome` folds `Imported` over the chosen sites, starting from
what the mode keeps (`Start`); if a limit is reached nothing happens. A repeated
request finds its answer and changes nothing. The import is composed with the
loads and edits of `DraftContent` (`LoadsAndEdits`) and the deletion of
backgrounds; layouts are left out of the composition, since an import meets them
only through the revision, as it meets the other edits.

**Idempotency, PublishRequest.** `records[k]` is the row of a key: free, in
progress, or an answer with the hash of the body it answered. A handler goes
through the stages reserved, committed (the transaction of `Publish`), loaded
(the read of the result at `sqlstore.go:664`), answered; `Disconnect` cancels
its request context, `Crash` ends the process, `Expire` forgets a row. `Abort`
runs in a context of its own, as in `httpapi/navigation.go:361-365`; its DELETE may
be refused (`unaborted`), as may the UPDATE that stores the answer (`unstored`):
both are only logged and leave the row in progress.

**Update.** `Apply` is a sequence of stages: mark downloading, download, mark
applying, move the executable to its rollback name, move the download into its
place, sync, record, answer; each file operation and each write may fail and
lead through the code's own error path. The download and verification of the
manifest and the maintenance window only decide *whether* a step begins.
`Disconnect` cancels an administrator's context; `stopping` cancels the
supervisor's. `running` is the version of the process, `exe` that of the file.

**Restore.** One action per file operation. An archive is staged by `ClearPending`,
`MakeAssets`, `Unpack` and `Accept`, a plain database by `RemovePendingDatabase` and
`CopyDatabase`, which leave the other pending files alone. A start is `Look`,
`Preserve`, `RemoveLog` (of the database), `InstallPending` for one component after
the other, then `SyncDataDirectory`; a failure leads through `ReturnKept` (the
component at hand) to `Undo` and `Return` (removal and rename, for each of the
swapped ones), success to `Open` or `Reject` and `Commit`. Each of them may fail:
`ClearFails`, `LookFails`, `StartFails`, `CommitFails`, and the failing branches of
`RemoveLog`, `ReturnKept`, `Undo` and `Return`; `StageEndsDirty` is a staging that
fails without clearing up. `discarded` remembers which operations failed whose error
the code drops. Of a file only its origin is kept; `log` is the database the `-wal`
file beside the live one belongs to. `Interrupt` kills the process anywhere in
between. `accepted`, `ran` and `discarded` are history variables the properties need.

**Themes.** Every operation is one transaction and one action. A version is
its theme and its content (the UNIQUE constraint of migration 0014). A patch
with several fields in `admin.UpdateTheme` is several actions, except where
the code looks at them together (`MakeDefault` with reactivation). `Init` is
what migration 0013 leaves: culled built-in themes disabled, one of which may
still be the default until `SyncBuiltin` (`EnsureDefaultTheme`) replaces it.

**LayoutEditor.** `draft` is the page at the server, `rendered` the page the
editor was last rendered with, `local` the copy being laid out. `DragOver`,
`DragEnd` and their helpers are the reorderings of
`web/src/pages/app/links/page.tsx`; `TimerFires` and `HandleSaveLayout` begin a
`persistLayout`, whose two requests are in `saves` with a stage each; `Answer`
is the end of a request at the server or in the network, `RefetchAnswered` the end
of the refetch, `RenderPage` what React does with it. `EditRows` are the other forms
and other tabs, `Leave` unmounts the editor and mounts it again.

**LinkForms.** `rows` is the draft at the server, `shown` the rendered page,
`calls` the requests of mutation hooks. A call is answered (`Answered`: refused
or lost; `Succeeded`: accepted) and its toast and callbacks come when the
refetch has ended, only for the last call of a hook. `panel`, `add`, `target`,
`selected` and `check` are the state of the components of these names.
The checker's parts are requests of `Chunk` links; a batch deletion is one
request per site under `Promise.allSettled`. `batches` are the handlers of batch
operations that wait; the buttons do not wait for them, so several run at once over
one selection.

**Workspace.** `calls` are the requests of the five surfaces (`publish-actions.ts`,
`useQueries.ts`), of the settings form and of other edits; `page` is the cache
with the publication it came with. `Executed` is the server (the publish compares
`expectedRevision`), `Fail` a refusal or a lost request, `Settled` the answer.
`PageRead` and `PageArrives` are the fetch; it is read at the server before it
arrives, so a success in between must start it anew. `PageFails` is a fetch whose
retry failed as well: the cached page stays and `failed` is set, until `Retry` or
another fetch. `FormOf` fills the publication form, with the page's `title` where the
SEO title is empty; `saved` is what the publication has of it. `place` is the page on
the screen and decides who still hears an answer.

**ThemeStudio.** A handler is a task with the settings it saw when it began, the
revision its request will carry, and a stage. `sheet` is the registry of style
sheets (`web/src/themes/registry.ts`): the applied one, the one that is loading,
and superseded ones that may still report. A background is deleted in three
statements (`Scan`, `Clear`, `Drop`); an upload (`ServeUpload`, `UploadEnded`) is
followed by a save under the revision of that moment. `activeId` is the theme
marked as active, `pendingId` the choice that is shown before it is saved.
`dialog` is the import dialog with its validations; a file can be chosen while an
import is under way. `deletingId` disables the button of the last deletion only, so
deletions overlap. When the page cannot be fetched (`PageFails`) an error replaces it
and unmounts preview and dialog, while handlers go on. `overlaid` is a history
variable: a theme was chosen while another choice, an upload or a deletion was
under way, after which the mark can be wrong (section 5).

**Names.** `requests` are the rows of `subdomain_requests` with the partial
unique indexes as guards (`Free`, `HostTaken`), `domain` the cached latest request
of the tab, `told` a history variable: the last success the tab was told of.
`DomainFails` is a fetch that fails with its retry; the old status stays.
Administrators approve, reject and revoke. `Broken` is a page that cannot be
rendered.

**Accounts.** A sign-in by password is `VerifyPassword`, then `CreateSession`;
by code `VerifyCode` (reads the latest row and compares), `CountAttempt` or
`ConsumeCode`, then `LookUp` and `CreateSession` or
`Register`, one action per statement or transaction of `auth`, each of which may fail
(`StatementFails`). A password is its
number, a code its position in the table. `browsers[b]` is a browser: `cookie`,
`who` (the cached session entry), `data` (whose data is in the cache), the
fetches of both, and the one request its page has sent. `since`, `late` and
`past` are history variables the properties need.

Operators under a comment that begins with `Mutant:` are not part of a
specification: each is the preceding or following definition with one plausible
mistake (a dropped guard, a missing reset), and shows which property notices it.

## 3. Runs

| run | instance | states | what is checked |
|---|---|---|---|
| `publication` | 1 personal page and the system page, 2 slugs, 2 clients, 4 requests, 1 edit per page | 1.16 M | `LiveSlugUnique`, `PrivateIsOffAir`, refinement `SiteSpec` |
| `publish_request` | 3 handlers, 2 keys, 2 bodies (draft revisions), 1 expiry per key | 180 k | `OneTrueAnswer`, `OncePerReservation`, `KeyIsNotStranded` |
| `update` | 1 administrator and the supervisor, 2 newer versions, 1 check at a time, 1 crash | 613 k | `SomeBinarySurvives`, `NoDowngrade`, liveness `BusyStatusClears` |
| `restore` | 2 archives (with and without the master key) and a plain database, 2 mishaps (kills, failing operations, rejected databases) | 4.79 M | `NothingIsLost`, `NeverStartsEmpty`, `PendingIsSound` |
| `themes` | 2 owners, 2 names, 2 contents, 2 rows, 2 built-in themes of which 1 is shipped, quota 1, 1 locked version | 283 k | `PagesRender`, `ReviewsAreSound`, `QuotaHolds`, `NoRevival` |
| `import` | a file of 3 sites in 2 categories, 2 of each allowed, 3 edits, 1 client, preview and key | 398 k | `TablesAreSound`, `ImportedOnce`, `SeenIsCurrent`, `ImportDoesWhatItSays`, `RevisionCountsChanges` |
| `layout_editor` | 2 categories, 2 sites, 2 looks, 3 changes of the draft, 2 acts of the user | 266 k | `EditorIsSound`, `DragsKeepSites`, `HalvesBelongTogether`, liveness `AutoSaveSettles` |
| `link_forms` | 2 categories, 3 sites of which 1 is not there yet, 2 addresses, 2 requests, 3 clicks, parts of 1 link | 561 k | `FormsAreCurrent`, `DeletedMeansDeleted`, `CheckIsComplete`, liveness `BatchSettles` |
| `workspace` | 2 requests of the tab, 1 act of others | 3.87 M | `LiveIsNotAheadOfTheScreen`, `ScreenIsCurrent` |
| `names` | 2 labels of which 1 is short, 1 custom domain, 2 requests of the tab, 2 acts of others | 132 k | `NamesAreSound`, `DecisionsStand`, liveness `SuccessIsShown` |
| `theme_studio` | 2 themes of which 1 allows one look, 3 backgrounds, a library of 2, 2 files, 3 handlers and acts of another device in all | 2.80 M | `ScreenIsTrue`, `PreviewFollows`, `SavesKeepTheRest` |
| `accounts` | 3 people of whom 1 has an account, 2 browsers, 1 invitation, 3 requests, 2 other acts | 712 k | `AdmissionsAreSpent`, `ResetEndsSessions`, `NobodyElsesData` |

Some of these names stand for a conjunction of named parts, defined just above
them: `TablesAreSound` is `TypeOK` (with `DraftTypeOK`), `OrdersDiffer` and
`LimitsHold`; `OneTrueAnswer` is `OneHolder` and `AnswersAreTrue`; `PagesRender` is
`DefaultUsable` and `SnapshotsResolve`; `NothingIsLost` is `WholeWithoutFaults`,
`SurvivesWithReturns` and `LogIsItsOwn`; `PendingIsSound` is `PendingOfOneArchive` and
`PendingIsAccepted`. The `...Sound`, `...Current`, `...True` and `...Spent` of
`DataExchange` and the modules of the client contain their type invariant; the
types of the other modules are theorems (section 4).

*Why the bounds are enough.* `publication`: the hazards are pairs of
overlapping requests about one or two pages; four requests allow a pair to be
preceded by the publication that put a page on the air under a slug and by one
settings change that gave the slug up. `publish_request`: a first request, its
retry and a request with another body. `update`: two newer versions are an
update, a second one without a restart, and a release that is withdrawn after the
second was installed, so that the first replaces it on disk; the safety properties
are proved for all bounds. `restore`: two mishaps are a kill while recovering from a
kill, a rejected database whose way back fails, or a failing removal before a
kill; two archives of different content are needed for a mixture, the plain database
for what it leaves of them. `themes`: at the quota of one, the second name forces the
reclaiming of a tombstone or its refusal because a snapshot needs it; two owners
can apply with one name at a time, so that only the review can refuse the second;
two built-in themes are needed for a default that is culled. `import`: three
sites are offered to a page of two, and three edits before, during and after the
preview create the rows and move them; one client suffices for `SeenIsCurrent`,
because edits of one row, the administrator and the background come from outside
it; one key suffices because a forgotten key behaves like a new one, so a retry
after it stands for one under another key.

`layout_editor`: a drag across both categories and a second act (another drag,
a look, a save by hand, a departure) while the first save is at any stage, with
up to three changes of the draft beside it, which are what two saves and one
foreign edit need. `link_forms`: two requests of one hook are what "the last
call's callbacks" needs, two sites a batch that fails in part and a check in two
parts, and three clicks select a site and begin two batches about it; the third site
is one that others create. `workspace`: two requests of
different surfaces and a change by another device, before, between or after them;
a third request repeats what two can meet, because only what the cache holds
joins them. `names`: a review can fall between an application and its
cancellation, and a second application follows it. `theme_studio`: two handlers
overlap with a third or with another device, with uploads and deletions at the
library's limit of two (one preset does not count). `accounts`: three requests let one code, one invitation or one
password be used by two browsers with a third request (a reset, a logout, a
revocation) between their statements; two other acts create a code and let an
administrator intervene.

*Deadlock* is checked for `restore`, `themes` and `import`, which can always go
on (a page can always be loaded). It is not for the others: `publication`,
`workspace`, `link_forms`, `layout_editor`, `theme_studio`, `names` and
`accounts` stop when the budget of requests is spent, `publish_request` when
every handler has ended, `update` when a crash between the two renames left no
executable to start.

*Fairness* is assumed in four modules, and only of what the program or the
platform does by itself.
`Update`: the supervisor checks again every six hours while the process runs
(`update_supervisor.go`; automatic checks are on by default), its check ends
because the HTTP client has a timeout of 15 seconds, its own `Apply` ends for the
same reason, a shutdown ends by its timeout, and systemd starts the process again
(`Restart=always` in the unit file). `LayoutEditor`: the timer of 450 ms fires,
every request and fetch is answered or fails (`fetch` of the browser does), React
renders. `LinkForms`: the same, and the continuations of a batch run once the
promises they wait for are settled. `Names`: each request is executed or fails
and its answer arrives, and a fetch ends, with an answer or as failed (`Fetching`);
that it succeeds is not assumed. Nothing is assumed of
users, administrators, the release server, other devices or the number of
crashes. The other specifications state safety only.

## 4. Proofs

A specification's invariants are seldom inductive. Each proof module defines
the conjunction that is (`IInv`, or one named for what it says), shows that the
initial states satisfy it and that every action preserves it, and derives the
theorems from it.

* `PublicationProofs`: `IInv` is `TypeOK`, the three safety invariants and
  `LiveIsOwn` (a live snapshot is one of the page's own), `DraftIsAhead` (no
  snapshot is ahead of its draft; it makes `RevisionsAdvance` inductive) and
  `RequestsAreForPages` (what waits for the database is about a page that
  exists). Theorems `TypeCorrect`, `SlugsAreUnambiguous`, `PrivacyAndProgress`,
  and `ImplementsSite`: Publication implements PublicSite, by `SiteInit` and
  `SiteStep`, one case per action.
* `PublicationProofs`, of the tab that publishes (`TabSpec` of `Workspace`):
  `ScreenInv` says of each request that what it would publish was on the screen
  when it was sent (`CallOK`) and of a fetch that what it has read at the server is
  shown and told (`ReadingOK`); requests that wait and requests that were served are
  no more than those sent (`Unserved`, by cardinalities), which bounds the
  revisions. Theorems `ScreensAreCurrent` and `VisitorsSeeWhatWasShown`.
* `PublishRequestProofs`: beside the invariants that are checked, a handler
  past its reservation holds its row, publishes the body it was sent, and both
  stored and given answers are true; a row is in progress only for a handler that
  still works, died, or could not store its answer or delete the row. Theorems
  `TypeCorrect`, `KeysHaveOneHolder`, `AnswersTellTheTruth`, from both `KeysAnswerTruly`, and
  `KeysAreGivenBack`. `KeysPublishOnce` counts: a reservation pays for one
  publication (`PaidFor`): those of a key whose reservation was not given back are
  one more than its expiries at most, and no more than its expiries while the key
  is free or its holder has not published or is about to give it back. Each step
  moves one handler, so it adds one member to these sets at most, and the
  cardinality lemmas of the library do the rest.
* `DataExchangeProofs`, of the draft: `ViewInv` (the parts a load has read are
  those of its revision while that is current, and no load is ahead of the page)
  gives `CurrentHasSeen`; `Tables` (rows are finite, typed, within the limits, in a
  category of the page, and no orders tie) gives `OrdersNeverTie` and
  `LimitsAreKept`. They rest on lemmas about the operators: `NextOrderFacts` (a
  new row goes behind the others), `PositionFacts` (positions are naturals,
  follow `ORDER BY sort_order, id` and tell rows apart), `RenumberedFacts`,
  `MovedToKeeps`. Because positions follow the order there was, only a layout
  rearranges (`OrderStaysTheUsers`); with `RestOK` (a layout that is saved was
  begun) the tables give `DraftTypeCorrect`. `ChangesAreCounted` and
  `OrderStaysTheUsers` prove action properties. These are theorems of `DraftSpec`,
  the draft without imports.
* `DataExchangeProofs`, of the imports: what landed is what the preview remembers
  as consumed (`LandedInv`), which gives `ImportsLandOnce`. An import is a
  recursive function over the chosen sites (`Outcome`). `Done(mode, picked, n, acc)`
  says what is true when `n` of them are imported: the tables are sound, rows that
  are kept are untouched, the new sites have the addresses of the first `n` that
  the page had not, and each new category has a new site. `StartDone` and
  `ImportedDone` are the two halves of an induction, which is carried out by the
  least counterexample (`StepsExist`: the function exists; `OutcomeDone`: it ends
  in `Done`). So the invariants of the draft hold under imports, too:
  `ImportsKeepTables`, `ImportsAreSeen`, `ImportsAreCounted`, and what an import
  does is `ImportsDoWhatTheySay`, for files of any length.
* `MaintenanceProofs`, of updates: at most one `Apply` is under way, a process that
  is down has none, what is applied is newer than what runs, the files are where the
  stage of `Apply` says, and no executable is older than the process. Theorems
  `TypeCorrect`, `ProgramSurvives`, `NeverDowngrades`.
* `MaintenanceProofs`, of restores (`RestoreSpec`): none of the properties is
  inductive, because each is about a program that serves and must say in the meantime
  what holds of every component at every phase of a start: already swapped, at hand,
  or untouched. `StagedInv` is what all of them need: types, the swapped components
  are different ones before the one at hand, the pending files are those unpacked so
  far and, unless a removal failed, of one archive. `HeldInv` (no kill, no failing
  way back): what ran last is in place, or in the rollback copy of a component that
  nothing waits to replace. `LogInv`: a log beside the database at any phase is that
  database's, or of one that is about to be removed. `DatabaseInv` (without faults
  and rejections): a database is there or waits, and there is one once the first
  component has been passed. `WholeInv` (without kills and faults): all of the
  accepted backup waits, or is swapped or about to be, or nothing is. Theorems
  `RestoreTypeCorrect`, `RestoreLosesNothing`, `KillsBeginNothingEmpty`,
  `OneBackupWaits`.
* `ThemesProofs`: beside the invariants, there is one default, an absent row
  is empty and built-in themes stay in the catalog. Theorems `TypeCorrect`,
  `FallbackWorks`, `PublishedVersionsStay`, from both `PagesAlwaysRender`, then
  `CatalogIsSound` and `DisabledStaysDisabled` (an action property).
  `QuotaIsKept` counts all of an owner's rows, tombstones included: only an
  installation adds one, and what it leaves of them is below the quota
  (`InstallWithinQuota`).
* `ThemesProofs`, of the theme page (`StudioSpec`): `StudioInv` has a part for each
  thing the page keeps. `TasksInv`: numbers tell handlers apart, and what a handler
  is about fits its stage. `PagesInv`: a page that was read is not ahead of the draft
  and equals it at its revision, and so a save that carries the draft's revision was
  begun with the draft's settings, but for the save of an upload. `MarkInv`: unless a
  choice overlapped with another one, an upload or a deletion, or another device
  changed the draft, the theme that was accepted is the draft's until its page comes, whatever backgrounds are saved
  meanwhile (`Ahead`: the choice has ended and its page is still to come). `DialogInv`: an answer that is still heard is about the file
  that is shown. `PreviewInv`: what is being loaded is what was chosen last. Theorems
  `StudioScreenIsTrue`, `StudioPreviewFollows` and `SavesChangeWhatWasChosen` (an
  action property).
* `EditorProofs`, of the forms: `FormsInv` has a part for each component. Numbers
  tell requests apart, and a deletion that waits for its refetch has deleted
  (`CallsInv`); each site of each batch deletion is gone, counted as failed, or has a
  request on its way (`BatchInv`); the add dialog hears only answers about the address in its
  field (`AddInv`); the results of a check are those of the targets it has got to
  (`CheckInv`), for any size of its parts. What is deleted stays so (`GoneStay`).
  Theorems `FormsSendWhatTheyShow`, `ToastsAreTrue`, `ChecksAreComplete`.
* `EditorProofs`, of the layout: lemmas about `RemoveAt`, `InsertAt` and `ArrayMove`
  say what sequences have after them, and from them a drop replaces the sites of
  one or two categories, and neither loses a site nor has one twice. `LayoutInv`:
  nothing that was loaded or is being sent is ahead of the draft; a save between its
  two requests that carries the draft's revision has the draft's order; a copy that
  is not saved is shown as such. Theorems `EditorTellsTheTruth`, `DragsRearrange`
  and `HalvesLandTogether` (the last two are action properties), for pages of any
  size.
* `AccountsProofs`: a request that has consumed a code holds it until its session
  is there (`Spent`). That codes log in once becomes inductive with `SpentOnce`
  (two requests never hold one spent code, and no session was opened with it)
  and `SessionsOK` (the code of a session is closed); that resets end sessions
  with `UsersOK` (no reset is ahead of the password). Steps are grouped by what
  they do to a table: `CodesLater`, `SessionsEnd`, `SessionAdded`, `BrowsersGo`.
  Theorems `AdmissionsHold` and `ResetsHold`. For `NobodySeesElses`: after a
  logout what a browser keeps is of nobody, after the next sign-in of nobody or
  of the session's user (`CacheMine`), and so is what a request under way will
  write into it (`RequestMine`); sessions are added and end but never change
  their user.
* `NamesProofs`: a row is added or given a host only if the indexes allow it
  (`AppliedKeeps`, `HostSetKeeps`), every other change of a row claims no name
  (`Revised`). The requests that wait for an answer and those that were served
  are no more than those sent (`CallsOK`, by cardinalities), which bounds the
  table; that the latest request exists (`LatestExists`) is an instance of the
  well-foundedness of `<` on the naturals. Theorems `NamesHold` and
  `DecisionsHold` (an action property).

*Assumptions*: pages are not the system page and each has a default slug
(`PagesAssumption`, `SlugAssumption`); bodies are draft revisions and the
answers are what they publish (`BoundAssumption` of PublishRequest); built-in
themes are no rows of users and at least one is shipped
(`NamesAssumption`, `BuiltinsAssumption`, `QuotaAssumption`); bounds are natural
numbers. Of a draft: ids are naturals, every page has its first category,
limits are positive, and what registration inserts is a name, a title and
settings (`IdsAssumption`, `LimitsAssumption`, `FirstAssumption`); of an import,
that its file is a sequence of sites (`FileAssumption`). Of accounts: who starts
with one is a person, and "nobody" is none (`AccountsAssumption`); of names: labels
that are reviewed are labels, and no custom domain is the absent one
(`NamesAssumption` of Names); of restores: no backup is named like one of the other origins a file can have
(`BackupsAssumption`). Of the client: the page that is opened is a page of the
server, with each site in one category (`RowsAssumption` of LinkForms,
`OpenedPageAssumption` of LayoutEditor), ids tell categories from sites, sites and
addresses are finitely many, a part of a check is not empty (`BoundsAssumption`); the
theme page is opened with a theme that allows several looks, the presets are in its
library, and no theme is called "none" (`ThemeStudioAssumption`). TLC evaluates all
of them in the runs.

The theorems state every property the runs check, except liveness.

*Only model-checked*: liveness (`BusyStatusClears`, `AutoSaveSettles`,
`BatchSettles`, `SuccessIsShown`), which is out of this prover's reach, as is
ENABLED. Fairness plays no part in the safety proofs.

## 5. What the models found

Some statements of comments, documents or types do not hold of the code. They
are defined in their modules but are no part of a run; added to the module's
.cfg as an `INVARIANT` (or, if they begin with `[][`, as a `PROPERTY`), TLC shows
the shortest behaviour that contradicts them. The first five are about the
server and its interface, the other three about the client.

* `UpToDateMeansShown` (Publication): a settings change takes its time before a
  publication and commits after it; the page is then called up to date although
  visitors see the old slug or visibility (`navigation/sqlstore.go:972`).
* `ErrorMeansNotInstalled` (Update): a write fails after the two renames
  (`maintenance/update.go:306-311`): the executable is replaced, `Apply` reports
  an error and no restart is requested, which the comment at
  `httpapi/update.go:129` takes for impossible.
* `PreRestoreSurvives` (Restore): a kill between the two renames of a start
  (`maintenance/backup.go:290`); the next start removes the only copy of the old
  database before the new one was opened. It takes no kill, either: if the rename
  that puts a kept file back fails (`:307` and `:347`, whose errors are dropped), the
  next start removes the kept file. `SurvivesWithReturns` is what is left of it.
* `DisabledIsRemembered` (Themes): uninstalling a theme deletes its disabled
  versions (`themes/install.go:165`), so the same package can be installed again;
  `reclaimTombstones` (`:229-233`) refuses exactly that.
* `LayoutSavesWhatItSaw` (DraftContent, under `DraftSpec`): the client saves a
  layout under the revision of its query cache (`web/src/hooks/useQueries.ts:142-147`);
  if the cache was refetched since the layout was begun, settings changed meanwhile
  on another device are overwritten under a revision that looks current.
* `DropsOnlyWhatItSaved` (LayoutEditor): what is dragged while a save runs is
  dropped when it ends, and the editor says "saved"
  (`web/src/pages/app/links/page.tsx:150`).
* `CategoriesGoWithTheirSites` (LinkForms): the dialog says that deleting a
  category deletes its sites (`links/page.tsx:1319`); the server refuses a category
  that has any.
* `StatusIsKnown` (Names): a revoked request has no entry in `statusMap`
  (`web/src/pages/app/publish/page.tsx:234-239`), so the publish page cannot be
  rendered, and no new application made.

Further observations, of the server:

* `Publish` commits and then reads its result in the request's context
  (`navigation/sqlstore.go:664`); if the client is gone the read fails, the key
  is given back and a retry publishes again, which the comment at
  `httpapi/navigation.go:358` rules out.
* Idempotency: if the DELETE of an abort fails (`idempotency/service.go:121-126`) or
  the answer cannot be stored (`httpapi/navigation.go:373-376`), which is only logged,
  the key is unusable until it expires.
* Restore. A kill in the middle of unpacking (`maintenance/backup.go:592`) leaves
  files the next start applies (`:281`), though the request never succeeded. A failing
  rename is rolled back, but the remaining pending files stay (`:347`) and the next
  start applies just those. A directory sync that fails at the end of staging
  answers an error and leaves files the next start applies (`:620-621`). A plain
  database is staged beside the other pending files of an archive accepted before
  (`:238-243`), which are then applied with it; `removePendingRestore` (`:667-675`)
  ignores errors, so a later archive can be staged over what could not be removed. A
  kill between the two renames of a start, followed by a failed operation or a rejected
  database, makes a later start begin an empty instance. A start that was killed can
  remove the log of the database it then puts back, with the transactions in it
  (`:301-304`).
* Between the two renames of `Apply` (`maintenance/update.go:283-287`) there is
  no executable; a crash there needs an operator, whereas `docs/requirements.md:112`
  speaks of atomic replacement. `SomeBinarySurvives` says what does hold: the
  program or its rollback copy is on disk. `restart-required` outlives the restart
  (`update.go:94-100` leaves the status alone) until the next check. While it waits,
  `Apply` compares with the version that runs (`update.go:241-250`): if the release was
  withdrawn meanwhile, an older one replaces the installed one unseen. `NoDowngrade`
  speaks of the running program only.
* Deleting a background writes back settings it has read before, without
  comparing the revision (`backgrounds/service.go:337-365`); an edit of the
  settings in between is lost. `docs/design-background-media-library.md:42` says
  that only the background is reset. A save under way can refer to the deleted
  background again. Two uploads count the library before either is inserted
  (`:125`), and an object stored without its row stays (`assets/service.go:217`).
* Discover lists by the visibility of the settings and shows the live snapshot
  (`catalog/service.go:220`), so a page published as unlisted appears there as
  soon as its settings say public. `docs/requirements.md:72` promises public
  pages only.
* A page can be created with a slug another page is still live under
  (`auth/sqlstore.go:291`); it cannot be published until that page moves.
  `docs/requirements.md:61` calls slugs unique in the instance.
* Of accounts: a password verified before a reset or a suspension opens a live
  session after it (`auth/service.go:217`; `late` in Accounts). A code is consumed
  before a registration that may fail (`auth/emailcode.go:162`); its attempts are
  compared (`:186`) before they are counted (`auth/sqlstore.go:380-383`), so wrong
  codes sent at once are more than `emailCodeMaxTries`; it may expire between
  being read and being consumed. A second login of a linked identity
  meets a query with two FROM clauses (`auth/sqlstore.go:417-422`). Times of
  sessions are compared as text of RFC 3339 with fractions of varying length.
* The latest request of a user is the one with the latest time, which is taken
  before the transaction.

Further observations, of the client:

* Imports: only those sites of a file are offered that are not on the page
  (`web/src/pages/app/import-export/page.tsx:50`, `:80`), in `replace` mode too,
  which deletes every site first (`dataexchange/service.go:370-380`): a site both on
  the page and in the file is gone afterwards. The preview of a file can arrive
  after another was chosen. After a lost answer a changed choice meets "key used"
  though the import is there; a stale commit never refetches.
* Fetches: a success invalidates, and if the fetch fails with its one retry the cache
  stays as it was and nothing fetches again until a page is mounted, a button is used
  or another request succeeds. The page's own screens show an error then, but header
  and banner, and the status of a subdomain, go on showing what was before.
* Publishing: saving the settings form stores the page's title, which it shows where
  the SEO title is empty, as the SEO title. A stale publish is answered with 412 (`httpapi/navigation.go:443-444`),
  but `handlePublishError` (`publish-actions.ts:39`) refetches on 409 only. The five
  surfaces know nothing of each other and can publish one draft twice. Publication
  settings carry no revision: saves of two devices overwrite each other, and a
  publish puts settings on the air that were changed elsewhere; a refetch resets a
  form that is being typed into. The preview page has a cache entry of its own which
  an edit does not refetch, though it says it renders what will be published.
* Invalidation: `usePublish` and `useUnpublish` leave the publication entry alone,
  `useUpdatePublication` the public page, theme administration the user's themes, a
  catalog request the administrator's list; categories and sites are never
  invalidated. A module-level promise (`web/src/api/navigation.ts:180`) hands a page
  that is being loaded to another scope, or to the next user.
* Link editor: no provider of the save status is mounted, so failures are silent;
  a save that succeeds drops what was dragged or chosen during it, leaving the page
  the last 450 ms. The panel forgets typed text on a refetch or a failed save; a late
  success closes the panel of another row. Of a batch only the last call's callbacks
  run, the selection keeps deleted sites, a batch that ends clears also what was selected
  meanwhile, and switching many sites is not cut to the
  server's limit of 200 as checking is.
* Themes: a slow upload saves the settings it began with under the revision of its
  end, so a theme chosen meanwhile is undone; a deletion under way undoes it, too. If
  the answer to the choice is late, its theme stays marked as active, although the
  page that undid it has come: the effect that marks the page's theme
  (`themes/page.tsx:175`) runs only when the settings change. Of two choices the late
  answer marks the wrong theme; a failed save leaves the pending background shown. Any
  deletion that ends enables the buttons of the others. A file chosen during an import
  is dropped when it succeeds. A
  package upgrades the theme it names, not the one whose button was used.
* Accounts: the cache has no user in its keys and only a logout clears it, so after a
  sign-in over an ended session the last user's page can be shown until it is
  fetched, and another tab keeps it. A session fetch that is under way at a sign-in
  can overwrite its result; a lost answer to a login leaves a session nobody holds.
  The settings page accepts passwords of 8 characters, the server of 12.
* Subdomains: a refused cancellation refetches nothing, so the page keeps offering
  it.

## 6. What is not modelled

* Within the modelled components: icons and descriptions, parsing of import files
  and the export, creating backups,
  restore tokens beyond deciding whether staging begins, update settings and the
  maintenance window, manifest verification, metadata and assets of themes, and
  aliases of old theme identifiers; of accounts the bootstrap of the first
  administrator, profiles and the expiry of sessions; of subdomains reserved labels,
  the policy switch and routing by host; of the client the search, focus and layout
  of its pages.
* OAuth logins need an external provider; what the server adds to them is one
  registration or login, as in Accounts.
* The login throttle and the rate limits (`auth/throttle.go`,
  `httpapi/rate_limit.go:90`) are counters over windows of real time. Time is an
  order of timestamps here, never a duration: expiry and timeouts are steps that
  may happen at any time, and under that reading a throttle promises nothing.
* Analytics inserts events and visitors and deletes them by age
  (`analytics/service.go:186`: two inserts outside a transaction); no other
  component reads them.
* Discovery, SEO, rendering, the theme compiler and the remaining administration
  are queries, formatting, or single rows; integrations, link checks and previews
  are calls of other servers, of which only the client's side has an order worth
  modelling (LinkForms). The HTTP handlers decode and call one service. The mock API
  of development is no part of the program.
* The note of each component in PROJECT.json says what of it is left out.

## 7. Plan

1. Done: `Publication`, `PublishRequest`, `Update`, `Restore`, `Themes`,
   `DraftContent` and `DataExchange` of the server; `Accounts` and `Names`, which
   reach from the server's tables to the browser; `LayoutEditor`, `LinkForms`,
   `Workspace` and `ThemeStudio` of the client.
2. Modules left: `OAuthLogin` (states, linking, the second login of a linked
   identity), `BackgroundLibrary` (the limits of migration 0007, files and rows),
   `Throttle` (its table at the limit), `Analytics`.
3. Proofs: every safety property of a run is proved. Left are those of the modules of
   item 2, and a composition of the client modules with the server's: that
   `Workspace`, `LinkForms` and `ThemeStudio` each act on the draft as
   `DraftContent` allows would be a refinement, as `Publication` is one of
   `PublicSite`.
