---------------------------- MODULE ThemeStudio ----------------------------
(***************************************************************************)
(* The theme page of the web client (web/src/pages/app/themes): choosing a *)
(* theme and a background for the draft, the library of uploaded           *)
(* backgrounds, the preview with its style sheets (web/src/themes), and    *)
(* the dialog that imports a theme; with the server's answers              *)
(* (internal/navigation, internal/backgrounds).                            *)
(*                                                                         *)
(* Every handler sends the whole settings as it saw them when it started,  *)
(* with the revision the page has when they are sent: for an upload that   *)
(* can be minutes later.  A deletion reads a draft, clears the background  *)
(* and writes it back without a transaction.  Another device edits too.    *)
(*                                                                         *)
(* When the page cannot be fetched again, an error is shown in its place   *)
(* until it can be: the preview and the dialog are unmounted, while the    *)
(* handlers that were started go on.                                       *)
(***************************************************************************)
EXTENDS Naturals, Sequences, FiniteSets

CONSTANTS
  ThemeIds,    \* the themes that can be chosen
  OneLook,     \* those that allow one look only
  Initial,     \* the theme of the draft when the page is opened
  Media,       \* backgrounds: in the library, or uploaded later
  None, Url,   \* no background; a background by its address
  Library,     \* the backgrounds of the library when the page is opened
  Presets,     \* those of them that an administrator put there for everybody
  Limit,       \* MAX_USER_LIBRARY
  Files,       \* theme packages
  GoodFiles,   \* those the validation finds valid
  NoFile,
  MaxActs      \* bound: handlers of the page that were started, and acts of another device

ASSUME ThemeStudioAssumption ==
  /\ OneLook \subseteq ThemeIds /\ Initial \in ThemeIds \ OneLook
  /\ Presets \subseteq Library /\ Library \subseteq Media /\ Media \cap {None, Url} = {} /\ None # Url
  /\ GoodFiles \subseteq Files /\ NoFile \notin Files /\ "none" \notin ThemeIds
  /\ Limit \in Nat /\ MaxActs \in Nat

Looks == {"default", "other"}   \* template, density, columns and the style of categories
Backgrounds == Media \cup {None, Url}
Settings == [theme : ThemeIds, background : Backgrounds, look : Looks]
Idle == <<>>
Sent == <<"sent">>

VARIABLES
  draft,    \* server: revision and settings of the draft
  shelf,    \* server: background_media, the presets and this user's own
  page,     \* cache: ['navigation', 'page', scope]
  reading,  \* its fetch: Idle, Sent, or <<"read", the page read>>
  isError,  \* the last fetch failed, and an error is shown in place of the page
  activeId, \* the theme marked as active
  pendingId, \* the choice that is shown before it is saved, or "none"
  overlaid, \* history: a theme was chosen while another choice, an upload or a deletion was under way
  bg,       \* the background of bgConfig
  mine,     \* the library as the page knows it: presets and mine
  deletingId, \* the background whose button is disabled
  refreshing, \* a deletion has ended, and its handler waits for the page
  tasks,    \* handlers that have not ended, and deletions of another device
  begun,    \* bound: handlers so far
  others,   \* bound: acts of another device so far
  sheet,    \* the registry's state of the preview
  dialog    \* the import dialog: file, validation, validating, submitting

serverVars == <<draft, shelf>>
cacheVars == <<page, reading, isError>>
choiceVars == <<activeId, pendingId, overlaid>>
deletionVars == <<deletingId, refreshing>>
localVars == <<choiceVars, bg, mine, deletionVars>>
bounds == <<begun, others>>
studioVars == <<serverVars, cacheVars, localVars, tasks, bounds, sheet, dialog>>

-----------------------------------------------------------------------------
(* The registry: one style sheet is applied, one may be loading, and those *)
(* that were superseded while loading may still report                     *)

Registry == [applied : ThemeIds \cup {"none"}, loading : ThemeIds \cup {"none"},
             superseded : SUBSET ThemeIds, failed : BOOLEAN]

\* abandonPending: its link leaves the document.
Abandoned(s) ==
  IF s.loading = "none" THEN s.superseded ELSE s.superseded \cup {s.loading}

\* activate: what is applied already needs no loading, but supersedes.
Activated(s, id) ==
  [s EXCEPT !.superseded = Abandoned(s), !.failed = FALSE,
            !.loading = IF s.applied = id THEN "none" ELSE id]

\* deactivate, when the container of the preview is unmounted.
Deactivated(s) ==
  [s EXCEPT !.superseded = Abandoned(s), !.loading = "none", !.applied = "none", !.failed = FALSE]

\* finish: applied once loaded; failed, or after 5 seconds, the old one stays.
Finished(s, loaded) ==
  [s EXCEPT !.loading = "none", !.failed = ~loaded,
            !.applied = IF loaded THEN s.loading ELSE s.applied]

\* Mutant: a callback that is late is not discarded.
LateApplied(s, id) == [s EXCEPT !.superseded = @ \ {id}, !.applied = id]

\* Another switch has another link and another number.
Late(s, id) == [s EXCEPT !.superseded = @ \ {id}]

\* The effects that activate what the preview is to show, in a container that
\* is there unless the error is.
PreviewId == IF pendingId = "none" THEN activeId ELSE pendingId

Preview ==
  sheet' = IF isError' THEN Deactivated(sheet)
           ELSE IF isError \/ PreviewId' # PreviewId THEN Activated(sheet, PreviewId') ELSE sheet

-----------------------------------------------------------------------------
(* Handlers of the page                                                    *)

Task(op) == {c \in tasks : c.op = op}

Start(task) ==
  /\ ~isError /\ begun + others < MaxActs /\ begun' = begun + 1
  /\ tasks' = tasks \cup {[task EXCEPT !.id = begun']}
  /\ UNCHANGED <<serverVars, cacheVars, mine, others>>

\* Two choices, or a choice and a handler that may write settings older than it.
Overlaid(ops) == overlaid' = (overlaid \/ \E c \in tasks : c.op \in ops)

\* A handler with the settings as it sees them, the revision its request
\* carries, and what a deletion has read.
Handler(op, stage, want) ==
  [id |-> 0, op |-> op, stage |-> stage, want |-> want,
   base |-> page.settings, revision |-> page.revision, answer |-> "none"]

\* applyThemeLayout: what the theme does not allow becomes its default.
Fitted(theme, look) == IF theme \in OneLook THEN "default" ELSE look

\* What a handler sends: the settings it saw with one thing changed.
Body(c) ==
  IF c.op = "theme"
    THEN [c.base EXCEPT !.theme = c.want, !.look = Fitted(c.want, c.base.look)]
    ELSE [c.base EXCEPT !.background = c.want]

\* A card is disabled while it is the one that is pending.
HandleActivate(id) ==
  /\ id # activeId /\ id # pendingId
  /\ Start(Handler("theme", "save", id))
  /\ pendingId' = id
  /\ Overlaid({"theme", "upload", "delete"})
  /\ Preview
  /\ UNCHANGED <<activeId, bg, deletionVars, dialog>>

\* applyMedia, handleRemoveBg, handleSaveUrl: shown before it is saved.
ApplyBackground(media) ==
  /\ Start(Handler("background", "save", media))
  /\ bg' = media
  /\ UNCHANGED <<choiceVars, deletionVars, sheet, dialog>>

\* A tile of the library, or an address.
HandleChooseBg(media) == media \in mine \cup {Url} /\ ApplyBackground(media)

\* The button lies over the background that is shown.
HandleRemoveBg == bg # None /\ ApplyBackground(None)

\* handleOpacityCommit saves what is shown, whether or not that was saved.
CommitOpacity ==
  /\ bg # None
  /\ Start(Handler("background", "save", bg))
  /\ UNCHANGED <<choiceVars, bg, deletionVars, sheet, dialog>>

\* One upload at a time, and no more than the library holds.
HandleUploadMine(media) ==
  /\ Task("upload") = {} /\ Cardinality(mine \ Presets) < Limit
  /\ media \in Media \ (shelf \cup Library) /\ ~ \E c \in tasks : c.want = media
  /\ Start(Handler("upload", "upload", media))
  /\ Overlaid({"theme"})
  /\ UNCHANGED <<activeId, pendingId, bg, deletionVars, sheet, dialog>>

\* Only the button of the last deletion is disabled, and until any has ended.
HandleDeleteMedia(media) ==
  /\ media \in mine \ Presets /\ deletingId # media
  /\ Start(Handler("delete", "scan", media))
  /\ deletingId' = media
  /\ Overlaid({"theme"})
  /\ UNCHANGED <<activeId, pendingId, bg, refreshing, sheet, dialog>>

-----------------------------------------------------------------------------
(* The server                                                              *)

With(c, d) == tasks' = (tasks \ {c}) \cup {d}
Answered(c, answer) == With(c, [c EXCEPT !.answer = answer])

Served ==
  UNCHANGED <<cacheVars, localVars, bounds, sheet, dialog>>

\* Refused or lost; whether it is what the server refuses or the network
\* loses, the page is told that it failed.
Fail(c) ==
  /\ c.id # 0 /\ c.answer = "none" /\ c.stage \in {"save", "upload", "scan", "drop", "check"}
  /\ Answered(c, "failed")
  /\ UNCHANGED serverVars /\ Served

\* Mutant: the revision is not compared.
CurrentOnAnyRevision(c) == TRUE

Current(c) == c.revision = draft.revision

\* applyLayoutClamp: the server allows no more of a theme than the client does.
Clamped(settings) == [settings EXCEPT !.look = Fitted(settings.theme, @)]

\* ReplaceSettings; the answer may be lost.
ServeSave(c) ==
  /\ c.stage = "save" /\ c.answer = "none" /\ Current(c)
  /\ draft' = [revision |-> draft.revision + 1, settings |-> Clamped(Body(c))]
  /\ \E answer \in {"ok", "failed"} : Answered(c, answer)
  /\ UNCHANGED shelf /\ Served

\* UploadMine
ServeUpload(c) ==
  /\ c.stage = "upload" /\ c.answer = "none" /\ Cardinality(shelf \ Presets) < Limit
  /\ shelf' = shelf \cup {c.want}
  /\ \E answer \in {"ok", "failed"} : Answered(c, answer)
  /\ UNCHANGED draft /\ Served

\* Delete in its three statements: the draft is read, written back without the
\* background if it had this one, and the row is deleted; also when the first
\* two fail, which is only logged.
Scan(c) ==
  /\ c.op = "delete" /\ c.stage = "scan" /\ c.answer = "none" /\ c.want \in shelf
  /\ \E stage \in {"drop"} \cup (IF draft.settings.background = c.want THEN {"clear"} ELSE {}) :
       With(c, [c EXCEPT !.stage = stage, !.base = draft.settings])
  /\ UNCHANGED serverVars /\ Served

Clear(c) ==
  /\ c.stage = "clear"
  /\ draft' = [revision |-> draft.revision + 1, settings |-> [c.base EXCEPT !.background = None]]
  /\ With(c, [c EXCEPT !.stage = "drop"])
  /\ UNCHANGED shelf /\ Served

Drop(c) ==
  /\ c.stage = "drop" /\ c.answer = "none"
  /\ shelf' = shelf \ {c.want}
  /\ IF c.id = 0 THEN tasks' = tasks \ {c}
     ELSE \E answer \in {"ok", "failed"} : Answered(c, answer)
  /\ UNCHANGED draft /\ Served

-----------------------------------------------------------------------------
(* Another device                                                          *)

Other ==
  /\ begun + others < MaxActs /\ others' = others + 1
  /\ UNCHANGED <<cacheVars, localVars, begun, sheet, dialog, shelf>>

SettingsElsewhere ==
  /\ Other
  /\ \E settings \in [theme : ThemeIds, background : {draft.settings.background}, look : Looks] :
       /\ settings # draft.settings /\ settings = Clamped(settings)
       /\ draft' = [revision |-> draft.revision + 1, settings |-> settings]
  /\ UNCHANGED tasks

\* One's own background by another device, or a preset by an administrator
\* (handleDeletePreset): nothing tells this page.
DeleteElsewhere(media) ==
  /\ Other
  /\ media \in shelf /\ ~ \E c \in Task("delete") : c.id = 0
  /\ tasks' = tasks \cup {Handler("delete", "scan", media)}
  /\ UNCHANGED draft

-----------------------------------------------------------------------------
(* The state of the import dialog                                          *)

\* The dialog as it is mounted, and as a success leaves it.
Blank == [file |-> NoFile, validation |-> "none", validating |-> FALSE, submitting |-> FALSE]

\* Answers that come to a dialog that no longer listens to them.
Unheard(ops) == {[c EXCEPT !.answer = IF c.op \in ops THEN "aborted" ELSE @] : c \in tasks}

\* Only the last validation is listened to: the others were aborted.
Aborted == Unheard({"check"})

-----------------------------------------------------------------------------
(* Answers                                                                 *)

\* A handler goes on when the page was fetched again after its save.
Waiting == {c \in tasks : c.stage = "refetch"}
Chosen == {c.want : c \in {c \in Waiting : c.op = "theme"}}

\* handleActivate after its save: the choice is the active one, and nothing is
\* pending, even if another choice is.
Continued(id) == activeId' = id /\ pendingId' = "none"

Resumed == IF Chosen = {} THEN UNCHANGED <<activeId, pendingId>> ELSE \E id \in Chosen : Continued(id)

\* handleDeleteMedia in the end: no button is disabled any more, whichever it was.
DeletionResumed(waits) ==
  /\ deletingId' = IF refreshing THEN None ELSE deletingId
  /\ refreshing' = waits

\* invalidateQueries and refetch: a fetch under way is started anew, which lets
\* the handlers go on that were waiting for it.
Refetched == reading' = Sent /\ Resumed /\ UNCHANGED isError

SaveSucceeded(c) ==
  /\ c.stage = "save" /\ c.answer = "ok"
  /\ Refetched /\ DeletionResumed(FALSE)
  /\ tasks' = (tasks \ ({c} \cup Waiting)) \cup {[c EXCEPT !.stage = "refetch"]}
  /\ Preview
  /\ UNCHANGED <<serverVars, page, overlaid, bg, mine, bounds, dialog>>

\* Mutant: the choice becomes the active one although its save failed.
FailedActivating(c) == Continued(c.want)

\* The previous theme is shown again, the previous background is not.
Failed(c) == activeId' = activeId /\ pendingId' = "none"

SaveFailed(c) ==
  /\ c.stage = "save" /\ c.answer = "failed"
  /\ tasks' = tasks \ {c}
  /\ IF c.op = "theme" THEN Failed(c) ELSE UNCHANGED <<activeId, pendingId>>
  /\ UNCHANGED <<serverVars, cacheVars, overlaid, bg, mine, deletionVars, bounds, dialog>>
  /\ Preview

\* handleUploadMine after the upload: the new background is applied with the
\* settings of the moment the upload started and the revision of this one.
UploadEnded(c) ==
  /\ c.stage = "upload" /\ c.answer # "none"
  /\ IF c.answer = "ok"
       THEN /\ mine' = mine \cup {c.want} /\ bg' = c.want
            /\ With(c, [c EXCEPT !.stage = "save", !.answer = "none", !.revision = page.revision])
       ELSE /\ tasks' = tasks \ {c} /\ UNCHANGED <<mine, bg>>
  /\ UNCHANGED <<serverVars, cacheVars, choiceVars, deletionVars, bounds, sheet, dialog>>

\* handleDeleteMedia after the deletion.
DeleteEnded(c) ==
  /\ c.op = "delete" /\ c.id # 0 /\ c.answer # "none"
  /\ IF c.answer = "ok"
       THEN /\ Refetched /\ DeletionResumed(TRUE)
            /\ tasks' = tasks \ ({c} \cup Waiting)
            /\ mine' = mine \ {c.want}
            /\ bg' = IF bg = c.want THEN None ELSE bg
       ELSE /\ tasks' = tasks \ {c}
            /\ deletingId' = None
            /\ UNCHANGED <<activeId, pendingId, mine, reading, isError, bg, refreshing>>
  /\ Preview
  /\ UNCHANGED <<serverVars, page, overlaid, bounds, dialog>>

PageRead ==
  /\ reading = Sent /\ reading' = <<"read", draft>>
  /\ UNCHANGED <<serverVars, page, isError, localVars, tasks, bounds, sheet, dialog>>

\* The handlers that waited go on; then the page is rendered, and if its
\* settings are not those it had (structural sharing keeps equal ones), the
\* effect takes theme and background from it.
Synced(old, new) ==
  /\ pendingId' = IF Chosen = {} THEN pendingId ELSE "none"
  /\ IF old.settings # new.settings
       THEN activeId' = new.settings.theme /\ bg' = new.settings.background
       ELSE activeId' \in (IF Chosen = {} THEN {activeId} ELSE Chosen) /\ bg' = bg

PageArrives ==
  /\ Len(reading) = 2
  /\ page' = reading[2] /\ reading' = Idle /\ isError' = FALSE
  /\ Synced(page, page') /\ DeletionResumed(FALSE)
  /\ tasks' = tasks \ Waiting
  /\ Preview
  /\ UNCHANGED <<serverVars, overlaid, mine, bounds, dialog>>

\* Neither the fetch nor its retry succeeds: the page that was there stays, an
\* error is shown in its place, and the handlers that waited go on.
PageFails ==
  /\ reading # Idle
  /\ reading' = Idle /\ isError' = TRUE
  /\ Resumed /\ DeletionResumed(FALSE)
  /\ tasks' = Unheard({"check", "import"}) \ Waiting
  /\ dialog' = Blank
  /\ Preview
  /\ UNCHANGED <<serverVars, page, overlaid, bg, mine, bounds>>

\* The button of the error.
Retry ==
  /\ isError
  /\ Refetched /\ DeletionResumed(FALSE)
  /\ tasks' = tasks \ Waiting
  /\ Preview
  /\ UNCHANGED <<serverVars, page, overlaid, bg, mine, bounds, dialog>>

\* The style sheet that is loading was loaded, failed or took 5 seconds.
SheetEnds(loaded) ==
  /\ sheet.loading # "none"
  /\ sheet' = Finished(sheet, loaded)
  /\ UNCHANGED <<serverVars, cacheVars, localVars, tasks, bounds, dialog>>

SheetIsLate(id) ==
  /\ id \in sheet.superseded
  /\ sheet' = Late(sheet, id)
  /\ UNCHANGED <<serverVars, cacheVars, localVars, tasks, bounds, dialog>>

-----------------------------------------------------------------------------
(* The import dialog                                                       *)

\* handleZipChosen and runValidate, also while an import is under way; no file
\* starts and aborts nothing.
ChooseFile(file) ==
  /\ ~isError /\ file # dialog.file
  /\ IF file = NoFile
       THEN /\ dialog' = [file |-> NoFile, validation |-> "none",
                          validating |-> dialog.validating, submitting |-> dialog.submitting]
            /\ UNCHANGED <<serverVars, cacheVars, mine, bounds, tasks>>
       ELSE /\ begun + others < MaxActs /\ begun' = begun + 1
            /\ tasks' = Aborted \cup {[Handler("check", "check", file) EXCEPT !.id = begun']}
            /\ dialog' = [file |-> file, validation |-> "none",
                          validating |-> TRUE, submitting |-> dialog.submitting]
            /\ UNCHANGED <<serverVars, cacheVars, mine, others>>
  /\ UNCHANGED <<choiceVars, bg, deletionVars, sheet>>

Heard(c) == c.answer # "aborted"

\* The verdict of the server, or a failure, which is shown as one.
Validated(c) ==
  /\ c.op = "check"
  /\ tasks' = tasks \ {c}
  /\ dialog' = IF ~Heard(c) THEN dialog
               ELSE [file |-> dialog.file, validating |-> FALSE, submitting |-> dialog.submitting,
                     validation |-> IF c.want \in GoodFiles /\ c.answer # "failed"
                                      THEN "valid" ELSE "invalid"]
  /\ UNCHANGED <<serverVars, cacheVars, localVars, bounds, sheet>>

CanSubmit == dialog.file # NoFile /\ dialog.validation = "valid" /\ ~dialog.validating

HandleSubmit ==
  /\ ~dialog.submitting /\ CanSubmit
  /\ Start(Handler("import", "check", dialog.file))
  /\ dialog' = [file |-> dialog.file, validation |-> dialog.validation,
                validating |-> dialog.validating, submitting |-> TRUE]
  /\ UNCHANGED <<choiceVars, bg, deletionVars, sheet>>

\* A success resets the dialog, which another file was perhaps chosen in; a
\* dialog that was unmounted meanwhile is another one now.
Imported(c) == Heard(c) /\ c.answer = "none" /\ dialog' = Blank /\ tasks' = Aborted \ {c}

NotImported(c) ==
  /\ Heard(c) /\ c.answer = "failed" /\ tasks' = tasks \ {c}
  /\ dialog' = [file |-> dialog.file, validation |-> dialog.validation,
                validating |-> dialog.validating, submitting |-> FALSE]

SubmitEnded(c) ==
  /\ c.op = "import"
  /\ \/ Imported(c) \/ NotImported(c)
     \/ ~Heard(c) /\ dialog' = dialog /\ tasks' = tasks \ {c}
  /\ UNCHANGED <<serverVars, cacheVars, localVars, bounds, sheet>>

\* Not while an import is under way.
HandleClose ==
  /\ ~dialog.submitting /\ dialog # Blank
  /\ dialog' = Blank
  /\ tasks' = Aborted
  /\ UNCHANGED <<serverVars, cacheVars, localVars, bounds, sheet>>

-----------------------------------------------------------------------------
(* The system                                                              *)

StudioInit ==
  /\ draft = [revision |-> 1, settings |-> [theme |-> Initial, background |-> None, look |-> "other"]]
  /\ shelf = Library /\ mine = Library
  /\ page = draft /\ reading = Idle /\ isError = FALSE
  /\ activeId = Initial /\ pendingId = "none" /\ bg = None
  /\ deletingId = None /\ refreshing = FALSE
  /\ overlaid = FALSE /\ tasks = {} /\ begun = 0 /\ others = 0
  /\ sheet = Activated([applied |-> "none", loading |-> "none", superseded |-> {}, failed |-> FALSE], Initial)
  /\ dialog = Blank

ThemeSteps ==
  \/ \E id \in ThemeIds : HandleActivate(id) \/ SheetIsLate(id)
  \/ \E loaded \in BOOLEAN : SheetEnds(loaded)

LibrarySteps ==
  \/ \E media \in Backgrounds : HandleChooseBg(media)
  \/ \E media \in Media : HandleUploadMine(media) \/ HandleDeleteMedia(media)
  \/ HandleRemoveBg \/ CommitOpacity

DialogSteps ==
  \/ \E file \in Files \cup {NoFile} : ChooseFile(file)
  \/ HandleSubmit \/ HandleClose

Executed(c) == ServeSave(c) \/ ServeUpload(c) \/ Scan(c) \/ Clear(c) \/ Drop(c)

Ended(c) ==
  \/ SaveSucceeded(c) \/ SaveFailed(c) \/ UploadEnded(c) \/ DeleteEnded(c)
  \/ Validated(c) \/ SubmitEnded(c)

OtherSteps ==
  \/ SettingsElsewhere
  \/ \E media \in Media : DeleteElsewhere(media)

StudioNext ==
  \/ ThemeSteps \/ LibrarySteps \/ DialogSteps \/ OtherSteps
  \/ \E c \in tasks : Executed(c) \/ Fail(c) \/ Ended(c)
  \/ PageRead \/ PageArrives \/ PageFails \/ Retry

StudioSpec == StudioInit /\ [][StudioNext]_studioVars

-----------------------------------------------------------------------------
(* Properties                                                              *)

\* The shape of the state.
StudioTypeOK ==
  /\ draft \in [revision : Nat \ {0}, settings : Settings]
  /\ page \in [revision : 1..draft.revision, settings : Settings]
  /\ shelf \subseteq Media /\ mine \subseteq Media
  /\ activeId \in ThemeIds /\ overlaid \in BOOLEAN /\ pendingId \in ThemeIds \cup {"none"} /\ bg \in Backgrounds
  /\ sheet \in Registry
  /\ dialog \in [file : Files \cup {NoFile}, validation : {"none", "valid", "invalid"},
                validating : BOOLEAN, submitting : BOOLEAN]
  /\ isError \in BOOLEAN /\ deletingId \in Media \cup {None} /\ refreshing \in BOOLEAN
  /\ begun \in Nat /\ others \in Nat /\ begun + others <= MaxActs

\* A save changes of the draft what the user changed, and nothing that another
\* device or another handler changed meanwhile: its settings are as old as its
\* revision.  After an upload that is not so, and that save is left out.
SavesKeepTheRest ==
  [][\A c \in tasks :
       c.stage = "save" /\ c.op # "upload" /\ draft' # draft
         /\ (\E d \in tasks' : d.id = c.id /\ d.stage = "save" /\ d.answer # c.answer)
       => IF c.op = "background"
            THEN draft'.settings = [draft.settings EXCEPT !.background = c.want]
            ELSE /\ draft'.settings.background = draft.settings.background
                 /\ draft'.settings.look = Fitted(c.want, draft.settings.look)]_studioVars

\* While the page is shown and no fetch is under way the theme marked active is the one of the draft
\* on the page, however choices end and whatever backgrounds are saved and pages
\* fetched meanwhile.  Not so once a theme was chosen while another choice, an
\* upload or a deletion was under way: a late answer marks its theme, though the
\* other has taken the draft back and the page came with it already.
ActiveIsTheDrafts ==
  others = 0 /\ ~overlaid /\ ~isError /\ reading = Idle => activeId = page.settings.theme

\* The preview comes to show what was chosen last: a sheet that was superseded
\* is never applied, and only a failed one leaves the old theme in place.  The
\* preview that is unmounted for an error is shown anew, not as it was.
PreviewFollows ==
  /\ ~isError /\ sheet.loading = "none" => sheet.applied = PreviewId \/ sheet.failed
  /\ isError => sheet.loading = "none" /\ sheet.applied = "none"

\* Only a file that was found valid can be sent for import, in whatever order
\* files are chosen and the answers about them arrive.
ImportsAreValid ==
  /\ CanSubmit => dialog.file \in GoodFiles
  /\ \A c \in Task("import") : c.want \in GoodFiles

\* What the page marks as active and offers to import is so.
ScreenIsTrue == StudioTypeOK /\ ActiveIsTheDrafts /\ ImportsAreValid
=============================================================================
