---------------------------- MODULE Publication ----------------------------
(***************************************************************************)
(* Publishing of navigation pages: the settings a page is published under, *)
(* its immutable snapshots, the pointer to the live one, and the readers   *)
(* of the public site (internal/navigation, with the rows registration and *)
(* administration write in the same tables).                               *)
(*                                                                         *)
(* A request is served in two steps.  The service validates its input and  *)
(* takes the time before the database is involved; the store then runs one *)
(* SQLite transaction.  Two requests may be between these steps at once,   *)
(* so transactions need not commit in the order of their timestamps.       *)
(***************************************************************************)
EXTENDS Integers, Sequences, FiniteSets

CONSTANTS
  Personal,      \* personal pages, each with an owner of its own
  System,        \* the page of the instance itself
  Slugs,         \* slugs in their normal, lower-case form
  DefaultSlug,   \* slug a page is created with
  Clients,       \* browser sessions with at most one request under way each
  MaxRequests,   \* bound: requests the model explores
  MaxRevision    \* bound: draft edits per page the model explores

Pages == Personal \cup {System}

ASSUME PagesAssumption == System \notin Personal
ASSUME SlugAssumption == DefaultSlug \in [Pages -> Slugs] /\ "none" \notin Slugs
ASSUME BoundAssumption == MaxRequests \in Nat /\ MaxRevision \in Nat

VARIABLES
  created,       \* pages that exist
  draftRevision, \* navigation_pages.draft_revision
  settings,      \* page_publications: visibility, slug, updated_at
  current,       \* page_publications.current_snapshot_id, NoSnapshot for NULL
  snapshots,     \* published_snapshots in the order they were inserted
  suspended,     \* personal pages whose owner is disabled
  clock,         \* the last time a service has read
  inflight       \* inflight[c]: the request of c that waits for the database

vars == <<created, draftRevision, settings, current, snapshots, suspended,
          clock, inflight>>

-----------------------------------------------------------------------------
(* Data *)

Visibilities == {"private", "unlisted", "public"}

NoSnapshot == 0

Settings == [visibility : Visibilities, slug : Slugs, updatedAt : Nat]

Snapshots == [page : Pages, revision : Nat, slug : Slugs,
              visibility : Visibilities \ {"private"}, publishedAt : Nat]

Idle == [op |-> "idle"]

ReplaceRequests == [op : {"replace"}, page : Pages, now : Nat,
                    visibility : Visibilities, slug : Slugs]

PublishRequests == [op : {"publish"}, page : Pages, now : Nat, expected : Nat]

PlainRequests == [op : {"unpublish", "feature"}, page : Pages, now : Nat]

Requests == {Idle} \cup ReplaceRequests \cup PublishRequests \cup PlainRequests

Live(p) == current[p] # NoSnapshot

LiveSnapshot(p) == snapshots[current[p]]

-----------------------------------------------------------------------------
(* Initial state: the migrations create the system page, private.  Rows of  *)
(* pages that do not exist yet hold what registration will put there.       *)

Init ==
  /\ created = {System}
  /\ draftRevision = [p \in Pages |-> 0]
  /\ settings = [p \in Pages |->
                   [visibility |-> IF p = System THEN "private" ELSE "unlisted",
                    slug |-> DefaultSlug[p], updatedAt |-> 0]]
  /\ current = [p \in Pages |-> NoSnapshot]
  /\ snapshots = << >>
  /\ suspended = {}
  /\ clock = 0
  /\ inflight = [c \in Clients |-> Idle]

-----------------------------------------------------------------------------
(* Registration and administration *)

\* UNIQUE(slug) of page_publications.
SlugTaken(p, s) == \E q \in created \ {p} : settings[q].slug = s

\* Registration inserts the page row; only the slugs of settings are unique
\* in the schema, the slugs of live snapshots are not consulted.
Register(p) ==
  /\ p \notin created
  /\ ~SlugTaken(p, DefaultSlug[p])
  /\ created' = created \cup {p}
  /\ settings' = [settings EXCEPT ![p].updatedAt = clock]
  /\ UNCHANGED <<draftRevision, current, snapshots, suspended, clock, inflight>>

\* Every edit of a draft advances its revision in the edit's transaction.
EditDraft(p) ==
  /\ p \in created
  /\ draftRevision[p] < MaxRevision
  /\ draftRevision' = [draftRevision EXCEPT ![p] = @ + 1]
  /\ UNCHANGED <<created, settings, current, snapshots, suspended, clock, inflight>>

SetUserStatus(p) ==
  /\ p \in created \cap Personal
  /\ suspended' = IF p \in suspended THEN suspended \ {p} ELSE suspended \cup {p}
  /\ UNCHANGED <<created, draftRevision, settings, current, snapshots, clock, inflight>>

-----------------------------------------------------------------------------
(* Requests: the service accepts input and reads the clock *)

Accept(c, request) ==
  /\ inflight[c] = Idle
  /\ clock < MaxRequests
  /\ clock' = clock + 1
  /\ inflight' = [inflight EXCEPT ![c] = request]
  /\ UNCHANGED <<created, draftRevision, settings, current, snapshots, suspended>>

\* A disabled owner has no session left, so only active owners start requests.
MayRequest(p) == p \in created \ suspended

StartReplace(c, p, v, s) ==
  /\ MayRequest(p)
  /\ Accept(c, [op |-> "replace", page |-> p, now |-> clock + 1,
                visibility |-> v, slug |-> s])

\* The client sends the revision it last saw, which may be stale by now.
StartPublish(c, p, expected) ==
  /\ MayRequest(p)
  /\ expected <= draftRevision[p]
  /\ Accept(c, [op |-> "publish", page |-> p, now |-> clock + 1,
                expected |-> expected])

StartUnpublish(c, p) ==
  /\ MayRequest(p)
  /\ Accept(c, [op |-> "unpublish", page |-> p, now |-> clock + 1])

\* An administrator curates the discover entry of a page.
StartFeature(c, p) ==
  /\ p \in created
  /\ Accept(c, [op |-> "feature", page |-> p, now |-> clock + 1])

-----------------------------------------------------------------------------
(* Requests: the store's transaction *)

\* Mutant: the slugs of live snapshots are not consulted.
AnySlugAvailable(p, s) == TRUE

\* ensurePublishedSlugAvailable: no other page is live under the slug.
PublishedSlugAvailable(p, s) ==
  \A q \in created \ {p} : Live(q) => LiveSnapshot(q).slug # s

\* Mutant: going private leaves the live snapshot in place.
PointerKept(p, visibility) == current[p]

\* Mutant: a visible page shows its last snapshot again.
PointerRestored(p, visibility) ==
  LET own == {i \in 1 .. Len(snapshots) : snapshots[i].page = p} IN
  IF visibility = "private" \/ own = {} THEN NoSnapshot
  ELSE CHOOSE i \in own : \A j \in own : j <= i

\* current_snapshot_id = CASE WHEN visibility = 'private' THEN NULL ...
PointerUnder(p, visibility) ==
  IF visibility = "private" THEN NoSnapshot ELSE current[p]

CommitReplace(c) ==
  LET r == inflight[c] IN
  /\ r.op = "replace"
  /\ PublishedSlugAvailable(r.page, r.slug)
  /\ ~SlugTaken(r.page, r.slug)
  /\ settings' = [settings EXCEPT ![r.page] =
                    [visibility |-> r.visibility, slug |-> r.slug, updatedAt |-> r.now]]
  /\ current' = [current EXCEPT ![r.page] = PointerUnder(r.page, r.visibility)]
  /\ inflight' = [inflight EXCEPT ![c] = Idle]
  /\ UNCHANGED <<created, draftRevision, snapshots, suspended, clock>>

Publishable(p, expected) ==
  /\ expected = draftRevision[p]
  /\ settings[p].visibility # "private"

CommitPublish(c) ==
  LET r == inflight[c]
      p == r.page
      s == settings[p] IN
  /\ r.op = "publish"
  /\ Publishable(p, r.expected)
  /\ PublishedSlugAvailable(p, s.slug)
  /\ snapshots' = Append(snapshots,
                    [page |-> p, revision |-> r.expected, slug |-> s.slug,
                     visibility |-> s.visibility, publishedAt |-> r.now])
  /\ current' = [current EXCEPT ![p] = Len(snapshots) + 1]
  /\ settings' = [settings EXCEPT ![p].updatedAt = r.now]
  /\ inflight' = [inflight EXCEPT ![c] = Idle]
  /\ UNCHANGED <<created, draftRevision, suspended, clock>>

CommitUnpublish(c) ==
  LET r == inflight[c] IN
  /\ r.op = "unpublish"
  /\ settings' = [settings EXCEPT ![r.page] =
                    [@ EXCEPT !.visibility = "private", !.updatedAt = r.now]]
  /\ current' = [current EXCEPT ![r.page] = NoSnapshot]
  /\ inflight' = [inflight EXCEPT ![c] = Idle]
  /\ UNCHANGED <<created, draftRevision, snapshots, suspended, clock>>

\* The featured mark and the tags share updated_at with the settings.
CommitFeature(c) ==
  LET r == inflight[c] IN
  /\ r.op = "feature"
  /\ r.page \in Personal
  /\ settings[r.page].visibility = "public"
  /\ Live(r.page)
  /\ settings' = [settings EXCEPT ![r.page].updatedAt = r.now]
  /\ inflight' = [inflight EXCEPT ![c] = Idle]
  /\ UNCHANGED <<created, draftRevision, current, snapshots, suspended, clock>>

\* A failed precondition, a conflict, a busy database or a client that went
\* away before the commit: the transaction is rolled back.
Fail(c) ==
  /\ inflight[c] # Idle
  /\ inflight' = [inflight EXCEPT ![c] = Idle]
  /\ UNCHANGED <<created, draftRevision, settings, current, snapshots, suspended, clock>>

-----------------------------------------------------------------------------
(* Readers *)

\* loadPublication: the flag the workspace shows beside a live page.
HasUnpublishedChanges(p) ==
  /\ Live(p)
  /\ \/ draftRevision[p] # LiveSnapshot(p).revision
     \/ settings[p].updatedAt > LiveSnapshot(p).publishedAt

\* PublicBySlug: the pages whose live snapshot answers to the slug.
PublicBySlug(s) ==
  {p \in created \ suspended : Live(p) /\ LiveSnapshot(p).slug = s}

-----------------------------------------------------------------------------

Administration == \E p \in Pages : Register(p) \/ EditDraft(p) \/ SetUserStatus(p)

Start(c) ==
  \E p \in Pages :
    \/ \E v \in Visibilities, s \in Slugs : StartReplace(c, p, v, s)
    \/ \E expected \in 0 .. MaxRevision : StartPublish(c, p, expected)
    \/ StartUnpublish(c, p)
    \/ StartFeature(c, p)

Finish(c) ==
  CommitReplace(c) \/ CommitPublish(c) \/ CommitUnpublish(c) \/ CommitFeature(c) \/ Fail(c)

Next == Administration \/ \E c \in Clients : Start(c) \/ Finish(c)

Spec == Init /\ [][Next]_vars

-----------------------------------------------------------------------------
(* Properties *)

\* Every variable holds a value of the type its column or struct declares.
TypeOK ==
  /\ created \subseteq Pages
  /\ draftRevision \in [Pages -> Nat]
  /\ settings \in [Pages -> Settings]
  /\ snapshots \in Seq(Snapshots)
  /\ current \in [Pages -> 0 .. Len(snapshots)]
  /\ suspended \subseteq Personal
  /\ clock \in Nat
  /\ inflight \in [Clients -> Requests]

\* An address never answers with two pages: the slug of a live snapshot is
\* its own although settings, and the slugs in them, change independently of
\* what is live (sqlstore.go ensurePublishedSlugAvailable, Publish).
LiveSlugUnique ==
  \A p, q \in created :
    Live(p) /\ Live(q) /\ LiveSnapshot(p).slug = LiveSnapshot(q).slug => p = q

\* A page whose settings say private shows nothing, whatever order settings
\* changes, publications and unpublications commit in.
PrivateIsOffAir ==
  \A p \in created : settings[p].visibility = "private" => ~Live(p)

\* A later snapshot of a page never carries an older draft than an earlier
\* one: a publish request that was overtaken by edits changes nothing.
RevisionsAdvance ==
  \A i, j \in 1 .. Len(snapshots) :
    i < j /\ snapshots[i].page = snapshots[j].page
      => snapshots[i].revision <= snapshots[j].revision

\* The workspace calls a live page up to date ("published_current" in
\* web/src/lib/publish-state.ts) only when publishing again would show
\* visitors the same slug, visibility and draft.
UpToDateMeansShown ==
  \A p \in created :
    Live(p) /\ ~HasUnpublishedChanges(p) =>
      /\ LiveSnapshot(p).slug = settings[p].slug
      /\ LiveSnapshot(p).visibility = settings[p].visibility
      /\ LiveSnapshot(p).revision = draftRevision[p]

-----------------------------------------------------------------------------
(* Refinement: visitors see the public site of PublicSite *)

Site == INSTANCE PublicSite WITH
  Revisions <- 0 .. MaxRevision,
  editions <- [i \in 1 .. Len(snapshots) |->
                 [page |-> snapshots[i].page, slug |-> snapshots[i].slug,
                  revision |-> snapshots[i].revision]],
  shown <- current

\* Publishing implements the public site: an edition is issued once, under a
\* slug nobody else is on the air with, and once replaced or taken down it is
\* never shown again.
SiteSpec == Site!Spec
=============================================================================
