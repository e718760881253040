------------------------------ MODULE Themes ------------------------------
(***************************************************************************)
(* Theme packages (internal/themes, internal/themecatalog and the theme    *)
(* part of internal/admin): the tables themes, theme_versions and          *)
(* theme_catalog_requests, and the versions published snapshots refer to.  *)
(* Users install, upgrade and uninstall private themes and apply for the   *)
(* catalog; administrators review, disable and choose the default; a start *)
(* brings new built-in versions; pages are published with any of them.     *)
(*                                                                         *)
(* Every operation is one SQLite transaction, hence one action.  A version *)
(* is identified by its theme and its content, as UNIQUE (theme_id,        *)
(* content_hash) does.  A theme that is deleted may be followed by another *)
(* one that takes its place in the model, like any new row.                *)
(***************************************************************************)
EXTENDS Integers, FiniteSets

CONSTANTS
  Owners,     \* users who install private themes
  Slugs,      \* package names users choose
  Contents,   \* what a package may compile to
  Builtins,   \* themes the migrations create
  Shipped,    \* those the program has a package of; 0013 disabled the others
  Rows,       \* bound: rows for private and approved themes
  Quota,      \* private themes a user may have
  MaxLocked   \* bound: versions published snapshots are locked to

NoContent == "none"
NoOwner == "nobody"
Themes == Builtins \cup Rows

ASSUME NamesAssumption == NoContent \notin Contents /\ NoOwner \notin Owners
ASSUME BuiltinsAssumption == Shipped # {} /\ Shipped \subseteq Builtins /\ Builtins \cap Rows = {}
ASSUME QuotaAssumption == Quota \in Nat \ {0} /\ MaxLocked \in Nat

VARIABLES
  theme,       \* theme[t]: row of themes, or Absent
  defaults,    \* themes with is_default = 1
  versions,    \* versions[t][c]: status of the version, or "absent"
  pending,     \* pending[t]: version of the pending catalog request, or NoContent
  referenced,  \* referenced[t]: versions of t some published snapshot is locked to
  started      \* TRUE once the program has started and serves requests

vars == <<theme, defaults, versions, pending, referenced, started>>

-----------------------------------------------------------------------------

Statuses == {"absent", "active", "disabled"}

ThemeRows ==
  [scope : {"absent", "catalog", "private"}, owner : Owners \cup {NoOwner},
   slug : Slugs \cup Builtins \cup {NoContent}, enabled : BOOLEAN,
   current : Contents \cup {NoContent}]

Row(scope, owner, slug, enabled, current) ==
  [scope |-> scope, owner |-> owner, slug |-> slug, enabled |-> enabled, current |-> current]

Absent == Row("absent", NoOwner, NoContent, FALSE, NoContent)
NoVersions == [c \in Contents |-> "absent"]

Exists(t) == theme[t].scope # "absent"
OwnedBy(o) == {t \in Themes : theme[t].scope = "private" /\ theme[t].owner = o}

\* What the migrations leave: a row of every built-in theme, no version of
\* any, and a default that may be one of the culled themes.
Init ==
  /\ theme = [t \in Themes |-> IF t \in Builtins
                                THEN Row("catalog", NoOwner, t, t \in Shipped, NoContent)
                                ELSE Absent]
  /\ \E t \in Builtins : defaults = {t}
  /\ versions = [t \in Themes |-> NoVersions]
  /\ pending = [t \in Themes |-> NoContent]
  /\ referenced = [t \in Themes |-> {}]
  /\ started = FALSE

-----------------------------------------------------------------------------
(* Versions *)

\* Mutant: importing a disabled version again makes it current.
UpsertedReviving(row, vs, c) ==
  [row |-> [row EXCEPT !.current = c], versions |-> [vs EXCEPT ![c] = "active"]]

\* upsertVersionTx: the content is inserted unless it is known, and becomes
\* current unless it is disabled.
Upserted(row, vs, c) ==
  IF vs[c] = "disabled"
    THEN [row |-> row, versions |-> vs]
    ELSE [row |-> [row EXCEPT !.current = c], versions |-> [vs EXCEPT ![c] = "active"]]

Usable(t) ==
  /\ Exists(t) /\ theme[t].enabled
  /\ theme[t].current \in Contents
  /\ versions[t][theme[t].current] = "active"

\* What AssertDefaultThemeUsable asks of the default theme.
DefaultTheme(t) == Usable(t) /\ theme[t].scope = "catalog"

\* The predicate of EligibilityWhere.
Eligible(t, o) ==
  /\ Usable(t)
  /\ \/ theme[t].scope = "catalog"
     \/ theme[t].scope = "private" /\ theme[t].owner = o

-----------------------------------------------------------------------------
(* Private themes *)

Deleted(ts) ==
  /\ theme' = [t \in Themes |-> IF t \in ts THEN Absent ELSE theme[t]]
  /\ versions' = [t \in Themes |-> IF t \in ts THEN NoVersions ELSE versions[t]]
  /\ pending' = [t \in Themes |-> IF t \in ts THEN NoContent ELSE pending[t]]

\* reclaimTombstones: disabled themes no snapshot needs, unless one of their
\* versions was disabled by an administrator.
Reclaimable(t) ==
  /\ ~theme[t].enabled
  /\ referenced[t] = {}
  /\ \A c \in Contents : versions[t][c] # "disabled"

\* Mutant: tombstones do not count.
RoomIgnoringTombstones(o) == Cardinality({t \in OwnedBy(o) : theme[t].enabled}) < Quota

Room(o) == Cardinality(OwnedBy(o)) < Quota

\* A new theme, in a new row; tombstones make room when there is none.
Install(o, s, c) ==
  /\ \A t \in OwnedBy(o) : theme[t].slug # s
  /\ LET gone == IF Room(o) THEN {} ELSE {t \in OwnedBy(o) : Reclaimable(t)} IN
     /\ Room(o) \/ Cardinality(OwnedBy(o) \ gone) < Quota
     /\ \E t \in Rows :
          /\ ~Exists(t)
          /\ LET new == Upserted(Row("private", o, s, TRUE, NoContent), NoVersions, c) IN
             /\ theme' = [u \in Themes |-> IF u = t THEN new.row
                                           ELSE IF u \in gone THEN Absent ELSE theme[u]]
             /\ versions' = [u \in Themes |-> IF u = t THEN new.versions
                                              ELSE IF u \in gone THEN NoVersions ELSE versions[u]]
          /\ pending' = [u \in Themes |-> IF u \in gone THEN NoContent ELSE pending[u]]
  /\ UNCHANGED <<defaults, referenced, started>>

\* The owner imports a package under the name of one of his themes.
Upgrade(t, c) ==
  /\ theme[t].scope = "private"
  /\ pending[t] = NoContent
  /\ LET new == Upserted(theme[t], versions[t], c) IN
       /\ theme' = [theme EXCEPT ![t] = [new.row EXCEPT !.enabled = TRUE]]
       /\ versions' = [versions EXCEPT ![t] = new.versions]
  /\ UNCHANGED <<defaults, pending, referenced, started>>

\* A pending request is revoked; the theme is deleted, or disabled if a
\* snapshot needs it.
Uninstall(t) ==
  /\ theme[t].scope = "private"
  /\ \/ /\ referenced[t] # {}
        /\ theme' = [theme EXCEPT ![t].enabled = FALSE]
        /\ pending' = [pending EXCEPT ![t] = NoContent]
        /\ UNCHANGED versions
     \/ referenced[t] = {} /\ Deleted({t})
  /\ UNCHANGED <<defaults, referenced, started>>

-----------------------------------------------------------------------------
(* The catalog *)

SlugFree(t) ==
  \A u \in Themes \ {t} : theme[u].scope = "catalog" => theme[u].slug # theme[t].slug

Apply(t) ==
  /\ theme[t].scope = "private" /\ theme[t].enabled
  /\ theme[t].current # NoContent
  /\ pending[t] = NoContent
  /\ SlugFree(t)
  /\ pending' = [pending EXCEPT ![t] = theme[t].current]
  /\ UNCHANGED <<theme, defaults, versions, referenced, started>>

\* The owner takes the request back, or an administrator rejects it.
EndRequest(t) ==
  /\ pending[t] # NoContent
  /\ pending' = [pending EXCEPT ![t] = NoContent]
  /\ UNCHANGED <<theme, defaults, versions, referenced, started>>

\* Mutant: what was checked when the request was made is not checked again.
ApprovableUnchecked(t) == pending[t] # NoContent

Approvable(t) ==
  /\ pending[t] # NoContent
  /\ theme[t].current = pending[t]
  /\ Usable(t)
  /\ SlugFree(t)

Approve(t) ==
  /\ Approvable(t)
  /\ theme' = [theme EXCEPT ![t] = [@ EXCEPT !.scope = "catalog", !.owner = NoOwner]]
  /\ pending' = [pending EXCEPT ![t] = NoContent]
  /\ UNCHANGED <<defaults, versions, referenced, started>>

-----------------------------------------------------------------------------
(* Administration.  A patch of several fields is one of these actions after  *)
(* another, in one transaction.                                              *)

\* SetVersionStatus, also UpdateTheme with a status for the current version.
SetVersionStatus(t, c, status) ==
  /\ versions[t][c] # "absent"
  /\ ~(status = "disabled" /\ t \in defaults /\ theme[t].current = c)
  /\ versions' = [versions EXCEPT ![t][c] = status]
  /\ UNCHANGED <<theme, defaults, pending, referenced, started>>

\* Mutant: the version of the new default is not looked at.
MakeDefaultUnchecked(t, reactivate) ==
  /\ theme[t].scope = "catalog"
  /\ theme' = [theme EXCEPT ![t].enabled = TRUE]
  /\ defaults' = {t}
  /\ UNCHANGED <<versions, pending, referenced, started>>

\* UpdateTheme with default = true, perhaps together with status = active; it
\* is undone unless the current version ends up active.
MakeDefault(t, reactivate) ==
  LET c == theme[t].current IN
  /\ theme[t].scope = "catalog" /\ c # NoContent
  /\ reactivate \/ versions[t][c] = "active"
  /\ versions' = [versions EXCEPT ![t][c] = "active"]
  /\ theme' = [theme EXCEPT ![t].enabled = TRUE]
  /\ defaults' = {t}
  /\ UNCHANGED <<pending, referenced, started>>

\* UpdateTheme with enabled; the default theme cannot be disabled.
SetEnabled(t, enabled) ==
  /\ Exists(t)
  /\ t \in defaults => enabled
  /\ theme' = [theme EXCEPT ![t].enabled = enabled]
  /\ UNCHANGED <<defaults, versions, pending, referenced, started>>

-----------------------------------------------------------------------------
(* Starting and publishing *)

\* SyncBuiltin: the program that starts ships content shipped[t] of theme t.
\* EnsureDefaultTheme then replaces a default theme that is not usable by a
\* catalog theme that is.
SyncBuiltin(shipped) ==
  /\ theme' = [t \in Themes |->
                 IF t \in Shipped THEN Upserted(theme[t], versions[t], shipped[t]).row ELSE theme[t]]
  /\ versions' = [t \in Themes |->
                    IF t \in Shipped THEN Upserted(theme[t], versions[t], shipped[t]).versions
                                     ELSE versions[t]]
  /\ IF \A t \in defaults : DefaultTheme(t)'
       THEN UNCHANGED defaults
       ELSE \E t \in Themes : DefaultTheme(t)' /\ defaults' = {t}
  /\ started' = TRUE
  /\ UNCHANGED <<pending, referenced>>

\* ResolveEligibleVersion: the theme asked for, or the default one.
Resolved(t, o) == IF Eligible(t, o) THEN t ELSE CHOOSE d \in defaults : TRUE

Locked == {v \in Themes \X Contents : v[2] \in referenced[v[1]]}

\* A page of o with theme t is published; the snapshot keeps the version.
Publish(o, t) ==
  LET u == Resolved(t, o) IN
  /\ Usable(u)
  /\ Cardinality(Locked) < MaxLocked
  /\ referenced' = [referenced EXCEPT ![u] = @ \cup {theme[u].current}]
  /\ UNCHANGED <<theme, defaults, versions, pending, started>>

-----------------------------------------------------------------------------

Serve ==
  \/ \E o \in Owners, s \in Slugs, c \in Contents : Install(o, s, c)
  \/ \E t \in Rows, c \in Contents : Upgrade(t, c)
  \/ \E t \in Rows : Uninstall(t) \/ Apply(t) \/ EndRequest(t) \/ Approve(t)
  \/ \E t \in Themes, c \in Contents, status \in {"active", "disabled"} :
       SetVersionStatus(t, c, status)
  \/ \E t \in Themes, reactivate \in BOOLEAN : MakeDefault(t, reactivate)
  \/ \E t \in Themes, enabled \in BOOLEAN : SetEnabled(t, enabled)
  \/ \E o \in Owners, t \in Themes : Publish(o, t)

Next ==
  \/ \E shipped \in [Shipped -> Contents] : SyncBuiltin(shipped)
  \/ started /\ Serve

Spec == Init /\ [][Next]_vars

-----------------------------------------------------------------------------
(* Properties *)

\* A catalog theme has no owner and a private one has (migration 0014).
TypeOK ==
  /\ theme \in [Themes -> ThemeRows]
  /\ \A t \in Themes : theme[t].scope = "private" <=> theme[t].owner # NoOwner
  /\ defaults \subseteq Themes
  /\ versions \in [Themes -> [Contents -> Statuses]]
  /\ pending \in [Themes -> Contents \cup {NoContent}]
  /\ referenced \in [Themes -> SUBSET Contents]
  /\ started \in BOOLEAN

\* While the program serves there is one default theme, it is in the catalog, enabled, and its current
\* version is active, whatever administrators disable, owners uninstall and
\* programs ship: the fallback of every publication works.
DefaultUsable == started => \E t \in Themes : defaults = {t} /\ DefaultTheme(t)

\* A version some published page is locked to is never deleted, by an
\* uninstallation or by reclaiming (a foreign key of 0014 would also refuse it).
SnapshotsResolve == \A t \in Themes : \A c \in referenced[t] : versions[t][c] # "absent"

\* Every page can be rendered: with the version its snapshot names or, where
\* that one is disabled, with the default theme.
PagesRender == DefaultUsable /\ SnapshotsResolve

\* What an administrator reviews is what he would approve: while a request is
\* pending the theme stays private and its current version the reviewed one.
ReviewedIsCurrent ==
  \A t \in Themes :
    pending[t] # NoContent => theme[t].scope = "private" /\ theme[t].current = pending[t]

\* No two catalog themes have one name, though several owners may apply with
\* the same name at a time (Review looks again, and 0014 has a unique index).
CatalogSlugsUnique ==
  \A t, u \in Themes :
    theme[t].scope = "catalog" /\ theme[u].scope = "catalog" /\ theme[t].slug = theme[u].slug
      => t = u

\* Reviews decide about what they showed, and never let two themes share a name.
ReviewsAreSound == ReviewedIsCurrent /\ CatalogSlugsUnique

\* No user ever has more private themes than the quota, the uninstalled ones
\* counted whose rows stay because snapshots need them: each can be installed
\* again at any time (store.go Install counts the rows of the owner).
QuotaHolds == \A o \in Owners : Cardinality(OwnedBy(o)) <= Quota

Administers ==
  \/ \E t \in Themes, c \in Contents : SetVersionStatus(t, c, "active")
  \/ \E t \in Themes : MakeDefault(t, TRUE)

\* A disabled version is not revived by importing it again, by a start that
\* ships it, or by anything but an administrator (store.go upsertVersionTx).
NoRevival ==
  [][\A t \in Themes, c \in Contents :
       versions[t][c] = "disabled" /\ versions'[t][c] = "active" => Administers]_vars

\* That a version was disabled is never forgotten: "better not to reclaim than
\* to lose this memory" (install.go reclaimTombstones).
DisabledIsRemembered ==
  [][\A t \in Themes, c \in Contents :
       versions[t][c] = "disabled" => versions'[t][c] # "absent"]_vars
=============================================================================
