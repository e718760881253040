---------------------------- MODULE ThemesProofs ----------------------------
(***************************************************************************)
(* Safety of Themes for any users, packages, built-in themes and quota:    *)
(* the default theme works, published versions stay, what is reviewed is   *)
(* what is approved, a disabled version is not revived, and nobody has     *)
(* more private themes than the quota.                                     *)
(*                                                                         *)
(* What the properties need beside themselves: a row that does not exist   *)
(* has no version, and a built-in theme never leaves the catalog.          *)
(*                                                                         *)
(* The second half is about the theme page, ThemeStudio, for any themes,   *)
(* backgrounds and files, and any number of handlers and of other devices' *)
(* acts: what it shows is what the server said last, the style sheet is    *)
(* that of the theme shown, and a save changes what was chosen.            *)
(***************************************************************************)
EXTENDS Themes, ThemeStudio, FiniteSetTheorems, TLAPS

OneDefault == \E t \in Themes : defaults = {t}

\* While serving, every default theme (there is one) is usable.
DefaultsUsable == started => \A t \in defaults : DefaultTheme(t)

AbsentIsEmpty == \A t \in Themes : ~Exists(t) => versions[t] = NoVersions

BuiltinsInCatalog == \A t \in Builtins : theme[t].scope = "catalog"

IInv ==
  /\ TypeOK
  /\ OneDefault
  /\ DefaultsUsable
  /\ SnapshotsResolve
  /\ ReviewedIsCurrent
  /\ CatalogSlugsUnique
  /\ AbsentIsEmpty
  /\ BuiltinsInCatalog

\* Once disabled, a version is disabled or gone.
Disabled(t, c) == versions[t][c] = "disabled"
NoneRevived == \A t \in Themes, c \in Contents : Disabled(t, c) => versions'[t][c] # "active"

-----------------------------------------------------------------------------
(* Rows and versions *)

LEMMA AbsentRow == Absent \in ThemeRows /\ Absent.scope = "absent" /\ Absent.owner = NoOwner
  <1>1. FALSE \in BOOLEAN
    OBVIOUS
  <1> QED BY <1>1 DEF Absent, Row, ThemeRows

LEMMA NoVersionsType ==
  NoVersions \in [Contents -> Statuses] /\ \A c \in Contents : NoVersions[c] = "absent"
  BY DEF NoVersions, Statuses

LEMMA NewRow ==
  ASSUME NEW o \in Owners, NEW s \in Slugs
  PROVE  /\ Row("private", o, s, TRUE, NoContent) \in ThemeRows
         /\ Row("private", o, s, TRUE, NoContent).scope = "private"
         /\ Row("private", o, s, TRUE, NoContent).owner = o
  <1>1. TRUE \in BOOLEAN
    OBVIOUS
  <1> QED BY <1>1 DEF Row, ThemeRows

\* What upsertVersionTx does to a row and its versions.
LEMMA UpsertedFacts ==
  ASSUME NEW row \in ThemeRows, NEW vs \in [Contents -> Statuses], NEW c \in Contents
  PROVE  LET new == Upserted(row, vs, c) IN
         /\ new.row \in ThemeRows /\ new.versions \in [Contents -> Statuses]
         /\ new.row.scope = row.scope /\ new.row.owner = row.owner
         /\ new.row.slug = row.slug /\ new.row.enabled = row.enabled
         /\ \A d \in Contents :
              /\ vs[d] # "absent" => new.versions[d] # "absent"
              /\ vs[d] = "disabled" => new.versions[d] = "disabled"
         /\ row.current \in Contents /\ vs[row.current] = "active" =>
              new.row.current \in Contents /\ new.versions[new.row.current] = "active"
  <1>1. CASE vs[c] = "disabled"
    BY <1>1 DEF Upserted
  <1>2. CASE vs[c] # "disabled"
    <2> DEFINE r == [row EXCEPT !.current = c]
               ws == [vs EXCEPT ![c] = "active"]
    <2>1. Upserted(row, vs, c) = [row |-> r, versions |-> ws]
      BY <1>2 DEF Upserted
    <2>2. r \in ThemeRows
      BY DEF ThemeRows
    <2>3. /\ r.scope = row.scope /\ r.owner = row.owner /\ r.slug = row.slug
          /\ r.enabled = row.enabled /\ r.current = c
      BY DEF ThemeRows
    <2>4. /\ ws \in [Contents -> Statuses] /\ ws[c] = "active"
          /\ \A d \in Contents : d # c => ws[d] = vs[d]
      BY DEF Statuses
    <2>5. \A d \in Contents : vs[d] = "disabled" => d # c
      BY <1>2
    <2> HIDE DEF r, ws
    <2> QED BY <2>1, <2>2, <2>3, <2>4, <2>5
  <1> QED BY <1>1, <1>2

-----------------------------------------------------------------------------

LEMMA InitHolds == Init => IInv
  <1> SUFFICES ASSUME Init PROVE IInv
    OBVIOUS
  <1>1. ASSUME NEW t \in Builtins
        PROVE  /\ Row("catalog", NoOwner, t, t \in Shipped, NoContent) \in ThemeRows
               /\ Row("catalog", NoOwner, t, t \in Shipped, NoContent).scope = "catalog"
               /\ Row("catalog", NoOwner, t, t \in Shipped, NoContent).owner = NoOwner
               /\ Row("catalog", NoOwner, t, t \in Shipped, NoContent).slug = t
    <2>1. (t \in Shipped) \in BOOLEAN
      OBVIOUS
    <2> QED BY <2>1 DEF Row, ThemeRows
  <1>2. /\ theme \in [Themes -> ThemeRows]
        /\ \A t \in Builtins : /\ theme[t].scope = "catalog" /\ theme[t].owner = NoOwner
                               /\ theme[t].slug = t
        /\ \A t \in Themes \ Builtins : theme[t].scope = "absent" /\ theme[t].owner = NoOwner
    BY <1>1, AbsentRow DEF Init, Themes
  <1>3. TypeOK
    <2>1. \A t \in Themes : theme[t].scope = "private" <=> theme[t].owner # NoOwner
      BY <1>2
    <2>2. versions \in [Themes -> [Contents -> Statuses]]
      BY NoVersionsType DEF Init
    <2>3. started \in BOOLEAN
      BY DEF Init
    <2> QED BY <1>2, <2>1, <2>2, <2>3 DEF Init, Themes, TypeOK
  <1>4. OneDefault /\ DefaultsUsable
    BY DEF Init, OneDefault, DefaultsUsable, Themes
  <1>5. SnapshotsResolve /\ ReviewedIsCurrent /\ AbsentIsEmpty
    BY DEF Init, SnapshotsResolve, ReviewedIsCurrent, AbsentIsEmpty
  <1>6. CatalogSlugsUnique /\ BuiltinsInCatalog
    BY <1>2 DEF CatalogSlugsUnique, BuiltinsInCatalog
  <1> QED BY <1>3, <1>4, <1>5, <1>6 DEF IInv

-----------------------------------------------------------------------------
(* Steps that bring no theme into the catalog: what each theme must satisfy *)

Keeps(u) ==
  /\ theme'[u].scope = "private" <=> theme'[u].owner # NoOwner
  /\ u \in Builtins => theme'[u].scope = "catalog"
  /\ \A c \in referenced[u] : versions'[u][c] # "absent"
  /\ pending'[u] # NoContent => theme'[u].scope = "private" /\ theme'[u].current = pending'[u]
  /\ theme'[u].scope = "catalog" => theme[u].scope = "catalog" /\ theme'[u].slug = theme[u].slug
  /\ theme'[u].scope = "absent" => versions'[u] = NoVersions

LEMMA UntouchedKeeps ==
  ASSUME IInv, NEW u \in Themes,
         theme'[u] = theme[u], versions'[u] = versions[u], pending'[u] = pending[u]
  PROVE  Keeps(u)
  BY DEF IInv, TypeOK, SnapshotsResolve, ReviewedIsCurrent, AbsentIsEmpty, BuiltinsInCatalog,
         Exists, Keeps

LEMMA KeepsAll ==
  ASSUME IInv,
         theme' \in [Themes -> ThemeRows], versions' \in [Themes -> [Contents -> Statuses]],
         pending' \in [Themes -> Contents \cup {NoContent}], referenced' = referenced,
         defaults' \subseteq Themes, started' \in BOOLEAN,
         OneDefault', DefaultsUsable',
         \A u \in Themes : Keeps(u)
  PROVE  IInv'
  <1> USE DEF IInv
  <1>1. TypeOK'
    <2>1. \A u \in Themes : theme'[u].scope = "private" <=> theme'[u].owner # NoOwner
      BY DEF Keeps
    <2> QED BY <2>1 DEF TypeOK
  <1>2. SnapshotsResolve' /\ ReviewedIsCurrent'
    BY DEF Keeps, SnapshotsResolve, ReviewedIsCurrent
  <1>3. AbsentIsEmpty' /\ BuiltinsInCatalog'
    BY DEF Keeps, AbsentIsEmpty, BuiltinsInCatalog, Exists, Themes
  <1>4. CatalogSlugsUnique'
    BY DEF Keeps, CatalogSlugsUnique
  <1> QED BY <1>1, <1>2, <1>3, <1>4

\* The default theme is in the catalog, so what happens to other themes is
\* nothing to it.
LEMMA DefaultsKept ==
  ASSUME IInv, started, UNCHANGED <<defaults, started>>,
         \A t \in defaults : theme'[t] = theme[t] /\ versions'[t] = versions[t]
  PROVE  OneDefault' /\ DefaultsUsable' /\ defaults' \subseteq Themes /\ started' \in BOOLEAN
  <1>1. \A t \in defaults : DefaultTheme(t)'
    BY DEF IInv, DefaultsUsable, DefaultTheme, Usable, Exists
  <1> QED BY <1>1 DEF IInv, TypeOK, OneDefault, DefaultsUsable

LEMMA DefaultsInCatalog ==
  ASSUME IInv, started
  PROVE  \A t \in defaults : /\ t \in Themes /\ theme[t].scope = "catalog" /\ theme[t].enabled
                            /\ theme[t].current \in Contents
                            /\ versions[t][theme[t].current] = "active"
  BY DEF IInv, TypeOK, DefaultsUsable, DefaultTheme, Usable

LEMMA InstallHolds ==
  ASSUME IInv, started, NEW o \in Owners, NEW s \in Slugs, NEW c \in Contents, Install(o, s, c)
  PROVE  IInv' /\ NoneRevived
  <1> DEFINE gone == IF Room(o) THEN {} ELSE {t \in OwnedBy(o) : Reclaimable(t)}
             first == Row("private", o, s, TRUE, NoContent)
             new == Upserted(first, NoVersions, c)
  <1>1. PICK t \in Rows :
          /\ ~Exists(t)
          /\ theme' = [u \in Themes |-> IF u = t THEN new.row
                                        ELSE IF u \in gone THEN Absent ELSE theme[u]]
          /\ versions' = [u \in Themes |-> IF u = t THEN new.versions
                                           ELSE IF u \in gone THEN NoVersions ELSE versions[u]]
          /\ pending' = [u \in Themes |-> IF u \in gone THEN NoContent ELSE pending[u]]
          /\ UNCHANGED <<defaults, referenced, started>>
    BY DEF Install
  <1>2. /\ new.row \in ThemeRows /\ new.versions \in [Contents -> Statuses]
        /\ new.row.scope = "private" /\ new.row.owner = o
    <2>1. first \in ThemeRows /\ first.scope = "private" /\ first.owner = o
      BY NewRow
    <2> HIDE DEF first
    <2> QED BY <2>1, NoVersionsType, UpsertedFacts
  <1>3. \A u \in gone : /\ u \in Themes /\ theme[u].scope = "private" /\ referenced[u] = {}
                       /\ \A d \in Contents : versions[u][d] # "disabled"
    BY DEF OwnedBy, Reclaimable
  <1> HIDE DEF gone, new
  <1>4. /\ t \in Themes /\ t \notin Builtins /\ theme[t].scope = "absent"
        /\ versions[t] = NoVersions /\ pending[t] = NoContent /\ referenced[t] = {}
        /\ t \notin gone
    <2>1. t \in Themes /\ t \notin Builtins /\ theme[t].scope = "absent"
      BY <1>1, BuiltinsAssumption DEF Exists, Themes
    <2>2. versions[t] = NoVersions /\ pending[t] = NoContent
      BY <2>1 DEF IInv, AbsentIsEmpty, ReviewedIsCurrent, Exists
    <2>3. referenced[t] \subseteq Contents /\ \A d \in referenced[t] : versions[t][d] # "absent"
      BY <2>1 DEF IInv, TypeOK, SnapshotsResolve
    <2> QED BY <1>3, <2>1, <2>2, <2>3, NoVersionsType
  <1>5. /\ theme' \in [Themes -> ThemeRows] /\ versions' \in [Themes -> [Contents -> Statuses]]
        /\ pending' \in [Themes -> Contents \cup {NoContent}]
    <2>1. theme' \in [Themes -> ThemeRows]
      BY <1>1, <1>2, AbsentRow DEF IInv, TypeOK
    <2>2. versions' \in [Themes -> [Contents -> Statuses]]
      BY <1>1, <1>2, NoVersionsType DEF IInv, TypeOK
    <2> QED BY <1>1, <2>1, <2>2 DEF IInv, TypeOK
  <1>6. ASSUME NEW u \in Themes
        PROVE  Keeps(u)
    <2>1. CASE u = t
      BY <2>1, <1>1, <1>2, <1>4, NamesAssumption DEF Keeps
    <2>2. CASE u \in gone
      <3>1. /\ theme'[u] = Absent /\ versions'[u] = NoVersions /\ pending'[u] = NoContent
            /\ u \notin Builtins
        BY <2>2, <1>1, <1>3, <1>4 DEF IInv, BuiltinsInCatalog
      <3> QED BY <2>2, <3>1, <1>3, AbsentRow DEF Keeps
    <2>3. CASE u # t /\ u \notin gone
      BY <2>3, <1>1, UntouchedKeeps
    <2> QED BY <2>1, <2>2, <2>3
  <1>7. \A d \in defaults : theme'[d] = theme[d] /\ versions'[d] = versions[d]
    BY <1>1, <1>3, <1>4, DefaultsInCatalog
  <1>8. IInv'
    BY <1>1, <1>5, <1>6, <1>7, DefaultsKept, KeepsAll
  <1>9. NoneRevived
    BY <1>1, <1>3, <1>4, NoVersionsType DEF NoneRevived, Disabled
  <1> QED BY <1>8, <1>9

LEMMA UpgradeHolds ==
  ASSUME IInv, started, NEW t \in Rows, NEW c \in Contents, Upgrade(t, c)
  PROVE  IInv' /\ NoneRevived
  <1> DEFINE new == Upserted(theme[t], versions[t], c)
             row == [new.row EXCEPT !.enabled = TRUE]
  <1>1. /\ theme[t].scope = "private" /\ pending[t] = NoContent
        /\ theme' = [theme EXCEPT ![t] = row] /\ versions' = [versions EXCEPT ![t] = new.versions]
        /\ UNCHANGED <<defaults, pending, referenced, started>>
    BY DEF Upgrade
  <1>2. t \in Themes /\ theme[t] \in ThemeRows /\ versions[t] \in [Contents -> Statuses]
        /\ theme[t].owner # NoOwner /\ t \notin Builtins
    BY <1>1, BuiltinsAssumption DEF IInv, TypeOK, Themes
  <1>3. /\ new.row \in ThemeRows /\ new.versions \in [Contents -> Statuses]
        /\ new.row.scope = theme[t].scope /\ new.row.owner = theme[t].owner
        /\ \A d \in Contents : /\ versions[t][d] # "absent" => new.versions[d] # "absent"
                               /\ versions[t][d] = "disabled" => new.versions[d] = "disabled"
    BY <1>2, UpsertedFacts
  <1>4. row \in ThemeRows
    <2>1. TRUE \in BOOLEAN
      OBVIOUS
    <2> QED BY <1>3, <2>1 DEF ThemeRows
  <1>5. row.scope = "private" /\ row.owner = theme[t].owner
    BY <1>1, <1>3 DEF ThemeRows
  <1> HIDE DEF new, row
  <1>6. /\ theme' \in [Themes -> ThemeRows] /\ versions' \in [Themes -> [Contents -> Statuses]]
        /\ theme'[t] = row /\ versions'[t] = new.versions
        /\ \A u \in Themes : u # t => theme'[u] = theme[u] /\ versions'[u] = versions[u]
    BY <1>1, <1>2, <1>3, <1>4 DEF IInv, TypeOK
  <1>7. ASSUME NEW u \in Themes
        PROVE  Keeps(u)
    <2>1. CASE u = t
      <3>1. referenced[t] \subseteq Contents /\ \A d \in referenced[t] : versions[t][d] # "absent"
        BY <1>2 DEF IInv, TypeOK, SnapshotsResolve
      <3> QED BY <2>1, <3>1, <1>1, <1>2, <1>3, <1>5, <1>6 DEF Keeps
    <2>2. CASE u # t
      BY <2>2, <1>1, <1>6, UntouchedKeeps
    <2> QED BY <2>1, <2>2
  <1>8. IInv'
    <2>1. \A d \in defaults : theme'[d] = theme[d] /\ versions'[d] = versions[d]
      BY <1>1, <1>6, DefaultsInCatalog
    <2>2. pending' \in [Themes -> Contents \cup {NoContent}]
      BY <1>1 DEF IInv, TypeOK
    <2> QED BY <1>1, <1>6, <1>7, <2>1, <2>2, DefaultsKept, KeepsAll
  <1>9. NoneRevived
    BY <1>3, <1>6 DEF NoneRevived, Disabled
  <1> QED BY <1>8, <1>9

LEMMA UninstallHolds ==
  ASSUME IInv, started, NEW t \in Rows, Uninstall(t)
  PROVE  IInv' /\ NoneRevived
  <1>1. t \in Themes /\ t \notin Builtins /\ theme[t].scope = "private"
        /\ theme[t] \in ThemeRows /\ UNCHANGED <<defaults, referenced, started>>
    BY BuiltinsAssumption DEF IInv, TypeOK, Uninstall, Themes
  <1>2. t \notin defaults /\ theme[t].owner # NoOwner
    BY <1>1, DefaultsInCatalog DEF IInv, TypeOK
  <1>3. CASE /\ theme' = [theme EXCEPT ![t].enabled = FALSE]
             /\ pending' = [pending EXCEPT ![t] = NoContent]
             /\ UNCHANGED versions
    <2> DEFINE row == [theme[t] EXCEPT !.enabled = FALSE]
    <2>1. row \in ThemeRows
      <3>1. FALSE \in BOOLEAN
        OBVIOUS
      <3> QED BY <1>1, <3>1 DEF ThemeRows
    <2>2. row.scope = theme[t].scope /\ row.owner = theme[t].owner
      BY <1>1 DEF ThemeRows
    <2>3. theme' = [theme EXCEPT ![t] = row]
      BY <1>3
    <2> HIDE DEF row
    <2>4. /\ theme' \in [Themes -> ThemeRows] /\ theme'[t] = row
          /\ versions' \in [Themes -> [Contents -> Statuses]]
          /\ pending' \in [Themes -> Contents \cup {NoContent}] /\ pending'[t] = NoContent
          /\ \A u \in Themes : u # t => theme'[u] = theme[u] /\ pending'[u] = pending[u]
      BY <1>1, <1>3, <2>1, <2>3 DEF IInv, TypeOK
    <2>5. ASSUME NEW u \in Themes
          PROVE  Keeps(u)
      <3>1. CASE u = t
        BY <3>1, <1>1, <1>2, <1>3, <2>2, <2>4 DEF Keeps, IInv, SnapshotsResolve
      <3>2. CASE u # t
        BY <3>2, <1>3, <2>4, UntouchedKeeps
      <3> QED BY <3>1, <3>2
    <2>6. IInv'
      <3>1. \A d \in defaults : theme'[d] = theme[d] /\ versions'[d] = versions[d]
        BY <1>2, <1>3, <2>4, DefaultsInCatalog
      <3> QED BY <1>1, <2>4, <2>5, <3>1, DefaultsKept, KeepsAll
    <2> QED BY <1>3, <2>6 DEF NoneRevived, Disabled
  <1>4. CASE referenced[t] = {} /\ Deleted({t})
    <2>1. /\ theme' \in [Themes -> ThemeRows] /\ theme'[t] = Absent
          /\ versions' \in [Themes -> [Contents -> Statuses]] /\ versions'[t] = NoVersions
          /\ pending' \in [Themes -> Contents \cup {NoContent}] /\ pending'[t] = NoContent
          /\ \A u \in Themes : u # t => /\ theme'[u] = theme[u] /\ pending'[u] = pending[u]
                                       /\ versions'[u] = versions[u]
      BY <1>1, <1>4, AbsentRow, NoVersionsType DEF Deleted, IInv, TypeOK
    <2>2. ASSUME NEW u \in Themes
          PROVE  Keeps(u)
      <3>1. CASE u = t
        BY <3>1, <1>1, <1>4, <2>1, AbsentRow DEF Keeps
      <3>2. CASE u # t
        BY <3>2, <2>1, UntouchedKeeps
      <3> QED BY <3>1, <3>2
    <2>3. IInv'
      <3>1. \A d \in defaults : theme'[d] = theme[d] /\ versions'[d] = versions[d]
        BY <1>2, <2>1, DefaultsInCatalog
      <3> QED BY <1>1, <2>1, <2>2, <3>1, DefaultsKept, KeepsAll
    <2> QED BY <2>1, <2>3, NoVersionsType DEF NoneRevived, Disabled
  <1> QED BY <1>3, <1>4 DEF Uninstall

LEMMA RequestHolds ==
  ASSUME IInv, started, NEW t \in Rows, Apply(t) \/ EndRequest(t)
  PROVE  IInv' /\ NoneRevived
  <1>1. UNCHANGED <<theme, defaults, versions, referenced, started>> /\ t \in Themes
    BY DEF Apply, EndRequest, Themes
  <1>2. /\ pending' \in [Themes -> Contents \cup {NoContent}]
        /\ \A u \in Themes : u # t => pending'[u] = pending[u]
        /\ pending'[t] # NoContent => theme[t].scope = "private" /\ theme[t].current = pending'[t]
    BY <1>1 DEF IInv, TypeOK, ThemeRows, Apply, EndRequest
  <1>3. ASSUME NEW u \in Themes
        PROVE  Keeps(u)
    <2>1. CASE u = t
      <3>1. /\ theme[t].scope = "private" <=> theme[t].owner # NoOwner
            /\ t \in Builtins => theme[t].scope = "catalog"
            /\ \A c \in referenced[t] : versions[t][c] # "absent"
            /\ theme[t].scope = "absent" => versions[t] = NoVersions
        BY <1>1 DEF IInv, TypeOK, BuiltinsInCatalog, SnapshotsResolve, AbsentIsEmpty, Exists
      <3> QED BY <2>1, <3>1, <1>1, <1>2 DEF Keeps
    <2>2. CASE u # t
      BY <2>2, <1>1, <1>2, UntouchedKeeps
    <2> QED BY <2>1, <2>2
  <1>4. IInv'
    <2>1. \A d \in defaults : theme'[d] = theme[d] /\ versions'[d] = versions[d]
      BY <1>1
    <2>2. theme' \in [Themes -> ThemeRows] /\ versions' \in [Themes -> [Contents -> Statuses]]
      BY <1>1 DEF IInv, TypeOK
    <2> QED BY <1>1, <1>2, <1>3, <2>1, <2>2, DefaultsKept, KeepsAll
  <1> QED BY <1>1, <1>4 DEF NoneRevived, Disabled

\* The one step that brings a theme into the catalog.
LEMMA ApproveHolds ==
  ASSUME IInv, started, NEW t \in Rows, Approve(t)
  PROVE  IInv' /\ NoneRevived
  <1> DEFINE row == [theme[t] EXCEPT !.scope = "catalog", !.owner = NoOwner]
  <1>1. /\ t \in Themes /\ t \notin Builtins /\ theme[t] \in ThemeRows
        /\ theme[t].scope = "private" /\ SlugFree(t)
        /\ UNCHANGED <<defaults, versions, referenced, started>>
    BY BuiltinsAssumption DEF IInv, TypeOK, ReviewedIsCurrent, Approve, Approvable, Themes
  <1>2. row \in ThemeRows /\ row.scope = "catalog" /\ row.owner = NoOwner /\ row.slug = theme[t].slug
    BY <1>1 DEF ThemeRows
  <1>3. theme' = [theme EXCEPT ![t] = row] /\ pending' = [pending EXCEPT ![t] = NoContent]
    BY DEF Approve
  <1> HIDE DEF row
  <1>4. /\ theme' \in [Themes -> ThemeRows] /\ theme'[t] = row
        /\ pending' \in [Themes -> Contents \cup {NoContent}] /\ pending'[t] = NoContent
        /\ \A u \in Themes : u # t => theme'[u] = theme[u] /\ pending'[u] = pending[u]
    BY <1>1, <1>2, <1>3 DEF IInv, TypeOK
  <1>5. OneDefault' /\ DefaultsUsable' /\ defaults' \subseteq Themes /\ started' \in BOOLEAN
    <2>1. \A d \in defaults : theme'[d] = theme[d] /\ versions'[d] = versions[d]
      BY <1>1, <1>4, DefaultsInCatalog
    <2> QED BY <1>1, <2>1, DefaultsKept
  <1>6. TypeOK'
    <2>1. \A u \in Themes : theme'[u].scope = "private" <=> theme'[u].owner # NoOwner
      BY <1>2, <1>4 DEF IInv, TypeOK
    <2> QED BY <1>1, <1>4, <1>5, <2>1 DEF IInv, TypeOK
  <1>7. SnapshotsResolve' /\ ReviewedIsCurrent'
    BY <1>1, <1>4 DEF IInv, SnapshotsResolve, ReviewedIsCurrent
  <1>8. AbsentIsEmpty' /\ BuiltinsInCatalog'
    BY <1>1, <1>2, <1>4 DEF IInv, AbsentIsEmpty, BuiltinsInCatalog, Exists, Themes
  <1>9. CatalogSlugsUnique'
    BY <1>1, <1>2, <1>4 DEF IInv, CatalogSlugsUnique, SlugFree
  <1>10. NoneRevived
    BY <1>1 DEF NoneRevived, Disabled
  <1> QED BY <1>5, <1>6, <1>7, <1>8, <1>9, <1>10 DEF IInv

LEMMA StatusHolds ==
  ASSUME IInv, started, NEW t \in Themes, NEW c \in Contents, NEW status \in {"active", "disabled"},
         SetVersionStatus(t, c, status)
  PROVE  IInv' /\ (status = "disabled" => NoneRevived)
  <1>1. /\ versions[t][c] # "absent"
        /\ ~(status = "disabled" /\ t \in defaults /\ theme[t].current = c)
        /\ UNCHANGED <<theme, defaults, pending, referenced, started>>
    BY DEF SetVersionStatus
  <1>2. /\ versions' \in [Themes -> [Contents -> Statuses]] /\ versions'[t][c] = status
        /\ \A u \in Themes, d \in Contents : u # t \/ d # c => versions'[u][d] = versions[u][d]
        /\ \A u \in Themes : u # t => versions'[u] = versions[u]
    BY DEF SetVersionStatus, IInv, TypeOK, Statuses
  <1>3. ASSUME NEW u \in Themes
        PROVE  Keeps(u)
    <2>1. CASE u = t
      <3>1. /\ theme[t].scope = "private" <=> theme[t].owner # NoOwner
            /\ t \in Builtins => theme[t].scope = "catalog"
            /\ pending[t] # NoContent => theme[t].scope = "private" /\ theme[t].current = pending[t]
        BY DEF IInv, TypeOK, BuiltinsInCatalog, ReviewedIsCurrent
      <3>2. referenced[t] \subseteq Contents /\ \A d \in referenced[t] : versions'[t][d] # "absent"
        BY <1>1, <1>2 DEF IInv, TypeOK, SnapshotsResolve
      <3>3. theme[t].scope # "absent"
        BY <1>1, NoVersionsType DEF IInv, AbsentIsEmpty, Exists
      <3> QED BY <2>1, <3>1, <3>2, <3>3, <1>1 DEF Keeps
    <2>2. CASE u # t
      BY <2>2, <1>1, <1>2, UntouchedKeeps
    <2> QED BY <2>1, <2>2
  <1>4. DefaultsUsable'
    <2> SUFFICES ASSUME NEW d \in defaults
                 PROVE  versions'[d][theme[d].current] = "active"
      BY <1>1, DefaultsInCatalog DEF DefaultsUsable, DefaultTheme, Usable, Exists
    <2>1. d \in Themes /\ theme[d].current \in Contents /\ versions[d][theme[d].current] = "active"
      BY DefaultsInCatalog
    <2> QED BY <2>1, <1>1, <1>2
  <1>5. IInv'
    <2>1. /\ theme' \in [Themes -> ThemeRows] /\ pending' \in [Themes -> Contents \cup {NoContent}]
          /\ defaults' \subseteq Themes /\ OneDefault'
      BY <1>1 DEF IInv, TypeOK, OneDefault
    <2>2. started' \in BOOLEAN
      BY <1>1 DEF IInv, TypeOK
    <2> QED BY <1>1, <1>2, <1>3, <1>4, <2>1, <2>2, KeepsAll
  <1>6. status = "disabled" => NoneRevived
    BY <1>2 DEF NoneRevived, Disabled
  <1> QED BY <1>5, <1>6

\* What a patch of the enabled flag leaves alone.
LEMMA EnabledFacts ==
  ASSUME NEW row \in ThemeRows, NEW enabled \in BOOLEAN
  PROVE  LET new == [row EXCEPT !.enabled = enabled] IN
         /\ new \in ThemeRows /\ new.enabled = enabled
         /\ new.scope = row.scope /\ new.owner = row.owner
         /\ new.slug = row.slug /\ new.current = row.current
  <1>1. [row EXCEPT !.enabled = enabled] \in ThemeRows
    BY DEF ThemeRows
  <1>2. [row EXCEPT !.enabled = enabled].enabled = enabled
    BY DEF ThemeRows
  <1> QED BY <1>1, <1>2 DEF ThemeRows

\* A change of the enabled flag and of versions that leaves none absent.
LEMMA EnabledKeeps ==
  ASSUME IInv, NEW t \in Themes, Exists(t),
         theme'[t].scope = theme[t].scope, theme'[t].owner = theme[t].owner,
         theme'[t].slug = theme[t].slug, theme'[t].current = theme[t].current,
         \A d \in Contents : versions[t][d] # "absent" => versions'[t][d] # "absent",
         pending'[t] = pending[t]
  PROVE  Keeps(t)
  <1>1. /\ theme[t].scope = "private" <=> theme[t].owner # NoOwner
        /\ t \in Builtins => theme[t].scope = "catalog"
        /\ pending[t] # NoContent => theme[t].scope = "private" /\ theme[t].current = pending[t]
    BY DEF IInv, TypeOK, BuiltinsInCatalog, ReviewedIsCurrent
  <1>2. referenced[t] \subseteq Contents /\ \A d \in referenced[t] : versions[t][d] # "absent"
    BY DEF IInv, TypeOK, SnapshotsResolve
  <1> QED BY <1>1, <1>2 DEF Keeps, Exists

LEMMA EnabledHolds ==
  ASSUME IInv, started, NEW t \in Themes, NEW enabled \in BOOLEAN, SetEnabled(t, enabled)
  PROVE  IInv' /\ NoneRevived
  <1> DEFINE row == [theme[t] EXCEPT !.enabled = enabled]
  <1>1. /\ Exists(t) /\ (t \in defaults => enabled)
        /\ theme' = [theme EXCEPT ![t] = row]
        /\ UNCHANGED <<defaults, versions, pending, referenced, started>>
    BY DEF SetEnabled
  <1>2. /\ row \in ThemeRows /\ row.enabled = enabled
        /\ row.scope = theme[t].scope /\ row.owner = theme[t].owner
        /\ row.slug = theme[t].slug /\ row.current = theme[t].current
    BY EnabledFacts DEF IInv, TypeOK
  <1> HIDE DEF row
  <1>3. /\ theme' \in [Themes -> ThemeRows] /\ theme'[t] = row
        /\ \A u \in Themes : u # t => theme'[u] = theme[u]
    BY <1>1, <1>2 DEF IInv, TypeOK
  <1>4. ASSUME NEW u \in Themes
        PROVE  Keeps(u)
    <2>1. CASE u = t
      BY <2>1, <1>1, <1>2, <1>3, EnabledKeeps
    <2>2. CASE u # t
      BY <2>2, <1>1, <1>3, UntouchedKeeps
    <2> QED BY <2>1, <2>2
  <1>5. DefaultsUsable'
    <2> SUFFICES ASSUME NEW d \in defaults
                 PROVE  /\ theme'[d].scope = "catalog" /\ theme'[d].enabled
                        /\ theme'[d].current = theme[d].current
      BY <1>1, DefaultsInCatalog DEF DefaultsUsable, DefaultTheme, Usable, Exists
    <2>1. d \in Themes /\ theme[d].scope = "catalog" /\ theme[d].enabled
      BY DefaultsInCatalog
    <2> QED BY <2>1, <1>1, <1>2, <1>3
  <1>6. IInv'
    <2>1. /\ versions' \in [Themes -> [Contents -> Statuses]] /\ defaults' \subseteq Themes
          /\ pending' \in [Themes -> Contents \cup {NoContent}] /\ OneDefault'
      BY <1>1 DEF IInv, TypeOK, OneDefault
    <2>2. started' \in BOOLEAN
      BY <1>1 DEF IInv, TypeOK
    <2> QED BY <1>1, <1>3, <1>4, <1>5, <2>1, <2>2, KeepsAll
  <1> QED BY <1>1, <1>6 DEF NoneRevived, Disabled

LEMMA DefaultHolds ==
  ASSUME IInv, started, NEW t \in Themes, NEW reactivate \in BOOLEAN, MakeDefault(t, reactivate)
  PROVE  IInv' /\ (~reactivate => NoneRevived)
  <1> DEFINE row == [theme[t] EXCEPT !.enabled = TRUE]
             c == theme[t].current
  <1>1. /\ theme[t].scope = "catalog" /\ c # NoContent
        /\ reactivate \/ versions[t][c] = "active"
        /\ theme' = [theme EXCEPT ![t] = row] /\ versions' = [versions EXCEPT ![t][c] = "active"]
        /\ defaults' = {t} /\ UNCHANGED <<pending, referenced, started>>
    BY DEF MakeDefault
  <1>2. /\ row \in ThemeRows /\ row.enabled
        /\ row.scope = theme[t].scope /\ row.owner = theme[t].owner
        /\ row.slug = theme[t].slug /\ row.current = c
    BY EnabledFacts DEF IInv, TypeOK
  <1>3. c \in Contents
    BY <1>1 DEF IInv, TypeOK, ThemeRows
  <1> HIDE DEF row, c
  <1>4. /\ theme' \in [Themes -> ThemeRows] /\ theme'[t] = row
        /\ \A u \in Themes : u # t => theme'[u] = theme[u]
    BY <1>1, <1>2 DEF IInv, TypeOK
  <1>5. /\ versions' \in [Themes -> [Contents -> Statuses]] /\ versions'[t][c] = "active"
        /\ \A d \in Contents : d # c => versions'[t][d] = versions[t][d]
        /\ \A u \in Themes : u # t => versions'[u] = versions[u]
    BY <1>1, <1>3 DEF IInv, TypeOK, Statuses
  <1>6. ASSUME NEW u \in Themes
        PROVE  Keeps(u)
    <2>1. CASE u = t
      <3>1. Exists(t)
        BY <1>1 DEF Exists
      <3>2. theme[t].current = c
        BY DEF c
      <3> QED BY <2>1, <3>1, <3>2, <1>1, <1>2, <1>4, <1>5, EnabledKeeps
    <2>2. CASE u # t
      BY <2>2, <1>1, <1>4, <1>5, UntouchedKeeps
    <2> QED BY <2>1, <2>2
  <1>7. IInv'
    <2>1. OneDefault' /\ DefaultsUsable'
      BY <1>1, <1>2, <1>3, <1>4, <1>5 DEF OneDefault, DefaultsUsable, DefaultTheme, Usable, Exists
    <2>2. defaults' \subseteq Themes /\ pending' \in [Themes -> Contents \cup {NoContent}]
      BY <1>1 DEF IInv, TypeOK
    <2>3. started' \in BOOLEAN
      BY <1>1 DEF IInv, TypeOK
    <2> QED BY <1>1, <1>4, <1>5, <1>6, <2>1, <2>2, <2>3, KeepsAll
  <1>8. ~reactivate => NoneRevived
    BY <1>1, <1>3, <1>5 DEF NoneRevived, Disabled
  <1> QED BY <1>7, <1>8

LEMMA PublishHolds ==
  ASSUME IInv, started, NEW o \in Owners, NEW t \in Themes, Publish(o, t)
  PROVE  IInv' /\ NoneRevived
  <1> DEFINE u == Resolved(t, o)
  <1>1. /\ Usable(u) /\ referenced' = [referenced EXCEPT ![u] = @ \cup {theme[u].current}]
        /\ UNCHANGED <<theme, defaults, versions, pending, started>>
    BY DEF Publish
  <1>2. u \in Themes
    BY DEF Resolved, IInv, OneDefault
  <1> HIDE DEF u
  <1>3. theme[u].current \in Contents /\ versions[u][theme[u].current] = "active"
    BY <1>1 DEF Usable
  <1>4. TypeOK'
    <2>1. referenced' \in [Themes -> SUBSET Contents]
      BY <1>1, <1>2, <1>3 DEF IInv, TypeOK
    <2> QED BY <1>1, <2>1 DEF IInv, TypeOK
  <1>5. SnapshotsResolve'
    BY <1>1, <1>2, <1>3 DEF IInv, TypeOK, SnapshotsResolve
  <1>6. /\ OneDefault' /\ DefaultsUsable' /\ ReviewedIsCurrent' /\ CatalogSlugsUnique'
        /\ AbsentIsEmpty' /\ BuiltinsInCatalog'
    BY <1>1 DEF IInv, OneDefault, DefaultsUsable, DefaultTheme, Usable, ReviewedIsCurrent,
                CatalogSlugsUnique, AbsentIsEmpty, BuiltinsInCatalog, Exists
  <1> QED BY <1>1, <1>4, <1>5, <1>6 DEF IInv, NoneRevived, Disabled

\* A start brings new versions of built-in themes; those that are usable stay
\* usable, and the default is one that is.
LEMMA SyncHolds ==
  ASSUME IInv, NEW shipped \in [Shipped -> Contents], SyncBuiltin(shipped)
  PROVE  IInv' /\ NoneRevived
  <1> DEFINE new(u) == Upserted(theme[u], versions[u], shipped[u])
  <1>1. /\ theme' = [u \in Themes |-> IF u \in Shipped THEN new(u).row ELSE theme[u]]
        /\ versions' = [u \in Themes |-> IF u \in Shipped THEN new(u).versions ELSE versions[u]]
        /\ UNCHANGED <<pending, referenced>> /\ started'
    BY DEF SyncBuiltin
  <1>2. ASSUME NEW u \in Shipped
        PROVE  /\ new(u).row \in ThemeRows /\ new(u).versions \in [Contents -> Statuses]
               /\ new(u).row.scope = theme[u].scope /\ new(u).row.owner = theme[u].owner
               /\ new(u).row.slug = theme[u].slug /\ new(u).row.enabled = theme[u].enabled
               /\ \A d \in Contents :
                    /\ versions[u][d] # "absent" => new(u).versions[d] # "absent"
                    /\ versions[u][d] = "disabled" => new(u).versions[d] = "disabled"
    <2>1. theme[u] \in ThemeRows /\ versions[u] \in [Contents -> Statuses] /\ shipped[u] \in Contents
      BY BuiltinsAssumption DEF IInv, TypeOK, Themes
    <2> QED BY <2>1, UpsertedFacts
  <1>3. Shipped \subseteq Themes /\ Shipped \subseteq Builtins
    BY BuiltinsAssumption DEF Themes
  <1> HIDE DEF new
  <1>4. theme' \in [Themes -> ThemeRows] /\ versions' \in [Themes -> [Contents -> Statuses]]
    <2>1. theme' \in [Themes -> ThemeRows]
      BY <1>1, <1>2 DEF IInv, TypeOK
    <2> QED BY <1>1, <1>2, <2>1 DEF IInv, TypeOK
  <1>5. ASSUME NEW u \in Themes
        PROVE  Keeps(u)
    <2>1. CASE u \in Shipped
      <3>1. /\ theme[u].scope = "catalog" /\ theme[u].owner = NoOwner /\ pending[u] = NoContent
        BY <2>1, <1>3 DEF IInv, TypeOK, BuiltinsInCatalog, ReviewedIsCurrent
      <3>2. referenced[u] \subseteq Contents /\ \A d \in referenced[u] : versions[u][d] # "absent"
        BY DEF IInv, TypeOK, SnapshotsResolve
      <3>3. theme'[u] = new(u).row /\ versions'[u] = new(u).versions
        BY <2>1, <1>1
      <3> QED BY <2>1, <3>1, <3>2, <3>3, <1>1, <1>2 DEF Keeps
    <2>2. CASE u \notin Shipped
      BY <2>2, <1>1, UntouchedKeeps
    <2> QED BY <2>1, <2>2
  <1>6. OneDefault' /\ DefaultsUsable' /\ defaults' \subseteq Themes
    <2>1. CASE (\A t \in defaults : DefaultTheme(t)') /\ UNCHANGED defaults
      BY <2>1 DEF IInv, TypeOK, OneDefault, DefaultsUsable
    <2>2. CASE \E t \in Themes : DefaultTheme(t)' /\ defaults' = {t}
      BY <2>2 DEF OneDefault, DefaultsUsable
    <2> QED BY <2>1, <2>2 DEF SyncBuiltin
  <1>7. started' \in BOOLEAN
    BY DEF SyncBuiltin
  <1>8. IInv'
    <2>1. pending' \in [Themes -> Contents \cup {NoContent}]
      BY <1>1 DEF IInv, TypeOK
    <2> QED BY <1>1, <1>4, <1>5, <1>6, <1>7, <2>1, KeepsAll
  <1>9. NoneRevived
    BY <1>1, <1>2 DEF NoneRevived, Disabled
  <1> QED BY <1>8, <1>9

-----------------------------------------------------------------------------

LEMMA StepHolds ==
  ASSUME IInv, Next
  PROVE  IInv' /\ (NoneRevived \/ Administers)
  <1>1. ASSUME started, NEW t \in Themes, NEW c \in Contents, NEW status \in {"active", "disabled"},
               SetVersionStatus(t, c, status)
        PROVE  IInv' /\ (NoneRevived \/ Administers)
    BY <1>1, StatusHolds DEF Administers
  <1>2. ASSUME started, NEW t \in Themes, NEW reactivate \in BOOLEAN, MakeDefault(t, reactivate)
        PROVE  IInv' /\ (NoneRevived \/ Administers)
    <2>1. CASE reactivate
      <3>1. MakeDefault(t, TRUE)
        BY <1>2, <2>1
      <3> QED BY <1>2, <3>1, DefaultHolds DEF Administers
    <2>2. CASE ~reactivate
      BY <1>2, <2>2, DefaultHolds
    <2> QED BY <2>1, <2>2
  <1> QED BY <1>1, <1>2, InstallHolds, UpgradeHolds, UninstallHolds, RequestHolds, ApproveHolds,
             EnabledHolds, PublishHolds, SyncHolds DEF Next, Serve

LEMMA StutterHolds == ASSUME IInv, UNCHANGED vars PROVE IInv'
  BY DEF vars, IInv, TypeOK, OneDefault, DefaultsUsable, DefaultTheme, Usable, SnapshotsResolve,
         ReviewedIsCurrent, CatalogSlugsUnique, AbsentIsEmpty, BuiltinsInCatalog, Exists

LEMMA Invariance == Spec => []IInv
  <1>1. IInv /\ [Next]_vars => IInv'
    BY StepHolds, StutterHolds
  <1> QED BY <1>1, InitHolds, PTL DEF Spec

\* Every reachable state is well typed; catalog themes have no owner and
\* private ones have one (the triggers of migration 0014).
THEOREM TypeCorrect == Spec => []TypeOK
  <1>1. IInv => TypeOK
    BY DEF IInv
  <1> QED BY <1>1, Invariance, PTL

\* The fallback of every publication works while the program serves
\* (AssertDefaultThemeUsable, UpdateTheme, SetVersionStatus).
THEOREM FallbackWorks == Spec => []DefaultUsable
  <1>1. IInv => DefaultUsable
    BY DEF IInv, OneDefault, DefaultsUsable, DefaultUsable
  <1> QED BY <1>1, Invariance, PTL

\* Uninstalling and reclaiming never delete a version a published page is
\* locked to (UninstallPrivate, reclaimTombstones).
THEOREM PublishedVersionsStay == Spec => []SnapshotsResolve
  <1>1. IInv => SnapshotsResolve
    BY DEF IInv
  <1> QED BY <1>1, Invariance, PTL

\* Every page can be rendered, now and after any sequence of operations
\* (ResolveEligibleVersion, AssertDefaultThemeUsable).
THEOREM PagesAlwaysRender == Spec => []PagesRender
  <1>1. DefaultUsable /\ SnapshotsResolve => PagesRender
    BY DEF PagesRender
  <1> QED BY <1>1, FallbackWorks, PublishedVersionsStay, PTL

\* What is approved is what was reviewed, and no two themes enter the catalog
\* under one name (themecatalog Create and Review).
THEOREM CatalogIsSound == Spec => []ReviewsAreSound
  <1>1. IInv => ReviewsAreSound
    BY DEF IInv, ReviewsAreSound
  <1> QED BY <1>1, Invariance, PTL

\* Only an administrator revives a disabled version (upsertVersionTx).
THEOREM DisabledStaysDisabled == Spec => NoRevival
  <1> DEFINE A == \A t \in Themes, c \in Contents :
                    versions[t][c] = "disabled" /\ versions'[t][c] = "active" => Administers
  <1>1. IInv /\ [Next]_vars => [A]_vars
    <2> SUFFICES ASSUME IInv, Next PROVE A
      OBVIOUS
    <2>1. NoneRevived \/ Administers
      BY StepHolds
    <2> QED BY <2>1 DEF NoneRevived, Disabled
  <1>2. NoRevival <=> [][A]_vars
    BY DEF NoRevival
  <1> HIDE DEF A
  <1> QED BY <1>1, <1>2, Invariance, PTL DEF Spec

-----------------------------------------------------------------------------
(* The quota.  It counts tombstones too, so what it bounds is every private *)
(* theme of an owner; those are finitely many because they come one by one. *)

WithinQuota ==
  \A o \in Owners : IsFiniteSet(OwnedBy(o)) /\ Cardinality(OwnedBy(o)) <= Quota

\* No private theme is new, or changes its owner.
OwnersKept ==
  \A u \in Themes :
    theme'[u].scope = "private" => theme[u].scope = "private" /\ theme'[u].owner = theme[u].owner

LEMMA FewerOwned ==
  ASSUME WithinQuota, NEW o \in Owners, NEW S, OwnedBy(o)' \subseteq S, S \subseteq OwnedBy(o)
  PROVE  /\ IsFiniteSet(OwnedBy(o)') /\ Cardinality(OwnedBy(o)') \in Nat
         /\ IsFiniteSet(S) /\ Cardinality(S) \in Nat /\ Cardinality(S) <= Quota
         /\ Cardinality(OwnedBy(o)') <= Cardinality(S)
  <1>1. IsFiniteSet(OwnedBy(o)) /\ Cardinality(OwnedBy(o)) <= Quota /\ Quota \in Nat
    BY QuotaAssumption DEF WithinQuota
  <1>2. Cardinality(OwnedBy(o)) \in Nat
    BY <1>1, FS_CardinalityType
  <1>3. IsFiniteSet(S) /\ Cardinality(S) <= Cardinality(OwnedBy(o))
    BY <1>1, FS_Subset
  <1>4. IsFiniteSet(OwnedBy(o)') /\ Cardinality(OwnedBy(o)') <= Cardinality(S)
    BY <1>3, FS_Subset
  <1>5. Cardinality(S) \in Nat /\ Cardinality(OwnedBy(o)') \in Nat
    BY <1>3, <1>4, FS_CardinalityType
  <1> QED BY <1>1, <1>2, <1>3, <1>4, <1>5

LEMMA OwnersKeptHolds ==
  ASSUME WithinQuota, OwnersKept
  PROVE  WithinQuota'
  <1> SUFFICES ASSUME NEW o \in Owners
               PROVE  IsFiniteSet(OwnedBy(o)') /\ Cardinality(OwnedBy(o)') <= Quota
    BY DEF WithinQuota
  <1>1. OwnedBy(o)' \subseteq OwnedBy(o)
    BY DEF OwnersKept, OwnedBy
  <1>2. /\ IsFiniteSet(OwnedBy(o)') /\ Cardinality(OwnedBy(o)') \in Nat
        /\ Cardinality(OwnedBy(o)) \in Nat /\ Cardinality(OwnedBy(o)) <= Quota
        /\ Cardinality(OwnedBy(o)') <= Cardinality(OwnedBy(o))
    BY <1>1, FewerOwned
  <1> QED BY <1>2, QuotaAssumption

\* A new theme is one more for its owner, after room was made, and none for
\* the others.
LEMMA InstallWithinQuota ==
  ASSUME IInv, WithinQuota, NEW o \in Owners, NEW s \in Slugs, NEW c \in Contents, Install(o, s, c)
  PROVE  WithinQuota'
  <1> DEFINE gone == IF Room(o) THEN {} ELSE {t \in OwnedBy(o) : Reclaimable(t)}
             first == Row("private", o, s, TRUE, NoContent)
             new == Upserted(first, NoVersions, c)
             stay == OwnedBy(o) \ gone
  <1>1. PICK t \in Rows :
          theme' = [u \in Themes |-> IF u = t THEN new.row
                                     ELSE IF u \in gone THEN Absent ELSE theme[u]]
    BY DEF Install
  <1>2. new.row.scope = "private" /\ new.row.owner = o
    <2>1. first \in ThemeRows /\ first.scope = "private" /\ first.owner = o
      BY NewRow
    <2> HIDE DEF first
    <2> QED BY <2>1, NoVersionsType, UpsertedFacts
  <1>3. Cardinality(stay) < Quota
    <2>1. CASE Room(o)
      <3>1. stay = OwnedBy(o)
        BY <2>1
      <3> QED BY <2>1, <3>1 DEF Room
    <2>2. CASE ~Room(o)
      BY <2>2 DEF Install
    <2> QED BY <2>1, <2>2
  <1>4. stay \subseteq OwnedBy(o)
    OBVIOUS
  <1> HIDE DEF gone, new, first
  <1>5. ASSUME NEW p \in Owners, p # o PROVE OwnedBy(p)' \subseteq OwnedBy(p)
    BY <1>1, <1>2, <1>5, AbsentRow DEF OwnedBy
  <1>6. OwnedBy(o)' \subseteq stay \cup {t}
    BY <1>1, <1>2, AbsentRow DEF OwnedBy
  <1> HIDE DEF stay
  <1>7. ASSUME NEW p \in Owners, p # o
        PROVE  IsFiniteSet(OwnedBy(p)') /\ Cardinality(OwnedBy(p)') <= Quota
    <2>1. /\ IsFiniteSet(OwnedBy(p)') /\ Cardinality(OwnedBy(p)') \in Nat
          /\ Cardinality(OwnedBy(p)) \in Nat /\ Cardinality(OwnedBy(p)) <= Quota
          /\ Cardinality(OwnedBy(p)') <= Cardinality(OwnedBy(p))
      BY <1>5, <1>7, FewerOwned
    <2> QED BY <2>1, QuotaAssumption
  <1>8. IsFiniteSet(OwnedBy(o)') /\ Cardinality(OwnedBy(o)') <= Quota
    <2>1. IsFiniteSet(stay) /\ Cardinality(stay) \in Nat
      <3>1. IsFiniteSet(OwnedBy(o))
        BY DEF WithinQuota
      <3> QED BY <1>4, <3>1, FS_Subset, FS_CardinalityType
    <2>2. /\ IsFiniteSet(stay \cup {t})
          /\ Cardinality(stay \cup {t}) =
               IF t \in stay THEN Cardinality(stay) ELSE Cardinality(stay) + 1
      BY <2>1, FS_AddElement
    <2>3. IsFiniteSet(OwnedBy(o)') /\ Cardinality(OwnedBy(o)') <= Cardinality(stay \cup {t})
      BY <1>6, <2>2, FS_Subset
    <2>4. Cardinality(OwnedBy(o)') \in Nat
      BY <2>3, FS_CardinalityType
    <2> QED BY <1>3, <2>1, <2>2, <2>3, <2>4, QuotaAssumption
  <1> QED BY <1>7, <1>8 DEF WithinQuota

\* Nothing but an installation gives anybody a private theme.
LEMMA NobodyIsGiven ==
  ASSUME IInv, Next PROVE OwnersKept \/ \E o \in Owners, s \in Slugs, c \in Contents : Install(o, s, c)
  <1>0. theme \in [Themes -> ThemeRows] /\ Rows \subseteq Themes
    BY DEF IInv, TypeOK, Themes
  <1>1. ASSUME NEW t \in Rows, NEW c \in Contents, Upgrade(t, c) PROVE OwnersKept
    <2> DEFINE new == Upserted(theme[t], versions[t], c)
               row == [new.row EXCEPT !.enabled = TRUE]
    <2>1. theme' = [theme EXCEPT ![t] = row] /\ theme[t].scope = "private"
      BY <1>1 DEF Upgrade
    <2>2. new.row \in ThemeRows /\ new.row.scope = theme[t].scope /\ new.row.owner = theme[t].owner
      <3>1. t \in Themes /\ theme[t] \in ThemeRows /\ versions[t] \in [Contents -> Statuses]
        BY <1>0 DEF IInv, TypeOK
      <3> QED BY <3>1, UpsertedFacts
    <2> HIDE DEF new
    <2>3. row.owner = theme[t].owner
      BY <2>2 DEF ThemeRows
    <2> HIDE DEF row
    <2> QED BY <1>0, <2>1, <2>3 DEF OwnersKept
  <1>2. ASSUME NEW t \in Themes, NEW e \in BOOLEAN, theme' = [theme EXCEPT ![t].enabled = e]
        PROVE  OwnersKept
    <2> DEFINE row == [theme[t] EXCEPT !.enabled = e]
    <2>1. theme' = [theme EXCEPT ![t] = row]
      BY <1>2
    <2>2. row.scope = theme[t].scope /\ row.owner = theme[t].owner
      BY <1>0, EnabledFacts
    <2> HIDE DEF row
    <2> QED BY <1>0, <2>1, <2>2 DEF OwnersKept
  <1>3. ASSUME NEW t \in Rows, Uninstall(t) PROVE OwnersKept
    <2>1. CASE theme' = [theme EXCEPT ![t].enabled = FALSE]
      BY <1>0, <1>2, <2>1
    <2>2. CASE theme' = [u \in Themes |-> IF u \in {t} THEN Absent ELSE theme[u]]
      BY <2>2, AbsentRow DEF OwnersKept
    <2> QED BY <1>3, <2>1, <2>2 DEF Uninstall, Deleted
  <1>4. ASSUME NEW t \in Rows, Approve(t) PROVE OwnersKept
    <2>1. theme' = [theme EXCEPT ![t] = [@ EXCEPT !.scope = "catalog", !.owner = NoOwner]]
      BY <1>4 DEF Approve
    <2>2. theme'[t].scope = "catalog" /\ \A u \in Themes \ {t} : theme'[u] = theme[u]
      BY <1>0, <2>1 DEF ThemeRows
    <2> QED BY <2>2 DEF OwnersKept
  <1>5. ASSUME theme' = theme PROVE OwnersKept
    BY <1>5 DEF OwnersKept
  <1>6. ASSUME NEW shipped \in [Shipped -> Contents], SyncBuiltin(shipped) PROVE OwnersKept
    <2> DEFINE new(u) == Upserted(theme[u], versions[u], shipped[u])
    <2>1. theme' = [u \in Themes |-> IF u \in Shipped THEN new(u).row ELSE theme[u]]
      BY <1>6 DEF SyncBuiltin
    <2>2. ASSUME NEW u \in Shipped
          PROVE  new(u).row.scope = theme[u].scope /\ new(u).row.owner = theme[u].owner
      <3>1. theme[u] \in ThemeRows /\ versions[u] \in [Contents -> Statuses] /\ shipped[u] \in Contents
        BY BuiltinsAssumption DEF IInv, TypeOK, Themes
      <3> QED BY <3>1, UpsertedFacts
    <2> HIDE DEF new
    <2> QED BY <2>1, <2>2 DEF OwnersKept
  <1>7. ASSUME NEW t \in Rows, Apply(t) \/ EndRequest(t) PROVE OwnersKept
    BY <1>5, <1>7 DEF Apply, EndRequest
  <1>8. ASSUME NEW t \in Themes, NEW reactivate \in BOOLEAN, MakeDefault(t, reactivate)
        PROVE  OwnersKept
    BY <1>2, <1>8 DEF MakeDefault
  <1>9. ASSUME NEW t \in Themes, NEW enabled \in BOOLEAN, SetEnabled(t, enabled) PROVE OwnersKept
    BY <1>2, <1>9 DEF SetEnabled
  <1>10. ASSUME NEW o \in Owners, NEW t \in Themes, Publish(o, t) PROVE OwnersKept
    BY <1>5, <1>10 DEF Publish
  <1>11. ASSUME NEW t \in Themes, NEW c \in Contents, NEW status \in {"active", "disabled"},
                SetVersionStatus(t, c, status)
         PROVE  OwnersKept
    BY <1>5, <1>11 DEF SetVersionStatus
  <1> QED BY <1>1, <1>3, <1>4, <1>6, <1>7, <1>8, <1>9, <1>10, <1>11 DEF Next, Serve

\* Whatever is installed, uninstalled, reclaimed, approved and published, no
\* user has more private themes than the quota, the hidden ones that snapshots
\* keep alive included (install.go Install, reclaimTombstones).
THEOREM QuotaIsKept == Spec => []QuotaHolds
  <1>1. Init => WithinQuota
    <2> SUFFICES ASSUME Init, NEW o \in Owners
                 PROVE  IsFiniteSet(OwnedBy(o)) /\ Cardinality(OwnedBy(o)) <= Quota
      BY DEF WithinQuota
    <2>1. OwnedBy(o) = {}
      <3> SUFFICES ASSUME NEW t \in Themes PROVE theme[t].owner # o
        BY DEF OwnedBy
      <3> QED BY AbsentRow, NamesAssumption DEF Init, Row
    <2> QED BY <2>1, FS_EmptySet, QuotaAssumption
  <1>2. IInv /\ WithinQuota /\ [Next]_vars => WithinQuota'
    <2> SUFFICES ASSUME IInv, WithinQuota, [Next]_vars PROVE WithinQuota'
      OBVIOUS
    <2>1. CASE Next
      BY <2>1, NobodyIsGiven, OwnersKeptHolds, InstallWithinQuota
    <2>2. CASE UNCHANGED vars
      BY <2>2, OwnersKeptHolds DEF vars, OwnersKept
    <2> QED BY <2>1, <2>2
  <1>3. WithinQuota => QuotaHolds
    BY DEF WithinQuota, QuotaHolds
  <1>4. IInv /\ [Next]_vars => IInv'
    BY StepHolds, StutterHolds
  <1> QED BY <1>1, <1>2, <1>3, <1>4, InitHolds, PTL DEF Spec

-----------------------------------------------------------------------------
(***************************************************************************)
(* The theme page                                                          *)
(***************************************************************************)

Ops == {"theme", "background", "upload", "delete", "check", "import"}
Stages == {"save", "refetch", "upload", "scan", "clear", "drop", "check"}
Answers == {"none", "ok", "failed", "aborted"}
Pages == [revision : Nat \ {0}, settings : Settings]
TaskRecords ==
  [id : Nat, op : Ops, stage : Stages, want : ThemeIds \cup Backgrounds \cup Files,
   base : Settings, revision : Nat, answer : Answers]

\* What a handler is about, and how far it can have come.
TaskOK(c) ==
  /\ c \in TaskRecords
  /\ c.op = "theme" => c.want \in ThemeIds /\ c.stage \in {"save", "refetch"}
  /\ c.op = "background" => c.want \in Backgrounds /\ c.stage \in {"save", "refetch"}
  /\ c.op = "upload" => c.want \in Media /\ c.stage \in {"upload", "save", "refetch"}
  /\ c.op = "delete" => c.want \in Media /\ c.stage \in {"scan", "clear", "drop"}
  /\ c.op \in {"check", "import"} => c.want \in Files /\ c.stage = "check"
  /\ c.id = 0 => c.op = "delete"

TasksInv ==
  /\ \A c \in tasks : TaskOK(c) /\ c.id <= begun
  /\ \A c, d \in tasks : c.id = d.id /\ c.id # 0 => c = d

\* A page that was read: not ahead of the draft, and the draft at its revision.
IsRead(p) ==
  /\ p \in Pages
  /\ page.revision <= p.revision /\ p.revision <= draft.revision
  /\ p.revision = draft.revision => p.settings = draft.settings

IsClamped(s) == s = Clamped(s)

\* A save that can be served sends the draft's settings, but for one thing.
SaveOK(c) ==
  /\ c.stage = "clear" => IsClamped(c.base)
  /\ c.stage = "save" => c.revision <= page.revision
  /\ c.stage = "save" /\ c.op # "upload" /\ c.revision = draft.revision => c.base = draft.settings

PagesInv ==
  /\ draft \in Pages /\ IsClamped(draft.settings)
  /\ IsRead(page)
  /\ \/ reading \in {Idle, Sent}
     \/ Len(reading) = 2 /\ reading = <<"read", reading[2]>> /\ IsRead(reading[2])
  /\ \A c \in tasks : SaveOK(c)

Alone ==
  \A c, d \in tasks : c.op = "theme" /\ d.op \in {"theme", "upload", "delete"} => c = d

\* The choice has ended and its page is still to come.
Ahead ==
  /\ reading # Idle \/ isError
  /\ page.revision < draft.revision
  /\ draft.settings.theme = activeId
  /\ Len(reading) = 2 => reading[2].settings.theme = activeId
  /\ \A c \in tasks : c.stage = "clear" => c.base.theme = activeId

\* A choice that was accepted is the draft's, and on its way to the page.
ChoiceOK(c) ==
  /\ c.answer = "ok" => activeId = page.settings.theme /\ draft.settings.theme = c.want
  /\ c.stage = "refetch" =>
       /\ c.answer = "ok" /\ reading # Idle
       /\ Len(reading) = 2 => reading[2].settings.theme = c.want

Undisturbed == others = 0 /\ ~overlaid

MarkInv ==
  Undisturbed =>
    /\ Alone
    /\ activeId = page.settings.theme \/ Ahead
    /\ \A c \in tasks : c.op = "theme" => ChoiceOK(c)

ImportOK(c) ==
  /\ c.op = "check" /\ Heard(c) => dialog.file \in {c.want, NoFile}
  /\ c.op = "import" => c.want \in GoodFiles

DialogInv ==
  /\ dialog.validation = "valid" => dialog.file \in GoodFiles \cup {NoFile}
  /\ \A c \in tasks : ImportOK(c)

PreviewInv ==
  /\ sheet.loading # "none" => sheet.loading = PreviewId
  /\ PreviewFollows

StudioInv == StudioTypeOK /\ TasksInv /\ PagesInv /\ MarkInv /\ DialogInv /\ PreviewInv

-----------------------------------------------------------------------------
(* Settings *)

LEMMA ClampedRecord ==
  ASSUME NEW t, NEW b, NEW l
  PROVE  Clamped([theme |-> t, background |-> b, look |-> l])
         = [theme |-> t, background |-> b, look |-> Fitted(t, l)]
  <1>1. PICK s : s = [theme |-> t, background |-> b, look |-> l]
    OBVIOUS
  <1>2. PICK k : k = Fitted(t, l)
    OBVIOUS
  <1>3. Clamped(s) = [s EXCEPT !.look = k]
    BY <1>1, <1>2 DEF Clamped
  <1>4. Clamped(s) = [theme |-> t, background |-> b, look |-> k]
    BY <1>1, <1>3
  <1> QED BY <1>1, <1>2, <1>4

LEMMA ClampFacts ==
  ASSUME NEW s \in Settings
  PROVE  /\ Clamped(s) \in Settings /\ IsClamped(Clamped(s))
         /\ Clamped(s).theme = s.theme /\ Clamped(s).background = s.background
         /\ Clamped(s).look = Fitted(s.theme, s.look)
         /\ \A b \in Backgrounds : IsClamped(s) => IsClamped([s EXCEPT !.background = b])
  <1>1. s = [theme |-> s.theme, background |-> s.background, look |-> s.look] /\ s.theme \in ThemeIds
        /\ s.background \in Backgrounds /\ s.look \in Looks
    BY DEF Settings
  <1>2. \A l \in Looks : Fitted(s.theme, l) \in Looks /\ Fitted(s.theme, Fitted(s.theme, l)) = Fitted(s.theme, l)
    BY DEF Fitted, Looks
  <1>3. Clamped(s) = [theme |-> s.theme, background |-> s.background, look |-> Fitted(s.theme, s.look)]
    BY <1>1, ClampedRecord
  <1>4. Clamped(s) \in Settings
    BY <1>1, <1>2, <1>3 DEF Settings
  <1>5. Clamped(Clamped(s)) = [theme |-> s.theme, background |-> s.background, look |-> Fitted(s.theme, Fitted(s.theme, s.look))]
    BY <1>3, ClampedRecord
  <1>6. IsClamped(Clamped(s))
    BY <1>1, <1>2, <1>3, <1>5 DEF IsClamped
  <1>7. ASSUME NEW b \in Backgrounds, IsClamped(s) PROVE IsClamped([s EXCEPT !.background = b])
    <2>1. s.look = Fitted(s.theme, s.look)
      BY <1>3, <1>7 DEF IsClamped
    <2>2. [s EXCEPT !.background = b] = [theme |-> s.theme, background |-> b, look |-> s.look]
      BY <1>1
    <2>3. Clamped([s EXCEPT !.background = b]) = [theme |-> s.theme, background |-> b, look |-> Fitted(s.theme, s.look)]
      BY <2>2, ClampedRecord
    <2> QED BY <2>1, <2>2, <2>3 DEF IsClamped
  <1> QED BY <1>3, <1>4, <1>6, <1>7

\* What a save makes of the draft.
LEMMA SavedFacts ==
  ASSUME NEW c, TaskOK(c), c.stage = "save"
  PROVE  /\ Clamped(Body(c)) \in Settings /\ IsClamped(Clamped(Body(c)))
         /\ c.op = "theme" =>
              /\ Clamped(Body(c)).theme = c.want
              /\ Clamped(Body(c)).background = c.base.background
              /\ Clamped(Body(c)).look = Fitted(c.want, c.base.look)
         /\ c.op # "theme" => Clamped(Body(c)).theme = c.base.theme
         /\ c.op = "background" /\ IsClamped(c.base) =>
              Clamped(Body(c)) = [c.base EXCEPT !.background = c.want]
  <1>1. /\ c.base \in Settings /\ c.op \in {"theme", "background", "upload"}
        /\ c.op = "theme" => c.want \in ThemeIds
        /\ c.op # "theme" => c.want \in Backgrounds
    BY DEF TaskOK, TaskRecords, Ops, Backgrounds
  <1>2. PICK s : s = c.base
    OBVIOUS
  <1>3. s = [theme |-> s.theme, background |-> s.background, look |-> s.look] /\ s.theme \in ThemeIds
        /\ s.background \in Backgrounds /\ s.look \in Looks
    BY <1>1, <1>2 DEF Settings
  <1>4. CASE c.op = "theme"
    <2>1. Body(c) = [s EXCEPT !.theme = c.want, !.look = Fitted(c.want, s.look)]
      BY <1>2, <1>4 DEF Body
    <2>2. Body(c) = [theme |-> c.want, background |-> s.background, look |-> Fitted(c.want, s.look)]
      BY <1>3, <2>1
    <2>3. Fitted(c.want, s.look) \in Looks /\ Fitted(c.want, Fitted(c.want, s.look)) = Fitted(c.want, s.look)
      BY <1>3 DEF Fitted, Looks
    <2>4. Body(c) \in Settings
      BY <1>1, <1>3, <1>4, <2>2, <2>3 DEF Settings
    <2>5. /\ Clamped(Body(c)).theme = c.want /\ Clamped(Body(c)).background = s.background
          /\ Clamped(Body(c)).look = Fitted(c.want, s.look)
      BY <2>2, <2>3, <2>4, ClampFacts
    <2> QED BY <1>2, <1>4, <2>4, <2>5, ClampFacts
  <1>5. CASE c.op # "theme"
    <2>1. Body(c) = [s EXCEPT !.background = c.want]
      BY <1>2, <1>5 DEF Body
    <2>2. Body(c) = [theme |-> s.theme, background |-> c.want, look |-> s.look]
      BY <1>3, <2>1
    <2>3. Body(c) \in Settings
      BY <1>1, <1>3, <1>5, <2>2 DEF Settings
    <2>4. IsClamped(s) => IsClamped(Body(c))
      BY <1>1, <1>2, <1>5, <2>1, ClampFacts
    <2>5. IsClamped(s) => Clamped(Body(c)) = Body(c)
      BY <2>4 DEF IsClamped
    <2>6. Clamped(Body(c)).theme = s.theme
      BY <2>2, <2>3, ClampFacts
    <2> QED BY <1>2, <1>5, <2>1, <2>3, <2>5, <2>6, ClampFacts
  <1> QED BY <1>4, <1>5

-----------------------------------------------------------------------------
(* Handlers *)

\* The handler c at another point of its way.
Moved(c, stage, base, revision, answer) ==
  [id |-> c.id, op |-> c.op, stage |-> stage, want |-> c.want,
   base |-> base, revision |-> revision, answer |-> answer]

LEMMA MovedFacts ==
  ASSUME NEW c, TaskOK(c)
  PROVE  /\ \A a : [c EXCEPT !.answer = a] = Moved(c, c.stage, c.base, c.revision, a)
         /\ \A s : [c EXCEPT !.stage = s] = Moved(c, s, c.base, c.revision, c.answer)
         /\ \A s, b : [c EXCEPT !.stage = s, !.base = b] = Moved(c, s, b, c.revision, c.answer)
         /\ c = Moved(c, c.stage, c.base, c.revision, c.answer)
  <1>1. c = [id |-> c.id, op |-> c.op, stage |-> c.stage, want |-> c.want,
             base |-> c.base, revision |-> c.revision, answer |-> c.answer]
    BY DEF TaskOK, TaskRecords
  <1>2. \A a : [c EXCEPT !.answer = a] = Moved(c, c.stage, c.base, c.revision, a)
    BY <1>1 DEF Moved
  <1>3. \A s : [c EXCEPT !.stage = s] = Moved(c, s, c.base, c.revision, c.answer)
    BY <1>1 DEF Moved
  <1>4. \A s, b : [c EXCEPT !.stage = s, !.base = b] = Moved(c, s, b, c.revision, c.answer)
    <2> TAKE s, b
    <2>1. PICK d : d = [c EXCEPT !.stage = s]
      OBVIOUS
    <2>2. d = [id |-> c.id, op |-> c.op, stage |-> s, want |-> c.want,
               base |-> c.base, revision |-> c.revision, answer |-> c.answer]
      BY <1>3, <2>1 DEF Moved
    <2>3. [d EXCEPT !.base = b] = Moved(c, s, b, c.revision, c.answer)
      BY <2>2 DEF Moved
    <2> QED BY <2>1, <2>3
  <1> QED BY <1>1, <1>2, <1>3, <1>4 DEF Moved

Sends(c, stage, answer, revision) == [c EXCEPT !.stage = stage, !.answer = answer, !.revision = revision]

LEMMA SendsFacts ==
  ASSUME NEW c, TaskOK(c), NEW s, NEW a, NEW r
  PROVE  Sends(c, s, a, r) = Moved(c, s, c.base, r, a)
  <1>1. PICK d : d = [c EXCEPT !.stage = s]
    OBVIOUS
  <1>2. d = [id |-> c.id, op |-> c.op, stage |-> s, want |-> c.want,
             base |-> c.base, revision |-> c.revision, answer |-> c.answer]
    BY <1>1, MovedFacts DEF Moved
  <1>3. PICK e : e = [d EXCEPT !.answer = a]
    OBVIOUS
  <1>4. e = [id |-> c.id, op |-> c.op, stage |-> s, want |-> c.want,
             base |-> c.base, revision |-> c.revision, answer |-> a]
    BY <1>2, <1>3
  <1>5. [e EXCEPT !.revision = r] = Moved(c, s, c.base, r, a)
    BY <1>4 DEF Moved
  <1> QED BY <1>1, <1>3, <1>5 DEF Sends

LEMMA MovedOK ==
  ASSUME NEW c, TaskOK(c), NEW b \in Settings, NEW r \in Nat, NEW a \in Answers, NEW s \in Stages,
         \/ s = c.stage
         \/ s \in {"save", "refetch"} /\ c.op \in {"theme", "background", "upload"}
         \/ s \in {"clear", "drop"} /\ c.op = "delete"
  PROVE  /\ TaskOK(Moved(c, s, b, r, a))
         /\ Moved(c, s, b, r, a).id = c.id
         /\ Moved(c, s, b, r, a).op = c.op
         /\ Moved(c, s, b, r, a).want = c.want
         /\ Moved(c, s, b, r, a).stage = s
         /\ Moved(c, s, b, r, a).base = b
         /\ Moved(c, s, b, r, a).revision = r
         /\ Moved(c, s, b, r, a).answer = a
  BY DEF Moved, TaskOK, TaskRecords

LEMMA HandlerFacts ==
  ASSUME page \in Pages, NEW n \in Nat, NEW op \in Ops, NEW stage \in Stages,
         NEW want \in ThemeIds \cup Backgrounds \cup Files
  PROVE  LET d == [Handler(op, stage, want) EXCEPT !.id = n] IN
         /\ d \in TaskRecords
         /\ d.id = n /\ d.op = op /\ d.stage = stage /\ d.want = want
         /\ d.base = page.settings /\ d.revision = page.revision /\ d.answer = "none"
  <1>1. PICK s : s = page.settings
    OBVIOUS
  <1>2. PICK r : r = page.revision
    OBVIOUS
  <1>3. s \in Settings /\ r \in Nat
    BY <1>1, <1>2 DEF Pages
  <1>4. Handler(op, stage, want) = [id |-> 0, op |-> op, stage |-> stage, want |-> want,
                                    base |-> s, revision |-> r, answer |-> "none"]
    BY <1>1, <1>2 DEF Handler
  <1>5. [Handler(op, stage, want) EXCEPT !.id = n]
        = [id |-> n, op |-> op, stage |-> stage, want |-> want,
           base |-> s, revision |-> r, answer |-> "none"]
    BY <1>4
  <1>6. "none" \in Answers
    BY DEF Answers
  <1> QED BY <1>1, <1>2, <1>3, <1>5, <1>6 DEF TaskRecords

\* Handlers end, or one of them goes on.
LEMMA TasksMoved ==
  ASSUME TasksInv, NEW c \in tasks, NEW d, TaskOK(d), d.id = c.id,
         tasks' \subseteq (tasks \ {c}) \cup {d}, begun' = begun
  PROVE  TasksInv'
  <1>1. \A x \in tasks' : TaskOK(x) /\ x.id <= begun'
    BY DEF TasksInv
  <1>2. \A x, y \in tasks' : x.id = y.id /\ x.id # 0 => x = y
    BY DEF TasksInv
  <1> QED BY <1>1, <1>2 DEF TasksInv

LEMMA TasksEnd ==
  ASSUME TasksInv, tasks' \subseteq tasks, begun' = begun
  PROVE  TasksInv'
  BY DEF TasksInv

LEMMA TasksBegin ==
  ASSUME TasksInv, begun \in Nat, NEW d, TaskOK(d), begun' = begun + 1, d.id = begun',
         tasks' = tasks \cup {d}
  PROVE  TasksInv'
  <1>1. \A x \in tasks : TaskOK(x) /\ x.id <= begun /\ x.id \in Nat
    BY DEF TasksInv, TaskOK, TaskRecords
  <1>2. \A x \in tasks' : TaskOK(x) /\ x.id <= begun'
    BY <1>1
  <1>3. \A x, y \in tasks' : x.id = y.id /\ x.id # 0 => x = y
    BY <1>1 DEF TasksInv
  <1> QED BY <1>2, <1>3 DEF TasksInv

\* A handler with a new number, as it begins.
Fresh(d, op, stage, want) ==
  /\ TaskOK(d) /\ d.id = begun' /\ d.op = op /\ d.stage = stage /\ d.want = want
  /\ d.base = page.settings /\ d.revision = page.revision /\ d.answer = "none"

LEMMA Starts ==
  ASSUME TasksInv, page \in Pages, begun \in Nat, NEW op, NEW stage, NEW want,
         Start(Handler(op, stage, want)),
         \/ op = "theme" /\ stage = "save" /\ want \in ThemeIds
         \/ op = "background" /\ stage = "save" /\ want \in Backgrounds
         \/ op = "upload" /\ stage = "upload" /\ want \in Media
         \/ op = "delete" /\ stage = "scan" /\ want \in Media
         \/ op = "import" /\ stage = "check" /\ want \in Files
  PROVE  /\ TasksInv'
         /\ begun' = begun + 1
         /\ \E d : tasks' = tasks \cup {d} /\ Fresh(d, op, stage, want)
  <1> DEFINE d == [Handler(op, stage, want) EXCEPT !.id = begun']
  <1>1. begun' = begun + 1 /\ begun' \in Nat /\ begun' # 0 /\ tasks' = tasks \cup {d}
    BY DEF Start
  <1>2. op \in Ops /\ stage \in Stages /\ want \in ThemeIds \cup Backgrounds \cup Files
    BY DEF Ops, Stages, Backgrounds
  <1>3. /\ d \in TaskRecords
        /\ d.id = begun' /\ d.op = op /\ d.stage = stage /\ d.want = want
        /\ d.base = page.settings /\ d.revision = page.revision /\ d.answer = "none"
    BY <1>1, <1>2, HandlerFacts
  <1> HIDE DEF d
  <1>4. TaskOK(d)
    BY <1>1, <1>3 DEF TaskOK
  <1>5. Fresh(d, op, stage, want)
    BY <1>3, <1>4 DEF Fresh
  <1> QED BY <1>1, <1>3, <1>4, <1>5, TasksBegin

\* Answers that are no longer listened to; everything else goes on.
LEMMA UnheardFacts ==
  ASSUME TasksInv, NEW ops
  PROVE  /\ \A d \in Unheard(ops) : \E c \in tasks :
              /\ d.id = c.id /\ d.op = c.op /\ d.want = c.want /\ d.stage = c.stage
              /\ d.base = c.base /\ d.revision = c.revision /\ TaskOK(d)
              /\ c.op \notin ops => d = c
              /\ c.op \in ops => d.answer = "aborted"
         /\ \A x, y \in Unheard(ops) : x.id = y.id /\ x.id # 0 => x = y
  <1> DEFINE Abort(c) == [c EXCEPT !.answer = IF c.op \in ops THEN "aborted" ELSE @]
  <1>1. ASSUME NEW c \in tasks
        PROVE  /\ Abort(c).id = c.id /\ Abort(c).op = c.op /\ Abort(c).want = c.want /\ Abort(c).stage = c.stage
               /\ Abort(c).base = c.base /\ Abort(c).revision = c.revision /\ TaskOK(Abort(c))
               /\ c.op \notin ops => Abort(c) = c
               /\ c.op \in ops => Abort(c).answer = "aborted"
    <2>1. TaskOK(c)
      BY DEF TasksInv
    <2>2. PICK a : a = IF c.op \in ops THEN "aborted" ELSE c.answer
      OBVIOUS
    <2>3. Abort(c) = [c EXCEPT !.answer = a]
      BY <2>2
    <2>4. Abort(c) = Moved(c, c.stage, c.base, c.revision, a)
      BY <2>1, <2>3, MovedFacts
    <2>5. /\ c.base \in Settings /\ c.revision \in Nat /\ c.stage \in Stages /\ a \in Answers
      BY <2>1, <2>2 DEF TaskOK, TaskRecords, Answers
    <2>6. c.op \notin ops => Abort(c) = c
      BY <2>1, <2>2, <2>4, MovedFacts
    <2> HIDE DEF Abort
    <2> QED BY <2>1, <2>2, <2>4, <2>5, <2>6, MovedOK
  <1>2. Unheard(ops) = {Abort(c) : c \in tasks}
    BY DEF Unheard
  <1> HIDE DEF Abort
  <1>3. \A x, y \in Unheard(ops) : x.id = y.id /\ x.id # 0 => x = y
    <2> TAKE x, y \in Unheard(ops)
    <2>1. PICK c \in tasks : x = Abort(c)
      BY <1>2
    <2>2. PICK d \in tasks : y = Abort(d)
      BY <1>2
    <2>3. c.id = d.id /\ c.id # 0 => c = d
      BY DEF TasksInv
    <2> QED BY <1>1, <2>1, <2>2, <2>3
  <1> QED BY <1>1, <1>2, <1>3

LEMMA AbortedFacts ==
  ASSUME TasksInv
  PROVE  /\ \A d \in Aborted : \E c \in tasks :
              /\ d.id = c.id /\ d.op = c.op /\ d.want = c.want /\ d.stage = c.stage
              /\ d.base = c.base /\ d.revision = c.revision /\ TaskOK(d)
              /\ c.op # "check" => d = c
              /\ c.op = "check" => d.answer = "aborted"
         /\ \A x, y \in Aborted : x.id = y.id /\ x.id # 0 => x = y
  <1>1. PICK ops : ops = {"check"}
    OBVIOUS
  <1>2. Aborted = Unheard(ops)
    BY <1>1 DEF Aborted
  <1>3. \A c : c.op \in ops <=> c.op = "check"
    BY <1>1
  <1> QED BY <1>2, <1>3, UnheardFacts

\* Of a page that fails: what goes on is what did not wait for it.
LEMMA LeftFacts ==
  ASSUME TasksInv, tasks' = Unheard({"check", "import"}) \ Waiting, begun' = begun
  PROVE  /\ TasksInv'
         /\ \A d \in tasks' : \E c \in tasks :
              /\ TaskOK(d) /\ d.id = c.id /\ d.op = c.op /\ d.want = c.want /\ d.stage = c.stage
              /\ d.base = c.base /\ d.revision = c.revision /\ d.stage # "refetch"
              /\ c.op \notin {"check", "import"} => d = c
              /\ c.op \in {"check", "import"} => d.answer = "aborted"
  <1>1. PICK ops : ops = {"check", "import"}
    OBVIOUS
  <1>2. tasks' = Unheard(ops) \ Waiting
    BY <1>1
  <1>3. ASSUME NEW d \in tasks'
        PROVE  \E c \in tasks :
                 /\ TaskOK(d) /\ d.id = c.id /\ d.op = c.op /\ d.want = c.want /\ d.stage = c.stage
                 /\ d.base = c.base /\ d.revision = c.revision /\ d.stage # "refetch"
                 /\ c.op \notin ops => d = c
                 /\ c.op \in ops => d.answer = "aborted"
    <2>1. PICK c \in tasks :
            /\ TaskOK(d) /\ d.id = c.id /\ d.op = c.op /\ d.want = c.want /\ d.stage = c.stage
            /\ d.base = c.base /\ d.revision = c.revision
            /\ c.op \notin ops => d = c
            /\ c.op \in ops => d.answer = "aborted"
      BY <1>2, UnheardFacts
    <2>2. CASE c.op \in ops
      BY <1>1, <2>1, <2>2 DEF TaskOK
    <2>3. CASE c.op \notin ops
      BY <1>2, <2>1, <2>3 DEF Waiting
    <2> QED BY <2>1, <2>2, <2>3
  <1>4. \A x, y \in tasks' : x.id = y.id /\ x.id # 0 => x = y
    BY <1>2, UnheardFacts
  <1>5. \A d \in tasks' : TaskOK(d) /\ d.id <= begun'
    BY <1>3 DEF TasksInv
  <1> QED BY <1>1, <1>3, <1>4, <1>5 DEF TasksInv

\* The same handler, later.
Same(c, d) == TaskOK(d) /\ d.id = c.id /\ d.op = c.op /\ d.want = c.want

LEMMA Replied ==
  ASSUME TasksInv, NEW c \in tasks, NEW a \in Answers
  PROVE  LET d == [c EXCEPT !.answer = a] IN
         Same(c, d) /\ d.stage = c.stage /\ d.base = c.base /\ d.revision = c.revision /\ d.answer = a
  <1>1. TaskOK(c) /\ c.stage \in Stages /\ c.base \in Settings /\ c.revision \in Nat
    BY DEF TasksInv, TaskOK, TaskRecords
  <1>2. [c EXCEPT !.answer = a] = Moved(c, c.stage, c.base, c.revision, a)
    BY <1>1, MovedFacts
  <1> QED BY <1>1, <1>2, MovedOK DEF Same

LEMMA Waits ==
  ASSUME TasksInv, NEW c \in tasks, c.stage = "save"
  PROVE  LET d == [c EXCEPT !.stage = "refetch"] IN
         Same(c, d) /\ d.stage = "refetch" /\ d.answer = c.answer
  <1>1. /\ TaskOK(c) /\ c.base \in Settings /\ c.revision \in Nat /\ c.answer \in Answers
        /\ c.op \in {"theme", "background", "upload"} /\ "refetch" \in Stages
    BY DEF TasksInv, TaskOK, TaskRecords, Ops, Stages
  <1>2. [c EXCEPT !.stage = "refetch"] = Moved(c, "refetch", c.base, c.revision, c.answer)
    BY <1>1, MovedFacts
  <1> QED BY <1>1, <1>2, MovedOK DEF Same

LEMMA Scanned ==
  ASSUME TasksInv, draft \in Pages, NEW c \in tasks, c.op = "delete", NEW s \in {"clear", "drop"}
  PROVE  LET d == [c EXCEPT !.stage = s, !.base = draft.settings] IN
         Same(c, d) /\ d.stage = s /\ d.base = draft.settings
  <1>1. /\ TaskOK(c) /\ draft.settings \in Settings /\ c.revision \in Nat /\ c.answer \in Answers
        /\ s \in Stages
    BY DEF TasksInv, TaskOK, TaskRecords, Stages, Pages
  <1>2. PICK b \in Settings : b = draft.settings
    BY <1>1
  <1>3. [c EXCEPT !.stage = s, !.base = b] = Moved(c, s, b, c.revision, c.answer)
    BY <1>1, MovedFacts
  <1>4. Same(c, Moved(c, s, b, c.revision, c.answer))
        /\ Moved(c, s, b, c.revision, c.answer).stage = s /\ Moved(c, s, b, c.revision, c.answer).base = b
    BY <1>1, MovedOK DEF Same
  <1> QED BY <1>2, <1>3, <1>4

LEMMA Dropped ==
  ASSUME TasksInv, NEW c \in tasks, c.op = "delete"
  PROVE  LET d == [c EXCEPT !.stage = "drop"] IN Same(c, d) /\ d.stage = "drop"
  <1>1. TaskOK(c) /\ c.base \in Settings /\ c.revision \in Nat /\ c.answer \in Answers /\ "drop" \in Stages
    BY DEF TasksInv, TaskOK, TaskRecords, Stages
  <1>2. [c EXCEPT !.stage = "drop"] = Moved(c, "drop", c.base, c.revision, c.answer)
    BY <1>1, MovedFacts
  <1> QED BY <1>1, <1>2, MovedOK DEF Same

LEMMA Uploaded ==
  ASSUME TasksInv, page \in Pages, NEW c \in tasks, c.op = "upload"
  PROVE  LET d == [c EXCEPT !.stage = "save", !.answer = "none", !.revision = page.revision] IN
         Same(c, d) /\ d.stage = "save" /\ d.revision = page.revision
  <1>1. TaskOK(c) /\ c.base \in Settings /\ page.revision \in Nat /\ "save" \in Stages /\ "none" \in Answers
    BY DEF TasksInv, TaskOK, TaskRecords, Stages, Answers, Pages
  <1>2. PICK r \in Nat : r = page.revision
    BY <1>1
  <1>3. Sends(c, "save", "none", r) = Moved(c, "save", c.base, r, "none")
    <2>1. PICK s : s = "save"
      OBVIOUS
    <2>2. PICK a : a = "none"
      OBVIOUS
    <2>3. Sends(c, s, a, r) = Moved(c, s, c.base, r, a)
      BY <1>1, SendsFacts
    <2> QED BY <2>1, <2>2, <2>3
  <1>4. Same(c, Moved(c, "save", c.base, r, "none"))
        /\ Moved(c, "save", c.base, r, "none").stage = "save" /\ Moved(c, "save", c.base, r, "none").revision = r
    BY <1>1, MovedOK DEF Same
  <1> QED BY <1>2, <1>3, <1>4 DEF Sends

\* What a handler is at each of its stages.
LEMMA OpsByStage ==
  ASSUME TasksInv, NEW c \in tasks
  PROVE  /\ TaskOK(c) /\ c.op \in Ops /\ c.answer \in Answers
         /\ c.stage \in {"save", "refetch"} => c.op \in {"theme", "background", "upload"}
         /\ c.stage = "upload" => c.op = "upload"
         /\ c.stage \in {"scan", "clear", "drop"} => c.op = "delete"
         /\ c.stage = "check" => c.op \in {"check", "import"}
  BY DEF TasksInv, TaskOK, TaskRecords, Ops

-----------------------------------------------------------------------------
(* Their numbers *)

LEMMA TasksHold ==
  ASSUME ThemeStudioAssumption, StudioTypeOK, TasksInv, PagesInv, [StudioNext]_studioVars
  PROVE  TasksInv'
  <1>0. page \in Pages /\ draft \in Pages /\ begun \in Nat
    BY DEF PagesInv, IsRead, StudioTypeOK
  <1>1. ASSUME NEW id \in ThemeIds, HandleActivate(id) PROVE TasksInv'
    BY <1>0, <1>1, Starts DEF HandleActivate
  <1>2. ASSUME NEW media \in Backgrounds, ApplyBackground(media) PROVE TasksInv'
    BY <1>0, <1>2, Starts DEF ApplyBackground
  <1>3. ASSUME CommitOpacity PROVE TasksInv'
    <2>1. bg \in Backgrounds
      BY DEF StudioTypeOK
    <2> QED BY <1>0, <1>3, <2>1, Starts DEF CommitOpacity
  <1>4. ASSUME NEW media \in Media, HandleUploadMine(media) PROVE TasksInv'
    BY <1>0, <1>4, Starts DEF HandleUploadMine
  <1>5. ASSUME NEW media \in Media, HandleDeleteMedia(media) PROVE TasksInv'
    BY <1>0, <1>5, Starts DEF HandleDeleteMedia
  <1>6. ASSUME HandleSubmit PROVE TasksInv'
    <2>1. dialog.file \in Files
      BY <1>6 DEF HandleSubmit, CanSubmit, StudioTypeOK
    <2> QED BY <1>0, <1>6, <2>1, Starts DEF HandleSubmit
  <1>7. ASSUME NEW file \in Files \cup {NoFile}, ChooseFile(file) PROVE TasksInv'
    <2>1. CASE file = NoFile
      BY <1>7, <2>1, TasksEnd DEF ChooseFile, bounds
    <2>2. CASE file # NoFile
      <3> DEFINE d == [Handler("check", "check", file) EXCEPT !.id = begun']
      <3>1. begun' = begun + 1 /\ tasks' = Aborted \cup {d}
        BY <1>7, <2>2 DEF ChooseFile
      <3>2. begun' \in Nat /\ begun' # 0 /\ "check" \in Ops /\ "check" \in Stages
            /\ file \in ThemeIds \cup Backgrounds \cup Files
        BY <1>0, <2>2, <3>1 DEF Ops, Stages
      <3>3. d \in TaskRecords /\ d.id = begun' /\ d.op = "check" /\ d.stage = "check" /\ d.want = file
        BY <1>0, <3>2, HandlerFacts
      <3> HIDE DEF d
      <3>4. TaskOK(d)
        BY <2>2, <3>2, <3>3 DEF TaskOK
      <3>5. \A x \in Aborted : TaskOK(x) /\ x.id <= begun /\ x.id \in Nat
        BY AbortedFacts DEF TasksInv, TaskOK, TaskRecords
      <3>6. \A x \in tasks' : TaskOK(x) /\ x.id <= begun'
        BY <1>0, <3>1, <3>3, <3>4, <3>5
      <3>7. \A x, y \in tasks' : x.id = y.id /\ x.id # 0 => x = y
        BY <1>0, <3>1, <3>3, <3>5, AbortedFacts
      <3> QED BY <3>6, <3>7 DEF TasksInv
    <2> QED BY <2>1, <2>2
  <1>8. ASSUME begun' = begun, tasks' \subseteq Aborted PROVE TasksInv'
    <2>1. \A x \in Aborted : TaskOK(x) /\ x.id <= begun
      BY AbortedFacts DEF TasksInv
    <2>2. \A x \in tasks' : TaskOK(x) /\ x.id <= begun'
      BY <1>8, <2>1
    <2>3. \A x, y \in tasks' : x.id = y.id /\ x.id # 0 => x = y
      BY <1>8, AbortedFacts
    <2> QED BY <2>2, <2>3 DEF TasksInv
  <1>9. ASSUME NEW c \in tasks, NEW d, Same(c, d), tasks' \subseteq (tasks \ {c}) \cup {d}, begun' = begun
        PROVE  TasksInv'
    BY <1>9, TasksMoved DEF Same
  <1>10. ASSUME tasks' \subseteq tasks, begun' = begun PROVE TasksInv'
    BY <1>10, TasksEnd
  <1>11. ASSUME NEW c \in tasks, ServeSave(c) \/ ServeUpload(c) \/ Drop(c) \/ Fail(c) PROVE TasksInv'
    <2>1. begun' = begun /\ (tasks' = tasks \ {c} \/ \E a \in {"ok", "failed"} : tasks' = (tasks \ {c}) \cup {[c EXCEPT !.answer = a]})
      BY <1>11 DEF ServeSave, ServeUpload, Drop, Fail, Answered, With, Served, bounds
    <2>2. CASE \E a \in {"ok", "failed"} : tasks' = (tasks \ {c}) \cup {[c EXCEPT !.answer = a]}
      <3>1. PICK a \in Answers : tasks' = (tasks \ {c}) \cup {[c EXCEPT !.answer = a]}
        BY <2>2 DEF Answers
      <3> QED BY <1>9, <2>1, <3>1, Replied
    <2> QED BY <1>10, <2>1, <2>2
  <1>12. ASSUME NEW c \in tasks, Scan(c) PROVE TasksInv'
    <2>1. PICK s \in {"clear", "drop"} : tasks' = (tasks \ {c}) \cup {[c EXCEPT !.stage = s, !.base = draft.settings]}
      BY <1>12 DEF Scan, With
    <2>2. begun' = begun /\ c.op = "delete"
      BY <1>12 DEF Scan, Served, bounds
    <2> QED BY <1>0, <1>9, <2>1, <2>2, Scanned
  <1>13. ASSUME NEW c \in tasks, Clear(c) PROVE TasksInv'
    <2>1. tasks' = (tasks \ {c}) \cup {[c EXCEPT !.stage = "drop"]} /\ begun' = begun /\ c.op = "delete"
      BY <1>13, OpsByStage DEF Clear, With, Served, bounds
    <2> QED BY <1>9, <2>1, Dropped
  <1>14. ASSUME NEW c \in tasks, SaveSucceeded(c) PROVE TasksInv'
    <2>1. tasks' \subseteq (tasks \ {c}) \cup {[c EXCEPT !.stage = "refetch"]} /\ begun' = begun /\ c.stage = "save"
      BY <1>14 DEF SaveSucceeded, bounds
    <2> QED BY <1>9, <2>1, Waits
  <1>15. ASSUME NEW c \in tasks, UploadEnded(c) PROVE TasksInv'
    <2>1. begun' = begun /\ c.op = "upload"
      BY <1>15, OpsByStage DEF UploadEnded, bounds
    <2>2. CASE tasks' = (tasks \ {c}) \cup {[c EXCEPT !.stage = "save", !.answer = "none", !.revision = page.revision]}
      BY <1>0, <1>9, <2>1, <2>2, Uploaded
    <2> QED BY <1>10, <1>15, <2>1, <2>2 DEF UploadEnded, With
  <1>16. ASSUME NEW c \in tasks, SaveFailed(c) \/ DeleteEnded(c) \/ Validated(c) PROVE TasksInv'
    <2>1. tasks' \subseteq tasks /\ begun' = begun
      BY <1>16 DEF SaveFailed, DeleteEnded, Validated, bounds
    <2> QED BY <1>10, <2>1
  <1>17. ASSUME NEW c \in tasks, SubmitEnded(c) PROVE TasksInv'
    <2>1. begun' = begun /\ (tasks' \subseteq tasks \/ tasks' \subseteq Aborted)
      BY <1>17 DEF SubmitEnded, Imported, NotImported, bounds
    <2> QED BY <1>8, <1>10, <2>1
  <1>18. ASSUME HandleClose PROVE TasksInv'
    BY <1>8, <1>18 DEF HandleClose, bounds
  <1>19. ASSUME PageRead \/ PageArrives \/ Retry \/ SettingsElsewhere \/ UNCHANGED studioVars PROVE TasksInv'
    <2>1. tasks' \subseteq tasks /\ begun' = begun
      BY <1>19 DEF PageRead, PageArrives, Retry, SettingsElsewhere, Other, studioVars, bounds
    <2> QED BY <1>10, <2>1
  <1>20. ASSUME NEW media \in Media, DeleteElsewhere(media) PROVE TasksInv'
    <2>1. tasks' = tasks \cup {Handler("delete", "scan", media)} /\ begun' = begun
      BY <1>20 DEF DeleteElsewhere, Other
    <2>6. PICK n \in Nat : n = 0
      OBVIOUS
    <2> DEFINE d == [Handler("delete", "scan", media) EXCEPT !.id = n]
    <2>2. d = Handler("delete", "scan", media)
      BY <2>6 DEF Handler
    <2>3. "delete" \in Ops /\ "scan" \in Stages /\ media \in ThemeIds \cup Backgrounds \cup Files
      BY DEF Ops, Stages, Backgrounds
    <2>4. d \in TaskRecords /\ d.id = n /\ d.op = "delete" /\ d.stage = "scan" /\ d.want = media
      BY <1>0, <2>3, HandlerFacts
    <2> HIDE DEF d
    <2>5. TaskOK(d) /\ d.id <= begun
      BY <1>0, <2>4, <2>6 DEF TaskOK
    <2> QED BY <2>1, <2>2, <2>4, <2>5, <2>6 DEF TasksInv
  <1>21. ASSUME NEW id \in ThemeIds, NEW loaded \in BOOLEAN, SheetIsLate(id) \/ SheetEnds(loaded) PROVE TasksInv'
    <2>1. tasks' = tasks /\ begun' = begun
      BY <1>21 DEF SheetIsLate, SheetEnds, bounds
    <2> QED BY <1>10, <2>1
  <1>22. ASSUME ThemeSteps PROVE TasksInv'
    BY <1>1, <1>21, <1>22 DEF ThemeSteps
  <1>23. ASSUME LibrarySteps PROVE TasksInv'
    <2>1. None \in Backgrounds
      BY DEF Backgrounds
    <2> QED BY <1>2, <1>3, <1>4, <1>5, <1>23, <2>1 DEF LibrarySteps, HandleChooseBg, HandleRemoveBg
  <1>24. ASSUME DialogSteps PROVE TasksInv'
    BY <1>6, <1>7, <1>18, <1>24 DEF DialogSteps
  <1>25. ASSUME OtherSteps PROVE TasksInv'
    BY <1>19, <1>20, <1>25 DEF OtherSteps
  <1>26. ASSUME NEW c \in tasks, Executed(c) \/ Fail(c) \/ Ended(c) PROVE TasksInv'
    BY <1>11, <1>12, <1>13, <1>14, <1>15, <1>16, <1>17, <1>26 DEF Executed, Ended
  <1>27. ASSUME PageFails PROVE TasksInv'
    BY <1>27, LeftFacts DEF PageFails, bounds
  <1> QED BY <1>19, <1>22, <1>23, <1>24, <1>25, <1>26, <1>27 DEF StudioNext

-----------------------------------------------------------------------------
(* Pages and saves *)

LEMMA ReadLengths == Len(Idle) = 0 /\ Len(Sent) = 1 /\ \A p : Len(<<"read", p>>) = 2 /\ <<"read", p>>[2] = p
  BY DEF Idle, Sent

\* What a handler that begins is about.
LEMMA FreshSaves ==
  ASSUME PagesInv, NEW d, NEW op, NEW stage, NEW want, Fresh(d, op, stage, want), stage # "clear"
  PROVE  SaveOK(d)
  BY DEF Fresh, SaveOK, PagesInv, IsRead, Pages

\* No page comes and no draft is written.
LEMMA PagesSteady ==
  ASSUME PagesInv, UNCHANGED <<draft, page>>, reading' \in {reading, Sent, Idle},
         \A d \in tasks' : d \in tasks \/ SaveOK(d)
  PROVE  PagesInv'
  <1>1. \A d \in tasks' : SaveOK(d)
    BY DEF PagesInv
  <1>2. \A d \in tasks' : SaveOK(d)'
    BY <1>1 DEF SaveOK
  <1>3. IsRead(page)' /\ (reading' = reading /\ IsRead(reading[2]) => IsRead(reading[2])')
    BY DEF PagesInv, IsRead
  <1> QED BY <1>2, <1>3 DEF PagesInv

\* The draft is written: what was read is older.
Written == draft' \in Pages /\ IsClamped(draft.settings)' /\ draft'.revision = draft.revision + 1

LEMMA PagesWritten ==
  ASSUME PagesInv, UNCHANGED <<page, reading>>, Written,
         \A d \in tasks' : d \in tasks \/ (d.stage # "clear" /\ (d.stage = "save" => d.revision <= page.revision))
  PROVE  PagesInv'
  <1>1. draft.revision \in Nat /\ page.revision \in Nat /\ page.revision <= draft.revision
    BY DEF PagesInv, IsRead, Pages
  <1>2. ASSUME NEW p, IsRead(p) PROVE IsRead(p)'
    <2>1. p.revision \in Nat /\ p.revision < draft'.revision
      BY <1>1, <1>2 DEF Written, IsRead, Pages
    <2> QED BY <1>1, <1>2, <2>1 DEF Written, IsRead
  <1>3. ASSUME NEW d \in tasks' PROVE SaveOK(d)'
    <2>1. d.stage = "clear" => IsClamped(d.base)
      BY DEF PagesInv, SaveOK
    <2>2. d.stage = "save" => d.revision <= page.revision
      BY DEF PagesInv, SaveOK
    <2>3. d.stage = "save" /\ d.op # "upload" /\ d.revision = draft'.revision => FALSE
      BY <1>1, <2>2 DEF Written
    <2> QED BY <2>1, <2>2, <2>3 DEF SaveOK
  <1>4. PICK p : p = page
    OBVIOUS
  <1>5. PICK r : r = reading
    OBVIOUS
  <1>6. IsRead(page)' /\ (IsRead(reading[2]) => IsRead(reading[2])')
    BY <1>2, <1>4, <1>5 DEF PagesInv
  <1> QED BY <1>3, <1>6 DEF Written, PagesInv

LEMMA PagesHold ==
  ASSUME ThemeStudioAssumption, StudioTypeOK, TasksInv, PagesInv, [StudioNext]_studioVars
  PROVE  PagesInv'
  <1>0. /\ page \in Pages /\ draft \in Pages /\ begun \in Nat
        /\ draft.settings \in Settings /\ draft.revision \in Nat \ {0}
    BY DEF PagesInv, IsRead, StudioTypeOK, Pages
  <1>1. ASSUME NEW op, NEW stage, NEW want, Start(Handler(op, stage, want)),
               \/ op = "theme" /\ stage = "save" /\ want \in ThemeIds
               \/ op = "background" /\ stage = "save" /\ want \in Backgrounds
               \/ op = "upload" /\ stage = "upload" /\ want \in Media
               \/ op = "delete" /\ stage = "scan" /\ want \in Media
               \/ op = "import" /\ stage = "check" /\ want \in Files
        PROVE  PagesInv'
    <2>1. PICK d : tasks' = tasks \cup {d} /\ Fresh(d, op, stage, want)
      BY <1>0, <1>1, Starts
    <2>2. SaveOK(d)
      BY <1>1, <2>1, FreshSaves
    <2>3. UNCHANGED <<draft, page, reading>>
      BY <1>1 DEF Start, serverVars, cacheVars
    <2> QED BY <2>1, <2>2, <2>3, PagesSteady
  <1>2. ASSUME ThemeSteps PROVE PagesInv'
    <2>1. ASSUME NEW id \in ThemeIds, HandleActivate(id) PROVE PagesInv'
      BY <1>1, <2>1 DEF HandleActivate
    <2>2. ASSUME NEW id \in ThemeIds, NEW loaded \in BOOLEAN, SheetIsLate(id) \/ SheetEnds(loaded) PROVE PagesInv'
      <3>1. UNCHANGED <<draft, page, reading, tasks>>
        BY <2>2 DEF SheetIsLate, SheetEnds, serverVars, cacheVars
      <3> QED BY <3>1, PagesSteady
    <2> QED BY <1>2, <2>1, <2>2 DEF ThemeSteps
  <1>3. ASSUME LibrarySteps PROVE PagesInv'
    <2>1. ASSUME NEW media \in Backgrounds, ApplyBackground(media) PROVE PagesInv'
      BY <1>1, <2>1 DEF ApplyBackground
    <2>2. ASSUME CommitOpacity PROVE PagesInv'
      <3>1. bg \in Backgrounds
        BY DEF StudioTypeOK
      <3> QED BY <1>1, <2>2, <3>1 DEF CommitOpacity
    <2>3. ASSUME NEW media \in Media, HandleUploadMine(media) PROVE PagesInv'
      BY <1>1, <2>3 DEF HandleUploadMine
    <2>4. ASSUME NEW media \in Media, HandleDeleteMedia(media) PROVE PagesInv'
      BY <1>1, <2>4 DEF HandleDeleteMedia
    <2>5. None \in Backgrounds
      BY DEF Backgrounds
    <2> QED BY <1>3, <2>1, <2>2, <2>3, <2>4, <2>5 DEF LibrarySteps, HandleChooseBg, HandleRemoveBg
  <1>4. ASSUME UNCHANGED <<draft, page, reading>>, tasks' \subseteq Aborted PROVE PagesInv'
    <2>1. \A d \in tasks' : \E c \in tasks :
            /\ d.stage = c.stage /\ d.base = c.base /\ d.op = c.op /\ d.revision = c.revision
      BY <1>4, AbortedFacts
    <2>2. \A d \in tasks' : SaveOK(d)
      BY <2>1 DEF PagesInv, SaveOK
    <2> QED BY <1>4, <2>2, PagesSteady
  <1>5. ASSUME DialogSteps PROVE PagesInv'
    <2>1. ASSUME HandleSubmit PROVE PagesInv'
      <3>1. dialog.file \in Files
        BY <2>1 DEF HandleSubmit, CanSubmit, StudioTypeOK
      <3> QED BY <1>1, <2>1, <3>1 DEF HandleSubmit
    <2>2. ASSUME HandleClose PROVE PagesInv'
      BY <1>4, <2>2 DEF HandleClose, serverVars, cacheVars
    <2>3. ASSUME NEW file \in Files \cup {NoFile}, ChooseFile(file) PROVE PagesInv'
      <3>1. UNCHANGED <<draft, page, reading>>
        BY <2>3 DEF ChooseFile, serverVars, cacheVars
      <3>2. CASE file = NoFile
        BY <2>3, <3>1, <3>2, PagesSteady DEF ChooseFile
      <3>3. CASE file # NoFile
        <4> DEFINE d == [Handler("check", "check", file) EXCEPT !.id = begun']
        <4>1. begun' = begun + 1 /\ tasks' = Aborted \cup {d}
          BY <2>3, <3>3 DEF ChooseFile
        <4>2. begun' \in Nat /\ "check" \in Ops /\ "check" \in Stages
              /\ file \in ThemeIds \cup Backgrounds \cup Files
          BY <1>0, <3>3, <4>1 DEF Ops, Stages
        <4>3. d \in TaskRecords /\ d.id = begun' /\ d.op = "check" /\ d.stage = "check" /\ d.want = file
          BY <1>0, <4>2, HandlerFacts
        <4> HIDE DEF d
        <4>4. \A x \in Aborted : \E c \in tasks :
                /\ x.stage = c.stage /\ x.base = c.base /\ x.op = c.op /\ x.revision = c.revision
          BY AbortedFacts
        <4>5. \A x \in tasks' : SaveOK(x)
          BY <4>1, <4>3, <4>4 DEF PagesInv, SaveOK
        <4> QED BY <3>1, <4>5, PagesSteady
      <3> QED BY <3>2, <3>3
    <2> QED BY <1>5, <2>1, <2>2, <2>3 DEF DialogSteps
  <1>6. ASSUME OtherSteps PROVE PagesInv'
    <2>1. ASSUME SettingsElsewhere PROVE PagesInv'
      <3>1. PICK settings \in [theme : ThemeIds, background : {draft.settings.background}, look : Looks] :
              settings = Clamped(settings) /\ draft' = [revision |-> draft.revision + 1, settings |-> settings]
        BY <2>1 DEF SettingsElsewhere
      <3>2. settings \in Settings
        BY <1>0, <3>1 DEF Settings
      <3>3. UNCHANGED <<page, reading, tasks>>
        BY <2>1 DEF SettingsElsewhere, Other, cacheVars
      <3>4. Written
        BY <1>0, <3>1, <3>2 DEF Written, Pages, IsClamped
      <3> QED BY <3>3, <3>4, PagesWritten
    <2>2. ASSUME NEW media \in Media, DeleteElsewhere(media) PROVE PagesInv'
      <3>1. tasks' = tasks \cup {Handler("delete", "scan", media)} /\ UNCHANGED <<draft, page, reading>>
        BY <2>2 DEF DeleteElsewhere, Other, cacheVars
      <3>2. SaveOK(Handler("delete", "scan", media))
        BY DEF Handler, SaveOK
      <3> QED BY <3>1, <3>2, PagesSteady
    <2> QED BY <1>6, <2>1, <2>2 DEF OtherSteps
  <1>7. ASSUME NEW c \in tasks, ServeSave(c) PROVE PagesInv'
    <2>1. /\ draft' = [revision |-> draft.revision + 1, settings |-> Clamped(Body(c))]
          /\ UNCHANGED <<page, reading>> /\ c.stage = "save"
      BY <1>7 DEF ServeSave, Served, cacheVars
    <2>2. PICK a \in Answers : tasks' = (tasks \ {c}) \cup {[c EXCEPT !.answer = a]}
      BY <1>7 DEF ServeSave, Answered, With, Answers
    <2>3. Clamped(Body(c)) \in Settings /\ IsClamped(Clamped(Body(c)))
      BY <2>1, OpsByStage, SavedFacts
    <2>4. Written
      BY <1>0, <2>1, <2>3 DEF Written, Pages
    <2>5. SaveOK(c) /\ [c EXCEPT !.answer = a].stage = c.stage /\ [c EXCEPT !.answer = a].revision = c.revision
      BY Replied DEF PagesInv
    <2> QED BY <2>1, <2>2, <2>4, <2>5, PagesWritten DEF SaveOK
  <1>8. ASSUME NEW c \in tasks, ServeUpload(c) \/ Drop(c) \/ Fail(c) PROVE PagesInv'
    <2>1. UNCHANGED <<draft, page, reading>>
          /\ (tasks' = tasks \ {c} \/ \E a \in {"ok", "failed"} : tasks' = (tasks \ {c}) \cup {[c EXCEPT !.answer = a]})
      BY <1>8 DEF ServeUpload, Drop, Fail, Answered, With, Served, serverVars, cacheVars
    <2>2. CASE \E a \in {"ok", "failed"} : tasks' = (tasks \ {c}) \cup {[c EXCEPT !.answer = a]}
      <3>1. PICK a \in Answers : tasks' = (tasks \ {c}) \cup {[c EXCEPT !.answer = a]}
        BY <2>2 DEF Answers
      <3>2. SaveOK([c EXCEPT !.answer = a])
        BY Replied DEF PagesInv, SaveOK, Same
      <3> QED BY <2>1, <3>1, <3>2, PagesSteady
    <2> QED BY <2>1, <2>2, PagesSteady
  <1>9. ASSUME NEW c \in tasks, Scan(c) PROVE PagesInv'
    <2>1. PICK s \in {"clear", "drop"} : tasks' = (tasks \ {c}) \cup {[c EXCEPT !.stage = s, !.base = draft.settings]}
      BY <1>9 DEF Scan, With
    <2>2. UNCHANGED <<draft, page, reading>> /\ c.op = "delete"
      BY <1>9 DEF Scan, Served, serverVars, cacheVars
    <2>3. SaveOK([c EXCEPT !.stage = s, !.base = draft.settings])
      BY <1>0, <2>2, Scanned DEF PagesInv, SaveOK
    <2> QED BY <2>1, <2>2, <2>3, PagesSteady
  <1>10. ASSUME NEW c \in tasks, Clear(c) PROVE PagesInv'
    <2>1. /\ tasks' = (tasks \ {c}) \cup {[c EXCEPT !.stage = "drop"]} /\ UNCHANGED <<page, reading>>
          /\ c.op = "delete" /\ c.stage = "clear"
          /\ draft' = [revision |-> draft.revision + 1, settings |-> [c.base EXCEPT !.background = None]]
      BY <1>10, OpsByStage DEF Clear, With, Served, cacheVars
    <2>2. c.base \in Settings /\ IsClamped(c.base) /\ None \in Backgrounds
      BY <2>1 DEF PagesInv, SaveOK, TasksInv, TaskOK, TaskRecords, Backgrounds
    <2>3. [c.base EXCEPT !.background = None] \in Settings
      BY <2>2 DEF Settings
    <2>4. IsClamped([c.base EXCEPT !.background = None])
      BY <2>2, ClampFacts
    <2>5. Written
      BY <1>0, <2>1, <2>3, <2>4 DEF Written, Pages
    <2>6. [c EXCEPT !.stage = "drop"].stage = "drop"
      BY <2>1, Dropped
    <2> QED BY <2>1, <2>5, <2>6, PagesWritten
  <1>11. ASSUME NEW c \in tasks, SaveSucceeded(c) PROVE PagesInv'
    <2>1. /\ tasks' \subseteq (tasks \ {c}) \cup {[c EXCEPT !.stage = "refetch"]} /\ c.stage = "save"
          /\ UNCHANGED <<draft, page>> /\ reading' = Sent
      BY <1>11 DEF SaveSucceeded, serverVars, Refetched
    <2>2. SaveOK([c EXCEPT !.stage = "refetch"])
      BY <2>1, Waits DEF SaveOK
    <2> QED BY <2>1, <2>2, PagesSteady
  <1>12. ASSUME NEW c \in tasks, UploadEnded(c) PROVE PagesInv'
    <2>1. UNCHANGED <<draft, page, reading>> /\ c.op = "upload"
      BY <1>12, OpsByStage DEF UploadEnded, serverVars, cacheVars
    <2>2. CASE tasks' = (tasks \ {c}) \cup {[c EXCEPT !.stage = "save", !.answer = "none", !.revision = page.revision]}
      <3> DEFINE d == [c EXCEPT !.stage = "save", !.answer = "none", !.revision = page.revision]
      <3>1. d.op = "upload" /\ d.stage = "save" /\ d.revision = page.revision
        BY <1>0, <2>1, Uploaded DEF Same
      <3> HIDE DEF d
      <3>2. SaveOK(d)
        BY <1>0, <3>1 DEF SaveOK, Pages
      <3> QED BY <2>1, <2>2, <3>2, PagesSteady DEF d
    <2> QED BY <1>12, <2>1, <2>2, PagesSteady DEF UploadEnded, With
  <1>13. ASSUME NEW c \in tasks, SaveFailed(c) \/ DeleteEnded(c) \/ Validated(c) PROVE PagesInv'
    <2>1. tasks' \subseteq tasks /\ UNCHANGED <<draft, page>> /\ reading' \in {reading, Sent}
      BY <1>13 DEF SaveFailed, DeleteEnded, Validated, Refetched, serverVars, cacheVars
    <2> QED BY <2>1, PagesSteady
  <1>14. ASSUME NEW c \in tasks, SubmitEnded(c) PROVE PagesInv'
    <2>1. UNCHANGED <<draft, page, reading>> /\ (tasks' \subseteq tasks \/ tasks' \subseteq Aborted)
      BY <1>14 DEF SubmitEnded, Imported, NotImported, serverVars, cacheVars
    <2> QED BY <1>4, <2>1, PagesSteady
  <1>15. ASSUME PageRead PROVE PagesInv'
    <2>1. reading' = <<"read", draft>> /\ UNCHANGED <<draft, page, tasks>>
      BY <1>15 DEF PageRead, serverVars
    <2>2. PICK p : p = draft
      OBVIOUS
    <2>3. reading' = <<"read", p>> /\ Len(reading') = 2 /\ reading'[2] = p
      BY <2>1, <2>2, ReadLengths
    <2>4. p.revision \in Nat /\ page.revision \in Nat
      BY <1>0, <2>2 DEF Pages
    <2>5. IsRead(page)' /\ IsRead(reading[2])'
      BY <1>0, <2>1, <2>2, <2>3, <2>4 DEF PagesInv, IsRead
    <2>6. \A c \in tasks' : SaveOK(c)'
      BY <2>1 DEF PagesInv, SaveOK
    <2> QED BY <2>1, <2>3, <2>5, <2>6 DEF PagesInv
  <1>16. ASSUME PageArrives PROVE PagesInv'
    <2>1. page' = reading[2] /\ reading' = Idle /\ draft' = draft /\ tasks' \subseteq tasks /\ Len(reading) = 2
      BY <1>16 DEF PageArrives, serverVars
    <2>2. IsRead(reading[2])
      BY <2>1, ReadLengths DEF PagesInv
    <2>3. PICK p : p = reading[2]
      OBVIOUS
    <2>4. page' = p /\ IsRead(p) /\ p.revision \in Nat /\ draft.revision \in Nat /\ page.revision \in Nat
      BY <1>0, <2>1, <2>2, <2>3 DEF IsRead, Pages
    <2>5. IsRead(page)'
      BY <2>1, <2>4 DEF IsRead
    <2>6. \A c \in tasks' : SaveOK(c)'
      <3> TAKE c \in tasks'
      <3>1. SaveOK(c) /\ c.revision \in Nat
        BY <2>1 DEF PagesInv, TasksInv, TaskOK, TaskRecords
      <3> QED BY <2>1, <2>4, <3>1 DEF SaveOK, IsRead
    <2> QED BY <2>1, <2>5, <2>6 DEF PagesInv
  <1>17. ASSUME UNCHANGED studioVars \/ Retry PROVE PagesInv'
    <2>1. tasks' \subseteq tasks /\ UNCHANGED <<draft, page>> /\ reading' \in {reading, Sent}
      BY <1>17 DEF Retry, Refetched, studioVars, serverVars, cacheVars
    <2> QED BY <2>1, PagesSteady
  <1>18. ASSUME NEW c \in tasks, Executed(c) \/ Fail(c) \/ Ended(c) PROVE PagesInv'
    BY <1>7, <1>8, <1>9, <1>10, <1>11, <1>12, <1>13, <1>14, <1>18 DEF Executed, Ended
  <1>19. ASSUME PageFails PROVE PagesInv'
    <2>1. UNCHANGED <<draft, page>> /\ reading' = Idle
      BY <1>19 DEF PageFails, serverVars
    <2>2. \A d \in tasks' : \E c \in tasks :
            /\ d.stage = c.stage /\ d.base = c.base /\ d.op = c.op /\ d.revision = c.revision
      BY <1>19, LeftFacts DEF PageFails, bounds
    <2>3. \A d \in tasks' : SaveOK(d)
      BY <2>2 DEF PagesInv, SaveOK
    <2> QED BY <2>1, <2>3, PagesSteady
  <1> QED BY <1>2, <1>3, <1>5, <1>6, <1>15, <1>16, <1>17, <1>18, <1>19 DEF StudioNext

-----------------------------------------------------------------------------
(* The theme marked active *)

\* A handler that is none of one's choices, and what a step makes of one.
Began(d) == d.answer = "none" /\ d.stage \notin {"clear", "refetch"}
Follows(c, d) ==
  /\ Same(c, d)
  /\ d.answer = "ok" => c.answer = "ok" \/ d.op # "theme"
  /\ d.stage = "refetch" => c.stage = "refetch" /\ d.answer = c.answer
  /\ d.stage = "clear" => d.base = draft.settings \/ (c.stage = "clear" /\ d.base = c.base)

LEMMA OverlaidFacts ==
  ASSUME overlaid \in BOOLEAN, NEW ops, Overlaid(ops), ~overlaid'
  PROVE  ~overlaid /\ \A c \in tasks : c.op \notin ops
  <1>1. CASE overlaid
    BY <1>1 DEF Overlaid
  <1>2. CASE ~overlaid
    <2>1. overlaid = FALSE
      BY <1>2
    <2>2. overlaid' = \E c \in tasks : c.op \in ops
      BY <2>1 DEF Overlaid
    <2> QED BY <1>2, <2>2
  <1> QED BY <1>1, <1>2

LEMMA AloneKept ==
  ASSUME TasksInv, TasksInv', Alone,
         \A d \in tasks' : d.op \notin {"theme", "upload", "delete"} \/ \E c \in tasks : Same(c, d)
  PROVE  Alone'
  <1> SUFFICES ASSUME NEW d \in tasks', NEW e \in tasks', d.op = "theme", e.op \in {"theme", "upload", "delete"}
               PROVE  d = e
    BY DEF Alone
  <1>1. PICK c \in tasks : Same(c, d)
    OBVIOUS
  <1>2. PICK x \in tasks : Same(x, e)
    OBVIOUS
  <1>3. c = x
    BY <1>1, <1>2 DEF Alone, Same
  <1>4. d.id = e.id /\ d.id # 0
    BY <1>1, <1>2, <1>3 DEF Same, TaskOK
  <1> QED BY <1>4 DEF TasksInv

LEMMA MarkSteady ==
  ASSUME MarkInv, Undisturbed' => Undisturbed /\ Alone', UNCHANGED <<draft, page, reading, isError, activeId>>,
         \A d \in tasks' : Began(d) \/ \E c \in tasks : Follows(c, d)
  PROVE  MarkInv'
  <1> SUFFICES ASSUME Undisturbed'
               PROVE  /\ (activeId = page.settings.theme \/ Ahead)'
                      /\ \A d \in tasks' : d.op = "theme" => ChoiceOK(d)'
    BY DEF MarkInv
  <1>1. activeId = page.settings.theme \/ Ahead
    BY DEF MarkInv
  <1>2. Ahead => Ahead'
    <2> SUFFICES ASSUME Ahead, NEW d \in tasks', d.stage = "clear" PROVE d.base.theme = activeId
      BY DEF Ahead
    <2> QED BY DEF Ahead, Began, Follows
  <1>3. ASSUME NEW d \in tasks', d.op = "theme" PROVE ChoiceOK(d)'
    <2>1. CASE Began(d)
      BY <2>1 DEF Began, ChoiceOK
    <2>2. ASSUME NEW c \in tasks, Follows(c, d) PROVE ChoiceOK(d)'
      <3>1. c.op = "theme" /\ d.want = c.want
        BY <1>3, <2>2 DEF Follows, Same
      <3>2. ChoiceOK(c)
        BY <3>1 DEF MarkInv
      <3> QED BY <1>3, <2>2, <3>1, <3>2 DEF Follows, ChoiceOK
    <2> QED BY <2>1, <2>2
  <1> QED BY <1>1, <1>2, <1>3

\* A handler begins.
LEMMA MarkBegins ==
  ASSUME StudioTypeOK, MarkInv, TasksInv, PagesInv, NEW op, NEW stage, NEW want,
         Start(Handler(op, stage, want)), UNCHANGED activeId,
         \/ op = "theme" /\ stage = "save" /\ want \in ThemeIds /\ Overlaid({"theme", "upload", "delete"})
         \/ op = "background" /\ stage = "save" /\ want \in Backgrounds /\ UNCHANGED overlaid
         \/ op = "upload" /\ stage = "upload" /\ want \in Media /\ Overlaid({"theme"})
         \/ op = "delete" /\ stage = "scan" /\ want \in Media /\ Overlaid({"theme"})
         \/ op = "import" /\ stage = "check" /\ want \in Files /\ UNCHANGED overlaid
  PROVE  MarkInv'
  <1>0. page \in Pages /\ begun \in Nat
    BY DEF PagesInv, IsRead, StudioTypeOK
  <1>1. PICK d : tasks' = tasks \cup {d} /\ Fresh(d, op, stage, want)
    BY <1>0, Starts
  <1>2. d.op = op /\ Began(d)
    BY <1>1 DEF Fresh, Began
  <1>3. UNCHANGED <<draft, page, reading, isError, others>>
    BY DEF Start, serverVars, cacheVars
  <1>4. ASSUME Undisturbed' PROVE Undisturbed /\ Alone'
    <2>1. Undisturbed
      BY <1>3, <1>4, OverlaidFacts DEF Undisturbed, StudioTypeOK
    <2>2. op = "theme" => \A c \in tasks : c.op \notin {"theme", "upload", "delete"}
      BY <1>4, OverlaidFacts DEF Undisturbed, StudioTypeOK
    <2>3. op \in {"upload", "delete"} => \A c \in tasks : c.op # "theme"
      BY <1>4, OverlaidFacts DEF Undisturbed, StudioTypeOK
    <2>4. Alone'
      <3> SUFFICES ASSUME NEW x \in tasks', NEW y \in tasks', x.op = "theme", y.op \in {"theme", "upload", "delete"}
                   PROVE  x = y
        BY DEF Alone
      <3>1. Alone
        BY <2>1 DEF MarkInv
      <3> QED BY <1>1, <1>2, <2>2, <2>3, <3>1 DEF Alone
    <2> QED BY <2>1, <2>4
  <1>5. \A c \in tasks : Follows(c, c)
    BY DEF Follows, Same, TasksInv
  <1>6. \A x \in tasks' : Began(x) \/ \E c \in tasks : Follows(c, x)
    BY <1>1, <1>2, <1>5
  <1> QED BY <1>3, <1>4, <1>6, MarkSteady

\* When a fetch is started anew, or fails, the choices that waited for it are
\* active; a save that succeeded waits for the new one.
LEMMA MarkResumed ==
  ASSUME MarkInv, PagesInv, TasksInv, TasksInv', UNCHANGED <<draft, page, others, overlaid>>, Resumed,
         \/ reading' = Sent /\ isError' = isError
         \/ reading' = Idle /\ isError' = TRUE,
         \A d \in tasks' : \E c \in tasks :
            /\ Same(c, d) /\ (d.answer = "ok" => c.answer = "ok")
            /\ \/ d.stage = c.stage /\ d.stage # "refetch" /\ d.base = c.base
               \/ reading' = Sent /\ c.stage = "save" /\ d.stage = "refetch" /\ d.answer = "ok"
  PROVE  MarkInv'
  <1> SUFFICES ASSUME Undisturbed' PROVE MarkInv'
    BY DEF MarkInv
  <1>1. /\ Undisturbed /\ Alone /\ (activeId = page.settings.theme \/ Ahead)
        /\ (reading' # Idle \/ isError') /\ Len(reading') # 2
    BY ReadLengths DEF MarkInv, Undisturbed
  <1>2. \A d \in tasks' : \E c \in tasks : Same(c, d)
    OBVIOUS
  <1>3. Alone'
    BY <1>1, <1>2, AloneKept
  <1>4. \A d \in tasks' : d.stage = "clear" => \E c \in tasks : c.stage = "clear" /\ c.base = d.base
    OBVIOUS
  <1>5. CASE Chosen = {}
    <2>1. activeId' = activeId
      BY <1>5 DEF Resumed
    <2>2. (activeId = page.settings.theme \/ Ahead)'
      BY <1>1, <1>4, <2>1 DEF Ahead
    <2>3. ASSUME NEW d \in tasks', d.op = "theme" PROVE ChoiceOK(d)'
      <3>1. PICK c \in tasks : c.op = "theme" /\ c.want = d.want /\ (d.answer = "ok" => c.answer = "ok")
        BY <2>3 DEF Same
      <3>2. ChoiceOK(c)
        BY <1>1, <3>1 DEF MarkInv
      <3>3. d.stage = "refetch" => d.answer = "ok" /\ reading' = Sent
        OBVIOUS
      <3>4. d.stage = "refetch" => reading' # Idle
        BY <3>3, ReadLengths
      <3>5. d.answer = "ok" => activeId' = page'.settings.theme /\ draft'.settings.theme = d.want
        BY <2>1, <3>1, <3>2 DEF ChoiceOK
      <3> QED BY <1>1, <3>3, <3>4, <3>5 DEF ChoiceOK
    <2> QED BY <1>3, <2>2, <2>3 DEF MarkInv
  <1>6. CASE Chosen # {}
    <2>1. PICK w \in tasks : w.op = "theme" /\ w.stage = "refetch" /\ activeId' = w.want
      BY <1>6 DEF Resumed, Chosen, Waiting, Continued
    <2>2. ChoiceOK(w) /\ draft.settings.theme = w.want
      BY <1>1, <2>1 DEF MarkInv, ChoiceOK
    <2>3. \A c \in tasks : c.op \notin {"upload", "delete"} /\ (c.op = "theme" => c.stage = "refetch")
      BY <1>1, <2>1 DEF Alone
    <2>4. \A d \in tasks' : d.op # "theme"
      BY <2>3 DEF Same
    <2>5. \A d \in tasks' : d.stage # "clear"
      BY <1>4, <2>3, OpsByStage
    <2>6. page.settings.theme = w.want \/ page.revision < draft.revision
      BY <2>2 DEF PagesInv, IsRead, Pages
    <2>7. (activeId = page.settings.theme \/ Ahead)'
      BY <1>1, <2>1, <2>2, <2>5, <2>6 DEF Ahead
    <2> QED BY <1>3, <2>4, <2>7 DEF MarkInv
  <1> QED BY <1>5, <1>6

\* A save is served: with no choice accepted before it, unless it changes a
\* background and so keeps the theme.
LEMMA MarkServed ==
  ASSUME MarkInv, PagesInv, TasksInv, TasksInv', NEW c \in tasks, ServeSave(c)
  PROVE  MarkInv'
  <1> SUFFICES ASSUME Undisturbed' PROVE MarkInv'
    BY DEF MarkInv
  <1>1. /\ draft' = [revision |-> draft.revision + 1, settings |-> Clamped(Body(c))]
        /\ UNCHANGED <<page, reading, isError, activeId, overlaid, others>> /\ c.stage = "save"
        /\ c.revision = draft.revision /\ c.answer = "none"
    BY DEF ServeSave, Served, cacheVars, localVars, choiceVars, bounds, Current
  <1>2. PICK a \in Answers : tasks' = (tasks \ {c}) \cup {[c EXCEPT !.answer = a]}
    BY DEF ServeSave, Answered, With, Answers
  <1> DEFINE e == [c EXCEPT !.answer = a]
  <1>3. Same(c, e) /\ e.stage = "save" /\ tasks' = (tasks \ {c}) \cup {e}
    BY <1>1, <1>2, Replied
  <1> HIDE DEF e
  <1>4. Undisturbed /\ Alone
    BY <1>1 DEF MarkInv, Undisturbed
  <1>5. \A d \in tasks : Same(d, d)
    BY DEF Same, TasksInv
  <1>6. Alone'
    BY <1>3, <1>4, <1>5, AloneKept
  <1>7. activeId = page.settings.theme
    <2>1. c.revision <= page.revision
      BY <1>1 DEF PagesInv, SaveOK
    <2>2. ~Ahead
      BY <1>1, <2>1 DEF Ahead, PagesInv, IsRead, Pages
    <2> QED BY <1>4, <2>2 DEF MarkInv
  <1>8. /\ c.op = "theme" => draft'.settings.theme = c.want
        /\ c.op # "theme" => draft'.settings.theme = c.base.theme
        /\ c.op \in {"theme", "background", "upload"}
    BY <1>1, OpsByStage, SavedFacts
  <1>9. ASSUME NEW d \in tasks', d.op = "theme" PROVE ChoiceOK(d)'
    <2>1. CASE d = e
      BY <1>1, <1>3, <1>7, <1>8, <1>9, <2>1 DEF ChoiceOK, Same
    <2>2. CASE d # e
      <3>1. d \in tasks /\ d # c
        BY <1>3, <2>2
      <3>2. c.op = "background"
        BY <1>4, <1>8, <1>9, <3>1 DEF Alone
      <3>3. c.base = draft.settings
        BY <1>1, <3>2 DEF PagesInv, SaveOK
      <3>4. draft'.settings.theme = draft.settings.theme
        BY <1>8, <3>2, <3>3
      <3>5. ChoiceOK(d)
        BY <1>4, <1>9, <3>1 DEF MarkInv
      <3> QED BY <1>1, <3>4, <3>5 DEF ChoiceOK
    <2> QED BY <2>1, <2>2
  <1> QED BY <1>1, <1>6, <1>7, <1>9 DEF MarkInv

\* A deletion writes back the settings it read: no choice is under way then.
LEMMA MarkCleared ==
  ASSUME MarkInv, PagesInv, TasksInv, TasksInv', NEW c \in tasks, Clear(c)
  PROVE  MarkInv'
  <1> SUFFICES ASSUME Undisturbed' PROVE MarkInv'
    BY DEF MarkInv
  <1>1. /\ tasks' = (tasks \ {c}) \cup {[c EXCEPT !.stage = "drop"]}
        /\ UNCHANGED <<page, reading, isError, activeId, overlaid, others>>
        /\ c.op = "delete" /\ c.stage = "clear"
        /\ draft' = [revision |-> draft.revision + 1, settings |-> [c.base EXCEPT !.background = None]]
    BY OpsByStage DEF Clear, With, Served, cacheVars, localVars, choiceVars, bounds
  <1> DEFINE e == [c EXCEPT !.stage = "drop"]
  <1>2. Same(c, e) /\ e.stage = "drop" /\ tasks' = (tasks \ {c}) \cup {e}
    BY <1>1, Dropped
  <1> HIDE DEF e
  <1>3. Undisturbed /\ Alone
    BY <1>1 DEF MarkInv, Undisturbed
  <1>4. \A d \in tasks : Same(d, d) /\ d.op # "theme"
    BY <1>1, <1>3 DEF Same, TasksInv, Alone
  <1>5. Alone' /\ \A d \in tasks' : d.op # "theme"
    BY <1>2, <1>3, <1>4, AloneKept DEF Same
  <1>6. Ahead => Ahead'
    <2>1. draft'.settings.theme = c.base.theme /\ draft'.revision = draft.revision + 1
      BY <1>1 DEF TasksInv, TaskOK, TaskRecords, Settings
    <2>2. draft.revision \in Nat /\ page.revision \in Nat
      BY DEF PagesInv, IsRead, Pages
    <2> QED BY <1>1, <1>2, <2>1, <2>2 DEF Ahead
  <1> QED BY <1>1, <1>3, <1>5, <1>6 DEF MarkInv

LEMMA MarkRead ==
  ASSUME MarkInv, PagesInv, TasksInv, PageRead
  PROVE  MarkInv'
  <1> SUFFICES ASSUME Undisturbed' PROVE MarkInv'
    BY DEF MarkInv
  <1>1. reading = Sent /\ reading' = <<"read", draft>>
        /\ UNCHANGED <<draft, page, isError, activeId, overlaid, others, tasks>>
    BY DEF PageRead, serverVars, localVars, choiceVars, bounds
  <1>2. Undisturbed /\ Alone /\ Alone'
    BY <1>1 DEF MarkInv, Undisturbed, Alone
  <1>3. PICK p : p = draft
    OBVIOUS
  <1>4. reading' # Idle /\ Len(reading') = 2 /\ reading'[2] = p
    BY <1>1, <1>3, ReadLengths
  <1>5. Ahead => Ahead'
    BY <1>1, <1>3, <1>4 DEF Ahead
  <1>6. ASSUME NEW d \in tasks', d.op = "theme" PROVE ChoiceOK(d)'
    <2>1. ChoiceOK(d)
      BY <1>1, <1>2, <1>6 DEF MarkInv
    <2> QED BY <1>1, <1>3, <1>4, <2>1 DEF ChoiceOK
  <1> QED BY <1>1, <1>2, <1>5, <1>6 DEF MarkInv

\* The page comes: what was accepted, or was on its way, is its theme.
LEMMA MarkArrives ==
  ASSUME MarkInv, PagesInv, TasksInv, TasksInv', PageArrives
  PROVE  MarkInv'
  <1> SUFFICES ASSUME Undisturbed' PROVE MarkInv'
    BY DEF MarkInv
  <1>1. /\ page' = reading[2] /\ reading' = Idle /\ Len(reading) = 2
        /\ UNCHANGED <<draft, overlaid, others>> /\ tasks' = tasks \ Waiting /\ Synced(page, page')
    BY DEF PageArrives, serverVars, bounds
  <1>2. Undisturbed /\ Alone /\ Alone' /\ (activeId = page.settings.theme \/ Ahead)
    BY <1>1 DEF MarkInv, Undisturbed, Alone
  <1>3. PICK p : p = reading[2]
    OBVIOUS
  <1>4. PICK q : q = page
    OBVIOUS
  <1>5. activeId' = p.settings.theme
    <2>1. CASE q.settings # p.settings
      BY <1>1, <1>3, <1>4, <2>1 DEF Synced
    <2>2. CASE q.settings = p.settings /\ Chosen = {}
      <3>1. activeId' = activeId
        BY <1>1, <1>3, <1>4, <2>2 DEF Synced
      <3> QED BY <1>1, <1>2, <1>3, <1>4, <2>2, <3>1 DEF Ahead
    <2>3. CASE q.settings = p.settings /\ Chosen # {}
      <3>1. activeId' \in Chosen
        BY <1>1, <1>3, <1>4, <2>3 DEF Synced
      <3>2. PICK w \in tasks : w.op = "theme" /\ w.stage = "refetch" /\ activeId' = w.want
        BY <3>1 DEF Chosen, Waiting
      <3>3. ChoiceOK(w)
        BY <1>2, <3>2 DEF MarkInv
      <3> QED BY <1>1, <1>3, <3>2, <3>3 DEF ChoiceOK
    <2> QED BY <2>1, <2>2, <2>3
  <1>6. ASSUME NEW d \in tasks', d.op = "theme" PROVE ChoiceOK(d)'
    <2>1. d \in tasks /\ d.stage # "refetch"
      BY <1>1 DEF Waiting
    <2>2. ChoiceOK(d)
      BY <1>2, <1>6, <2>1 DEF MarkInv
    <2> QED BY <1>1, <1>3, <1>5, <2>1, <2>2 DEF ChoiceOK
  <1> QED BY <1>1, <1>2, <1>3, <1>5, <1>6 DEF MarkInv

\* Handlers that end, or go on without having been accepted.
LEMMA MarkGoesOn ==
  ASSUME MarkInv, TasksInv, TasksInv', UNCHANGED <<draft, page, reading, isError, activeId, overlaid, others>>,
         \A d \in tasks' : (Began(d) /\ d.op \notin {"theme", "upload", "delete"}) \/ \E c \in tasks : Follows(c, d)
  PROVE  MarkInv'
  <1>1. Undisturbed' => Undisturbed /\ Alone'
    <2> SUFFICES ASSUME Undisturbed' PROVE Undisturbed /\ Alone'
      OBVIOUS
    <2>1. Undisturbed /\ Alone
      BY DEF MarkInv, Undisturbed
    <2> QED BY <2>1, AloneKept DEF Follows
  <1> QED BY <1>1, MarkSteady

LEMMA MarkHolds ==
  ASSUME ThemeStudioAssumption, StudioTypeOK, TasksInv, TasksInv', PagesInv, MarkInv, [StudioNext]_studioVars
  PROVE  MarkInv'
  <1>0. \A c \in tasks : Follows(c, c)
    BY DEF Follows, Same, TasksInv
  <1>1. ASSUME NEW id \in ThemeIds, HandleActivate(id) PROVE MarkInv'
    BY <1>1, MarkBegins DEF HandleActivate
  <1>2. ASSUME LibrarySteps PROVE MarkInv'
    <2>1. ASSUME NEW media \in Backgrounds, ApplyBackground(media) PROVE MarkInv'
      BY <2>1, MarkBegins DEF ApplyBackground, choiceVars
    <2>2. ASSUME CommitOpacity PROVE MarkInv'
      <3>1. bg \in Backgrounds
        BY DEF StudioTypeOK
      <3> QED BY <2>2, <3>1, MarkBegins DEF CommitOpacity, choiceVars
    <2>3. ASSUME NEW media \in Media, HandleUploadMine(media) PROVE MarkInv'
      BY <2>3, MarkBegins DEF HandleUploadMine
    <2>4. ASSUME NEW media \in Media, HandleDeleteMedia(media) PROVE MarkInv'
      BY <2>4, MarkBegins DEF HandleDeleteMedia
    <2>5. None \in Backgrounds
      BY DEF Backgrounds
    <2> QED BY <1>2, <2>1, <2>2, <2>3, <2>4, <2>5 DEF LibrarySteps, HandleChooseBg, HandleRemoveBg
  <1>3. ASSUME NEW id \in ThemeIds, NEW loaded \in BOOLEAN, SheetIsLate(id) \/ SheetEnds(loaded) PROVE MarkInv'
    <2>1. UNCHANGED <<draft, page, reading, isError, activeId, overlaid, others, tasks>>
      BY <1>3 DEF SheetIsLate, SheetEnds, serverVars, cacheVars, localVars, choiceVars, bounds
    <2> QED BY <1>0, <2>1, MarkGoesOn
  <1>4. \A d \in Aborted : \E c \in tasks : Follows(c, d)
    <2> TAKE d \in Aborted
    <2>1. PICK c \in tasks :
            /\ Same(c, d) /\ d.stage = c.stage /\ d.base = c.base
            /\ (c.op # "check" => d = c) /\ (c.op = "check" => d.answer = "aborted")
      BY AbortedFacts DEF Same
    <2>2. c.op = "check" => c.stage = "check"
      BY DEF TasksInv, TaskOK
    <2> QED BY <1>0, <2>1, <2>2 DEF Follows
  <1>5. ASSUME DialogSteps PROVE MarkInv'
    <2>1. ASSUME HandleSubmit PROVE MarkInv'
      <3>1. dialog.file \in Files
        BY <2>1 DEF HandleSubmit, CanSubmit, StudioTypeOK
      <3> QED BY <2>1, <3>1, MarkBegins DEF HandleSubmit, choiceVars
    <2>2. ASSUME HandleClose PROVE MarkInv'
      <3>1. UNCHANGED <<draft, page, reading, isError, activeId, overlaid, others>> /\ tasks' = Aborted
        BY <2>2 DEF HandleClose, serverVars, cacheVars, localVars, choiceVars, bounds
      <3> QED BY <1>4, <3>1, MarkGoesOn
    <2>3. ASSUME NEW file \in Files \cup {NoFile}, ChooseFile(file) PROVE MarkInv'
      <3>1. UNCHANGED <<draft, page, reading, isError, activeId, overlaid, others>>
        BY <2>3 DEF ChooseFile, serverVars, cacheVars, choiceVars, bounds
      <3>2. CASE file = NoFile
        BY <1>0, <2>3, <3>1, <3>2, MarkGoesOn DEF ChooseFile
      <3>3. CASE file # NoFile
        <4> DEFINE d == [Handler("check", "check", file) EXCEPT !.id = begun']
        <4>1. begun' = begun + 1 /\ tasks' = Aborted \cup {d}
          BY <2>3, <3>3 DEF ChooseFile
        <4>2. begun' \in Nat /\ "check" \in Ops /\ "check" \in Stages
              /\ file \in ThemeIds \cup Backgrounds \cup Files
          BY <3>3, <4>1 DEF Ops, Stages, StudioTypeOK
        <4>3. page \in Pages
          BY DEF PagesInv, IsRead
        <4>4. d \in TaskRecords /\ d.id = begun' /\ d.op = "check" /\ d.stage = "check" /\ d.want = file
              /\ d.answer = "none"
          BY <4>2, <4>3, HandlerFacts
        <4> HIDE DEF d
        <4>5. Began(d) /\ d.op \notin {"theme", "upload", "delete"}
          BY <4>4 DEF Began
        <4> QED BY <1>4, <3>1, <4>1, <4>5, MarkGoesOn
      <3> QED BY <3>2, <3>3
    <2> QED BY <1>5, <2>1, <2>2, <2>3 DEF DialogSteps
  <1>6. ASSUME OtherSteps PROVE MarkInv'
    <2>1. others' = others + 1 /\ others \in Nat
      BY <1>6 DEF OtherSteps, SettingsElsewhere, DeleteElsewhere, Other, StudioTypeOK
    <2>2. ~Undisturbed'
      BY <2>1 DEF Undisturbed
    <2> QED BY <2>2 DEF MarkInv
  <1>7. ASSUME NEW c \in tasks, ServeUpload(c) \/ Drop(c) \/ Fail(c) PROVE MarkInv'
    <2>1. UNCHANGED <<draft, page, reading, isError, activeId, overlaid, others>>
      BY <1>7 DEF ServeUpload, Drop, Fail, Served, serverVars, cacheVars, localVars, choiceVars, bounds
    <2>2. \/ tasks' = tasks \ {c}
          \/ \E a \in {"ok", "failed"} : /\ tasks' = (tasks \ {c}) \cup {[c EXCEPT !.answer = a]}
                                         /\ c.stage \notin {"refetch", "clear"}
                                         /\ a = "failed" \/ c.stage \in {"upload", "drop"}
      BY <1>7 DEF ServeUpload, Drop, Fail, Answered, With
    <2>3. CASE \E a \in {"ok", "failed"} : /\ tasks' = (tasks \ {c}) \cup {[c EXCEPT !.answer = a]}
                                           /\ c.stage \notin {"refetch", "clear"}
                                           /\ a = "failed" \/ c.stage \in {"upload", "drop"}
      <3>1. PICK a \in {"ok", "failed"} : /\ tasks' = (tasks \ {c}) \cup {[c EXCEPT !.answer = a]}
                                          /\ c.stage \notin {"refetch", "clear"}
                                          /\ a = "failed" \/ c.stage \in {"upload", "drop"}
        BY <2>3
      <3> DEFINE e == [c EXCEPT !.answer = a]
      <3>2. a \in Answers
        BY DEF Answers
      <3>3. Same(c, e) /\ e.stage = c.stage /\ e.base = c.base /\ e.answer = a
        BY <3>2, Replied
      <3> HIDE DEF e
      <3>4. c.stage \in {"upload", "drop"} => c.op # "theme"
        BY OpsByStage
      <3>5. Follows(c, e)
        BY <3>1, <3>3, <3>4 DEF Follows, Same
      <3> QED BY <1>0, <2>1, <3>1, <3>5, MarkGoesOn DEF e
    <2> QED BY <1>0, <2>1, <2>2, <2>3, MarkGoesOn
  <1>8. ASSUME NEW c \in tasks, Scan(c) PROVE MarkInv'
    <2>1. PICK s \in {"clear", "drop"} : tasks' = (tasks \ {c}) \cup {[c EXCEPT !.stage = s, !.base = draft.settings]}
      BY <1>8 DEF Scan, With
    <2>2. UNCHANGED <<draft, page, reading, isError, activeId, overlaid, others>> /\ c.op = "delete"
      BY <1>8 DEF Scan, Served, serverVars, cacheVars, localVars, choiceVars, bounds
    <2> DEFINE e == [c EXCEPT !.stage = s, !.base = draft.settings]
    <2>3. draft \in Pages
      BY DEF PagesInv
    <2>4. Same(c, e) /\ e.stage = s /\ e.base = draft.settings
      BY <2>2, <2>3, Scanned
    <2> HIDE DEF e
    <2>5. Follows(c, e)
      BY <2>2, <2>4 DEF Follows, Same
    <2> QED BY <1>0, <2>1, <2>2, <2>5, MarkGoesOn DEF e
  <1>9. ASSUME NEW c \in tasks, SaveSucceeded(c) PROVE MarkInv'
    <2>1. /\ tasks' = (tasks \ ({c} \cup Waiting)) \cup {[c EXCEPT !.stage = "refetch"]}
          /\ c.stage = "save" /\ c.answer = "ok"
          /\ UNCHANGED <<draft, page, others, overlaid>> /\ Resumed /\ reading' = Sent /\ isError' = isError
      BY <1>9 DEF SaveSucceeded, Refetched, serverVars, bounds
    <2> DEFINE e == [c EXCEPT !.stage = "refetch"]
    <2>2. Same(c, e) /\ e.stage = "refetch" /\ e.answer = "ok"
      BY <2>1, Waits
    <2> HIDE DEF e
    <2>3. \A d \in tasks' : d = e \/ (d \in tasks /\ d.stage # "refetch")
      BY <2>1 DEF Waiting, e
    <2> QED BY <1>0, <2>1, <2>2, <2>3, MarkResumed DEF Follows
  <1>10. ASSUME NEW c \in tasks, DeleteEnded(c) PROVE MarkInv'
    <2>1. CASE c.answer = "ok"
      <3>1. /\ tasks' = tasks \ ({c} \cup Waiting) /\ Resumed /\ reading' = Sent /\ isError' = isError
            /\ UNCHANGED <<draft, page, others, overlaid>>
        BY <1>10, <2>1 DEF DeleteEnded, Refetched, serverVars, bounds
      <3>2. \A d \in tasks' : d \in tasks /\ d.stage # "refetch"
        BY <3>1 DEF Waiting
      <3> QED BY <1>0, <3>1, <3>2, MarkResumed DEF Follows
    <2>2. CASE c.answer # "ok"
      <3>1. /\ tasks' = tasks \ {c} /\ UNCHANGED <<draft, page, reading, isError, activeId, others, overlaid>>
        BY <1>10, <2>2 DEF DeleteEnded, serverVars, bounds
      <3> QED BY <1>0, <3>1, MarkGoesOn
    <2> QED BY <2>1, <2>2
  <1>11. ASSUME NEW c \in tasks, SaveFailed(c) \/ Validated(c) \/ SubmitEnded(c) PROVE MarkInv'
    <2>1. UNCHANGED <<draft, page, reading, isError, activeId, overlaid, others>>
          /\ (tasks' \subseteq tasks \/ tasks' \subseteq Aborted)
      BY <1>11 DEF SaveFailed, Failed, Validated, SubmitEnded, Imported, NotImported, serverVars, cacheVars, localVars, choiceVars, bounds
    <2> QED BY <1>0, <1>4, <2>1, MarkGoesOn
  <1>12. ASSUME NEW c \in tasks, UploadEnded(c) PROVE MarkInv'
    <2>1. UNCHANGED <<draft, page, reading, isError, activeId, overlaid, others>> /\ c.op = "upload"
      BY <1>12, OpsByStage DEF UploadEnded, serverVars, cacheVars, choiceVars, bounds
    <2>2. page \in Pages
      BY DEF PagesInv, IsRead
    <2>3. CASE tasks' = (tasks \ {c}) \cup {[c EXCEPT !.stage = "save", !.answer = "none", !.revision = page.revision]}
      <3> DEFINE e == [c EXCEPT !.stage = "save", !.answer = "none", !.revision = page.revision]
      <3>1. Same(c, e) /\ e.stage = "save"
        BY <2>1, <2>2, Uploaded
      <3> HIDE DEF e
      <3>2. Follows(c, e)
        BY <2>1, <3>1 DEF Follows, Same
      <3> QED BY <1>0, <2>1, <2>3, <3>2, MarkGoesOn DEF e
    <2>4. CASE tasks' = tasks \ {c}
      BY <1>0, <2>1, <2>4, MarkGoesOn
    <2> QED BY <1>12, <2>3, <2>4 DEF UploadEnded, With
  <1>13. ASSUME UNCHANGED studioVars PROVE MarkInv'
    <2>1. UNCHANGED <<draft, page, reading, isError, activeId, overlaid, others, tasks>>
      BY <1>13 DEF studioVars, serverVars, cacheVars, localVars, choiceVars, bounds
    <2> QED BY <1>0, <2>1, MarkGoesOn
  <1>14. ASSUME NEW c \in tasks, Executed(c) \/ Fail(c) \/ Ended(c) PROVE MarkInv'
    BY <1>7, <1>8, <1>9, <1>10, <1>11, <1>12, <1>14, MarkServed, MarkCleared DEF Executed, Ended
  <1>15. ASSUME ThemeSteps PROVE MarkInv'
    BY <1>1, <1>3, <1>15 DEF ThemeSteps
  <1>16. ASSUME Retry PROVE MarkInv'
    <2>1. /\ tasks' = tasks \ Waiting /\ Resumed /\ reading' = Sent /\ isError' = isError
          /\ UNCHANGED <<draft, page, others, overlaid>>
      BY <1>16 DEF Retry, Refetched, serverVars, bounds
    <2>2. \A d \in tasks' : d \in tasks /\ d.stage # "refetch"
      BY <2>1 DEF Waiting
    <2> QED BY <1>0, <2>1, <2>2, MarkResumed DEF Follows
  <1>17. ASSUME PageFails PROVE MarkInv'
    <2>1. Resumed /\ reading' = Idle /\ isError' = TRUE /\ UNCHANGED <<draft, page, others, overlaid>>
      BY <1>17 DEF PageFails, serverVars, bounds
    <2>2. ASSUME NEW d \in tasks'
          PROVE  \E c \in tasks : /\ Same(c, d) /\ (d.answer = "ok" => c.answer = "ok")
                                   /\ d.stage = c.stage /\ d.stage # "refetch" /\ d.base = c.base
      BY <1>17, LeftFacts DEF PageFails, bounds, Same
    <2> QED BY <2>1, <2>2, MarkResumed
  <1> QED BY <1>2, <1>5, <1>6, <1>13, <1>14, <1>15, <1>16, <1>17, MarkRead, MarkArrives DEF StudioNext

-----------------------------------------------------------------------------
(* The dialog *)

\* The dialog is left alone, and no handler becomes an import or a validation.
LEMMA DialogSteady ==
  ASSUME DialogInv, UNCHANGED dialog,
         \A d \in tasks' : \/ d.op \notin {"check", "import"}
                           \/ \E c \in tasks : d.op = c.op /\ d.want = c.want /\ (Heard(d) => Heard(c))
  PROVE  DialogInv'
  <1>1. \A d \in tasks' : ImportOK(d)'
    <2> TAKE d \in tasks'
    <2>1. CASE d.op \notin {"check", "import"}
      BY <2>1 DEF ImportOK
    <2>2. ASSUME NEW c \in tasks, d.op = c.op, d.want = c.want, Heard(d) => Heard(c) PROVE ImportOK(d)'
      <3>1. ImportOK(c)
        BY DEF DialogInv
      <3> QED BY <2>2, <3>1 DEF ImportOK, Heard
    <2> QED BY <2>1, <2>2
  <1> QED BY <1>1 DEF DialogInv

LEMMA DialogHolds ==
  ASSUME ThemeStudioAssumption, StudioTypeOK, TasksInv, PagesInv, DialogInv, [StudioNext]_studioVars
  PROVE  DialogInv'
  <1>0. /\ page \in Pages /\ draft \in Pages /\ begun \in Nat
        /\ \A d \in Aborted : \E c \in tasks : d.op = c.op /\ d.want = c.want /\ (d.op = "check" => ~Heard(d))
                                               /\ (c.op # "check" => d = c)
    BY AbortedFacts DEF PagesInv, IsRead, StudioTypeOK, Heard
  <1>1. ASSUME UNCHANGED dialog, NEW op \in {"theme", "background", "upload", "delete"}, NEW stage, NEW want,
               Start(Handler(op, stage, want)),
               \/ op = "theme" /\ stage = "save" /\ want \in ThemeIds
               \/ op = "background" /\ stage = "save" /\ want \in Backgrounds
               \/ op = "upload" /\ stage = "upload" /\ want \in Media
               \/ op = "delete" /\ stage = "scan" /\ want \in Media
        PROVE  DialogInv'
    <2>1. PICK d : tasks' = tasks \cup {d} /\ Fresh(d, op, stage, want)
      BY <1>0, <1>1, Starts
    <2> QED BY <1>1, <2>1, DialogSteady DEF Fresh
  <1>2. ASSUME ThemeSteps PROVE DialogInv'
    <2>1. ASSUME NEW id \in ThemeIds, HandleActivate(id) PROVE DialogInv'
      BY <1>1, <2>1 DEF HandleActivate
    <2>2. ASSUME NEW id \in ThemeIds, NEW loaded \in BOOLEAN, SheetIsLate(id) \/ SheetEnds(loaded) PROVE DialogInv'
      <3>1. UNCHANGED <<dialog, tasks>>
        BY <2>2 DEF SheetIsLate, SheetEnds
      <3> QED BY <3>1, DialogSteady
    <2> QED BY <1>2, <2>1, <2>2 DEF ThemeSteps
  <1>3. ASSUME LibrarySteps PROVE DialogInv'
    <2>1. ASSUME NEW media \in Backgrounds, ApplyBackground(media) PROVE DialogInv'
      BY <1>1, <2>1 DEF ApplyBackground
    <2>2. ASSUME CommitOpacity PROVE DialogInv'
      <3>1. bg \in Backgrounds
        BY DEF StudioTypeOK
      <3> QED BY <1>1, <2>2, <3>1 DEF CommitOpacity
    <2>3. ASSUME NEW media \in Media, HandleUploadMine(media) PROVE DialogInv'
      BY <1>1, <2>3 DEF HandleUploadMine
    <2>4. ASSUME NEW media \in Media, HandleDeleteMedia(media) PROVE DialogInv'
      BY <1>1, <2>4 DEF HandleDeleteMedia
    <2>5. None \in Backgrounds
      BY DEF Backgrounds
    <2> QED BY <1>3, <2>1, <2>2, <2>3, <2>4, <2>5 DEF LibrarySteps, HandleChooseBg, HandleRemoveBg
  <1>4. ASSUME DialogSteps PROVE DialogInv'
    <2>1. ASSUME HandleSubmit PROVE DialogInv'
      <3>1. dialog.file \in GoodFiles /\ dialog.file \in Files
        BY <2>1 DEF HandleSubmit, CanSubmit, StudioTypeOK, DialogInv
      <3>2. PICK d : tasks' = tasks \cup {d} /\ Fresh(d, "import", "check", dialog.file)
        BY <1>0, <2>1, <3>1, Starts DEF HandleSubmit
      <3>3. dialog'.file = dialog.file /\ dialog'.validation = dialog.validation
        BY <2>1 DEF HandleSubmit
      <3>4. \A x \in tasks' : ImportOK(x)'
        BY <3>1, <3>2, <3>3 DEF DialogInv, ImportOK, Fresh, Heard
      <3> QED BY <3>3, <3>4 DEF DialogInv
    <2>2. ASSUME HandleClose PROVE DialogInv'
      <3>1. dialog' = Blank /\ tasks' = Aborted
        BY <2>2 DEF HandleClose
      <3>2. \A x \in tasks' : ImportOK(x)'
        BY <1>0, <3>1 DEF DialogInv, ImportOK, Heard
      <3> QED BY <3>1, <3>2 DEF DialogInv, Blank
    <2>3. ASSUME NEW file \in Files \cup {NoFile}, ChooseFile(file) PROVE DialogInv'
      <3>1. CASE file = NoFile
        <4>1. tasks' = tasks
          BY <2>3, <3>1 DEF ChooseFile
        <4>2. dialog'.file = NoFile /\ dialog'.validation = "none"
          BY <2>3, <3>1 DEF ChooseFile
        <4>3. \A x \in tasks' : ImportOK(x)'
          BY <4>1, <4>2 DEF DialogInv, ImportOK, Heard
        <4> QED BY <4>2, <4>3 DEF DialogInv
      <3>2. CASE file # NoFile
        <4> DEFINE d == [Handler("check", "check", file) EXCEPT !.id = begun']
        <4>1. begun' = begun + 1 /\ tasks' = Aborted \cup {d}
              /\ dialog'.file = file /\ dialog'.validation = "none"
          BY <2>3, <3>2 DEF ChooseFile
        <4>2. begun' \in Nat /\ "check" \in Ops /\ "check" \in Stages
              /\ file \in ThemeIds \cup Backgrounds \cup Files
          BY <1>0, <3>2, <4>1 DEF Ops, Stages
        <4>3. d \in TaskRecords /\ d.id = begun' /\ d.op = "check" /\ d.stage = "check" /\ d.want = file
          BY <1>0, <4>2, HandlerFacts
        <4> HIDE DEF d
        <4>4. \A x \in tasks' : ImportOK(x)'
          BY <1>0, <4>1, <4>3 DEF DialogInv, ImportOK, Heard
        <4> QED BY <4>1, <4>4 DEF DialogInv
      <3> QED BY <3>1, <3>2
    <2> QED BY <1>4, <2>1, <2>2, <2>3 DEF DialogSteps
  <1>5. ASSUME OtherSteps PROVE DialogInv'
    <2>1. dialog' = dialog /\ \A d \in tasks' : d \in tasks \/ \E media \in Media : d = Handler("delete", "scan", media)
      BY <1>5 DEF OtherSteps, SettingsElsewhere, DeleteElsewhere, Other
    <2>2. \A d \in tasks' : d \in tasks \/ d.op = "delete"
      BY <2>1 DEF Handler
    <2> QED BY <2>1, <2>2, DialogSteady
  <1>6. ASSUME NEW c \in tasks, UNCHANGED dialog, NEW d, Same(c, d), tasks' \subseteq (tasks \ {c}) \cup {d},
               c.op \notin {"check", "import"} \/ (d.answer # "aborted" /\ c.answer # "aborted")
        PROVE  DialogInv'
    BY <1>6, DialogSteady DEF Same, Heard
  <1>7. ASSUME NEW c \in tasks, ServeSave(c) \/ ServeUpload(c) \/ Drop(c) \/ Fail(c) PROVE DialogInv'
    <2>1. UNCHANGED dialog
      BY <1>7 DEF ServeSave, ServeUpload, Drop, Fail, Served
    <2>2. \/ tasks' = tasks \ {c}
          \/ \E a \in {"ok", "failed"} : c.answer = "none" /\ tasks' = (tasks \ {c}) \cup {[c EXCEPT !.answer = a]}
      BY <1>7 DEF ServeSave, ServeUpload, Drop, Fail, Answered, With
    <2>3. CASE \E a \in {"ok", "failed"} : c.answer = "none" /\ tasks' = (tasks \ {c}) \cup {[c EXCEPT !.answer = a]}
      <3>1. PICK a \in {"ok", "failed"} : c.answer = "none" /\ tasks' = (tasks \ {c}) \cup {[c EXCEPT !.answer = a]}
        BY <2>3
      <3>2. a \in Answers
        BY DEF Answers
      <3>3. Same(c, [c EXCEPT !.answer = a]) /\ [c EXCEPT !.answer = a].answer = a
        BY <3>2, Replied
      <3> QED BY <1>6, <2>1, <3>1, <3>3
    <2> QED BY <2>1, <2>2, <2>3, DialogSteady
  <1>8. ASSUME NEW c \in tasks, Scan(c) PROVE DialogInv'
    <2>1. PICK s \in {"clear", "drop"} : tasks' = (tasks \ {c}) \cup {[c EXCEPT !.stage = s, !.base = draft.settings]}
      BY <1>8 DEF Scan, With
    <2>2. dialog' = dialog /\ c.op = "delete"
      BY <1>8 DEF Scan, Served
    <2> QED BY <1>0, <1>6, <2>1, <2>2, Scanned
  <1>9. ASSUME NEW c \in tasks, Clear(c) PROVE DialogInv'
    <2>1. tasks' = (tasks \ {c}) \cup {[c EXCEPT !.stage = "drop"]} /\ dialog' = dialog /\ c.op = "delete"
      BY <1>9, OpsByStage DEF Clear, With, Served
    <2> QED BY <1>6, <2>1, Dropped
  <1>10. ASSUME NEW c \in tasks, SaveSucceeded(c) PROVE DialogInv'
    <2>1. tasks' \subseteq (tasks \ {c}) \cup {[c EXCEPT !.stage = "refetch"]} /\ dialog' = dialog /\ c.stage = "save"
      BY <1>10 DEF SaveSucceeded
    <2>2. c.op \notin {"check", "import"}
      BY <2>1, OpsByStage
    <2> QED BY <1>6, <2>1, <2>2, Waits
  <1>11. ASSUME NEW c \in tasks, UploadEnded(c) PROVE DialogInv'
    <2>1. dialog' = dialog /\ c.op = "upload"
      BY <1>11, OpsByStage DEF UploadEnded
    <2>2. CASE tasks' = (tasks \ {c}) \cup {[c EXCEPT !.stage = "save", !.answer = "none", !.revision = page.revision]}
      BY <1>0, <1>6, <2>1, <2>2, Uploaded
    <2> QED BY <1>11, <2>1, <2>2, DialogSteady DEF UploadEnded, With
  <1>12. ASSUME NEW c \in tasks, SaveFailed(c) \/ DeleteEnded(c) PROVE DialogInv'
    <2>1. tasks' \subseteq tasks /\ dialog' = dialog
      BY <1>12 DEF SaveFailed, DeleteEnded
    <2> QED BY <2>1, DialogSteady
  <1>13. ASSUME NEW c \in tasks, Validated(c) PROVE DialogInv'
    <2>1. c.op = "check" /\ tasks' = tasks \ {c}
      BY <1>13 DEF Validated
    <2>2. CASE ~Heard(c)
      <3>1. dialog' = dialog
        BY <1>13, <2>2 DEF Validated
      <3> QED BY <2>1, <3>1, DialogSteady
    <2>3. CASE Heard(c)
      <3>1. PICK v \in {"valid", "invalid"} :
              /\ v = "valid" => c.want \in GoodFiles
              /\ dialog'.file = dialog.file /\ dialog'.validation = v
        BY <1>13, <2>3 DEF Validated
      <3>2. dialog'.file = dialog.file /\ dialog'.validation = v
        BY <3>1
      <3>3. dialog.file \in {c.want, NoFile}
        BY <2>1, <2>3 DEF DialogInv, ImportOK
      <3>4. \A x \in tasks' : ImportOK(x)'
        BY <2>1, <3>2 DEF DialogInv, ImportOK, Heard
      <3> QED BY <3>1, <3>2, <3>3, <3>4 DEF DialogInv
    <2> QED BY <2>2, <2>3
  <1>14. ASSUME NEW c \in tasks, SubmitEnded(c) PROVE DialogInv'
    <2>1. CASE tasks' = tasks \ {c} /\ dialog'.file = dialog.file /\ dialog'.validation = dialog.validation
      <3>1. \A x \in tasks' : ImportOK(x)'
        BY <2>1 DEF DialogInv, ImportOK, Heard
      <3> QED BY <2>1, <3>1 DEF DialogInv
    <2>2. CASE dialog' = Blank /\ tasks' \subseteq Aborted
      <3>1. \A x \in tasks' : ImportOK(x)'
        BY <1>0, <2>2 DEF DialogInv, ImportOK, Heard
      <3> QED BY <2>2, <3>1 DEF DialogInv, Blank
    <2> QED BY <1>14, <2>1, <2>2 DEF SubmitEnded, Imported, NotImported
  <1>15. ASSUME PageRead \/ PageArrives \/ Retry \/ UNCHANGED studioVars PROVE DialogInv'
    <2>1. tasks' \subseteq tasks /\ dialog' = dialog
      BY <1>15 DEF PageRead, PageArrives, Retry, studioVars
    <2> QED BY <2>1, DialogSteady
  <1>16. ASSUME NEW c \in tasks, Executed(c) \/ Fail(c) \/ Ended(c) PROVE DialogInv'
    BY <1>7, <1>8, <1>9, <1>10, <1>11, <1>12, <1>13, <1>14, <1>16 DEF Executed, Ended
  <1>17. ASSUME PageFails PROVE DialogInv'
    <2>1. dialog' = Blank
      BY <1>17 DEF PageFails
    <2>2. \A d \in tasks' : \E c \in tasks : /\ d.op = c.op /\ d.want = c.want
                                             /\ (d.op = "check" => ~Heard(d))
      BY <1>17, LeftFacts DEF PageFails, bounds, Heard
    <2>3. \A x \in tasks' : ImportOK(x)'
      BY <2>1, <2>2 DEF DialogInv, ImportOK, Heard
    <2> QED BY <2>1, <2>3 DEF DialogInv, Blank
  <1> QED BY <1>2, <1>3, <1>4, <1>5, <1>15, <1>16, <1>17 DEF StudioNext

-----------------------------------------------------------------------------
(* Types and the preview *)

LEMMA SheetFacts ==
  ASSUME ThemeStudioAssumption, NEW s \in Registry, NEW id \in ThemeIds
  PROVE  /\ Activated(s, id) \in Registry
         /\ Activated(s, id).loading # "none" => Activated(s, id).loading = id
         /\ Activated(s, id).loading = "none" => Activated(s, id).applied = id
         /\ Late(s, id) \in Registry
         /\ Late(s, id).loading = s.loading /\ Late(s, id).applied = s.applied /\ Late(s, id).failed = s.failed
         /\ Deactivated(s) \in Registry
         /\ Deactivated(s).loading = "none" /\ Deactivated(s).applied = "none"
  <1>1. PICK a, l, u, f : /\ s = [applied |-> a, loading |-> l, superseded |-> u, failed |-> f]
                          /\ a \in ThemeIds \cup {"none"} /\ l \in ThemeIds \cup {"none"}
                          /\ u \subseteq ThemeIds /\ f \in BOOLEAN
    BY DEF Registry
  <1>2. PICK b : b = Abandoned(s)
    OBVIOUS
  <1>3. b \subseteq ThemeIds
    BY <1>1, <1>2 DEF Abandoned
  <1>4. PICK n : n = IF s.applied = id THEN "none" ELSE id
    OBVIOUS
  <1>5. PICK g \in BOOLEAN : g = FALSE
    OBVIOUS
  <1>6. Activated(s, id) = [s EXCEPT !.superseded = b, !.failed = g, !.loading = n]
    BY <1>2, <1>4, <1>5 DEF Activated
  <1>7. Activated(s, id) = [applied |-> a, loading |-> n, superseded |-> b, failed |-> g]
    BY <1>1, <1>6
  <1>8. /\ Activated(s, id) \in Registry
        /\ Activated(s, id).loading # "none" => Activated(s, id).loading = id
        /\ Activated(s, id).loading = "none" => Activated(s, id).applied = id
    BY <1>1, <1>3, <1>4, <1>7 DEF Registry, ThemeStudioAssumption
  <1>9. Late(s, id) = [applied |-> a, loading |-> l, superseded |-> u \ {id}, failed |-> f]
    BY <1>1 DEF Late
  <1>10. Deactivated(s) = [applied |-> "none", loading |-> "none", superseded |-> b, failed |-> g]
    <2>1. PICK e : e = "none"
      OBVIOUS
    <2>2. Deactivated(s) = [s EXCEPT !.superseded = b, !.loading = e, !.applied = e, !.failed = g]
      BY <1>2, <1>5, <2>1 DEF Deactivated
    <2>3. Deactivated(s) = [applied |-> e, loading |-> e, superseded |-> b, failed |-> g]
      BY <1>1, <2>2
    <2> QED BY <2>1, <2>3
  <1>11. Deactivated(s) \in Registry /\ Deactivated(s).loading = "none" /\ Deactivated(s).applied = "none"
    BY <1>3, <1>5, <1>10 DEF Registry
  <1> QED BY <1>1, <1>8, <1>9, <1>11 DEF Registry

LEMMA PreviewKept ==
  ASSUME ThemeStudioAssumption, sheet \in Registry, PreviewInv, Preview, isError' \in BOOLEAN,
         PreviewId' \in ThemeIds
  PROVE  sheet' \in Registry /\ PreviewInv'
  <1>1. PICK id \in ThemeIds : id = PreviewId'
    OBVIOUS
  <1>2. CASE isError'
    <2>1. sheet' = Deactivated(sheet)
      BY <1>2 DEF Preview
    <2>2. sheet' \in Registry /\ sheet'.loading = "none" /\ sheet'.applied = "none"
      BY <1>1, <2>1, SheetFacts
    <2> QED BY <1>2, <2>2 DEF PreviewInv, PreviewFollows
  <1>3. CASE ~isError' /\ (isError \/ PreviewId' # PreviewId)
    <2>1. sheet' = Activated(sheet, id)
      BY <1>1, <1>3 DEF Preview
    <2>2. /\ sheet' \in Registry
          /\ sheet'.loading # "none" => sheet'.loading = id
          /\ sheet'.loading = "none" => sheet'.applied = id
      BY <2>1, SheetFacts
    <2> QED BY <1>1, <1>3, <2>2 DEF PreviewInv, PreviewFollows
  <1>4. CASE ~isError' /\ ~isError /\ PreviewId' = PreviewId
    <2>1. sheet' = sheet
      BY <1>4 DEF Preview
    <2> QED BY <1>4, <2>1 DEF PreviewInv, PreviewFollows
  <1> QED BY <1>2, <1>3, <1>4

Dialogs == [file : Files \cup {NoFile}, validation : {"none", "valid", "invalid"},
            validating : BOOLEAN, submitting : BOOLEAN]

LEMMA DialogFacts ==
  ASSUME NEW f \in Files \cup {NoFile}, NEW v \in {"none", "valid", "invalid"}, NEW b \in BOOLEAN, NEW u \in BOOLEAN
  PROVE  [file |-> f, validation |-> v, validating |-> b, submitting |-> u] \in Dialogs
  BY DEF Dialogs

LEMMA BlankFacts == Blank \in Dialogs
  <1>1. PICK b \in BOOLEAN : b = FALSE
    OBVIOUS
  <1>2. PICK v \in {"none", "valid", "invalid"} : v = "none"
    OBVIOUS
  <1>3. Blank = [file |-> NoFile, validation |-> v, validating |-> b, submitting |-> b]
    BY <1>1, <1>2 DEF Blank
  <1> QED BY <1>3 DEF Dialogs

\* What the page shows of themes and backgrounds.
ShownOK ==
  /\ activeId \in ThemeIds /\ pendingId \in ThemeIds \cup {"none"} /\ bg \in Backgrounds
  /\ mine \subseteq Media /\ shelf \subseteq Media /\ overlaid \in BOOLEAN /\ dialog \in Dialogs

LEMMA ResumedShown ==
  ASSUME ShownOK, TasksInv, Resumed
  PROVE  activeId' \in ThemeIds /\ pendingId' \in ThemeIds \cup {"none"}
  <1>1. \A id \in Chosen : id \in ThemeIds
    BY DEF Chosen, Waiting, TasksInv, TaskOK
  <1>2. CASE Chosen = {}
    BY <1>2 DEF Resumed, ShownOK
  <1>3. CASE Chosen # {}
    <2>1. PICK id \in Chosen : activeId' = id /\ pendingId' = "none"
      BY <1>3 DEF Resumed, Continued
    <2> QED BY <1>1, <2>1
  <1> QED BY <1>2, <1>3

LEMMA ShownHolds ==
  ASSUME ThemeStudioAssumption, StudioTypeOK, TasksInv, PagesInv, [StudioNext]_studioVars
  PROVE  ShownOK'
  <1>0. ShownOK /\ \A ops : (overlaid \/ \E c \in tasks : c.op \in ops) \in BOOLEAN
    BY DEF StudioTypeOK, ShownOK, Dialogs
  <1>1. ASSUME ThemeSteps PROVE ShownOK'
    <2>1. ASSUME NEW id \in ThemeIds, HandleActivate(id) PROVE ShownOK'
      BY <1>0, <2>1 DEF HandleActivate, Start, Overlaid, ShownOK, serverVars
    <2>2. ASSUME NEW id \in ThemeIds, NEW loaded \in BOOLEAN, SheetIsLate(id) \/ SheetEnds(loaded) PROVE ShownOK'
      BY <1>0, <2>2 DEF SheetIsLate, SheetEnds, ShownOK, serverVars, localVars, choiceVars
    <2> QED BY <1>1, <2>1, <2>2 DEF ThemeSteps
  <1>2. ASSUME LibrarySteps PROVE ShownOK'
    <2>1. ASSUME NEW media \in Backgrounds, ApplyBackground(media) PROVE ShownOK'
      BY <1>0, <2>1 DEF ApplyBackground, Start, ShownOK, serverVars, choiceVars
    <2>2. ASSUME CommitOpacity PROVE ShownOK'
      BY <1>0, <2>2 DEF CommitOpacity, Start, ShownOK, serverVars, choiceVars
    <2>3. ASSUME NEW media \in Media, HandleUploadMine(media) \/ HandleDeleteMedia(media) PROVE ShownOK'
      BY <1>0, <2>3 DEF HandleUploadMine, HandleDeleteMedia, Start, Overlaid, ShownOK, serverVars
    <2>4. None \in Backgrounds
      BY DEF Backgrounds
    <2> QED BY <1>2, <2>1, <2>2, <2>3, <2>4 DEF LibrarySteps, HandleChooseBg, HandleRemoveBg
  <1>3. ASSUME DialogSteps PROVE ShownOK'
    <2>1. UNCHANGED <<activeId, pendingId, bg, mine, shelf, overlaid>>
      BY <1>3 DEF DialogSteps, HandleSubmit, HandleClose, ChooseFile, Start, serverVars, localVars, choiceVars
    <2>2. dialog' \in Dialogs
      <3>1. PICK b \in BOOLEAN : b = TRUE
        OBVIOUS
      <3>2. PICK v \in {"none", "valid", "invalid"} : v = "none"
        OBVIOUS
      <3>3. /\ dialog.file \in Files \cup {NoFile} /\ dialog.validation \in {"none", "valid", "invalid"}
            /\ dialog.validating \in BOOLEAN /\ dialog.submitting \in BOOLEAN
        BY <1>0 DEF ShownOK, Dialogs
      <3>4. ASSUME NEW file \in Files \cup {NoFile}, ChooseFile(file) PROVE dialog' \in Dialogs
        <4>1. \/ dialog' = [file |-> NoFile, validation |-> v,
                            validating |-> dialog.validating, submitting |-> dialog.submitting]
              \/ dialog' = [file |-> file, validation |-> v, validating |-> b, submitting |-> dialog.submitting]
          BY <3>1, <3>2, <3>4 DEF ChooseFile
        <4> QED BY <3>3, <4>1, DialogFacts
      <3>5. ASSUME HandleSubmit PROVE dialog' \in Dialogs
        <4>1. dialog' = [file |-> dialog.file, validation |-> dialog.validation,
                         validating |-> dialog.validating, submitting |-> b]
          BY <3>1, <3>5 DEF HandleSubmit
        <4> QED BY <3>3, <4>1, DialogFacts
      <3> QED BY <1>3, <3>4, <3>5, BlankFacts DEF DialogSteps, HandleClose
    <2> QED BY <1>0, <2>1, <2>2 DEF ShownOK
  <1>4. ASSUME OtherSteps PROVE ShownOK'
    BY <1>0, <1>4 DEF OtherSteps, SettingsElsewhere, DeleteElsewhere, Other, ShownOK, localVars, choiceVars
  <1>5. ASSUME NEW c \in tasks, Executed(c) \/ Fail(c) PROVE ShownOK'
    <2>1. UNCHANGED <<activeId, pendingId, bg, mine, overlaid, dialog>>
      BY <1>5 DEF Executed, ServeSave, ServeUpload, Scan, Clear, Drop, Fail, Served, localVars, choiceVars
    <2>2. shelf' \subseteq shelf \/ (c.op = "upload" /\ shelf' = shelf \cup {c.want})
      BY <1>5, OpsByStage DEF Executed, ServeSave, ServeUpload, Scan, Clear, Drop, Fail, serverVars
    <2>3. c.op = "upload" => c.want \in Media
      BY DEF TasksInv, TaskOK
    <2> QED BY <1>0, <2>1, <2>2, <2>3 DEF ShownOK
  <1>6. \A id \in Chosen : id \in ThemeIds
    BY DEF Chosen, Waiting, TasksInv, TaskOK
  <1>7. ASSUME NEW c \in tasks, SaveSucceeded(c) \/ SaveFailed(c) PROVE ShownOK'
    <2>1. UNCHANGED <<bg, mine, shelf, overlaid, dialog>>
      BY <1>7 DEF SaveSucceeded, SaveFailed, serverVars
    <2>2. activeId' \in ThemeIds /\ pendingId' \in ThemeIds \cup {"none"}
      <3>1. CASE SaveSucceeded(c)
        BY <1>0, <3>1, ResumedShown DEF SaveSucceeded, Refetched
      <3>2. CASE SaveFailed(c)
        BY <1>0, <3>2 DEF SaveFailed, Failed, ShownOK
      <3> QED BY <1>7, <3>1, <3>2
    <2> QED BY <1>0, <2>1, <2>2 DEF ShownOK
  <1>8. ASSUME NEW c \in tasks, UploadEnded(c) PROVE ShownOK'
    <2>1. c.want \in Media /\ c.want \in Backgrounds
      BY <1>8, OpsByStage DEF UploadEnded, TaskOK, Backgrounds
    <2> QED BY <1>0, <1>8, <2>1 DEF UploadEnded, ShownOK, serverVars, choiceVars
  <1>9. ASSUME NEW c \in tasks, DeleteEnded(c) PROVE ShownOK'
    <2>1. UNCHANGED <<shelf, overlaid, dialog>> /\ None \in Backgrounds
      BY <1>9 DEF DeleteEnded, serverVars, Backgrounds
    <2>2. mine' \subseteq Media /\ bg' \in Backgrounds
      <3>1. CASE c.answer = "ok"
        <4>1. mine' = mine \ {c.want} /\ bg' = (IF bg = c.want THEN None ELSE bg)
          BY <1>9, <3>1 DEF DeleteEnded
        <4> QED BY <1>0, <2>1, <4>1 DEF ShownOK
      <3>2. CASE c.answer # "ok"
        <4>1. UNCHANGED <<mine, bg>>
          BY <1>9, <3>2 DEF DeleteEnded
        <4> QED BY <1>0, <4>1 DEF ShownOK
      <3> QED BY <3>1, <3>2
    <2>3. Resumed \/ UNCHANGED <<activeId, pendingId>>
      BY <1>9 DEF DeleteEnded, Refetched
    <2>4. activeId' \in ThemeIds /\ pendingId' \in ThemeIds \cup {"none"}
      BY <1>0, <2>3, ResumedShown DEF ShownOK
    <2> QED BY <1>0, <2>1, <2>2, <2>4 DEF ShownOK
  <1>10. ASSUME NEW c \in tasks, Validated(c) \/ SubmitEnded(c) PROVE ShownOK'
    <2>1. UNCHANGED <<activeId, pendingId, bg, mine, shelf, overlaid>>
      BY <1>10 DEF Validated, SubmitEnded, serverVars, localVars, choiceVars
    <2>2. PICK b \in BOOLEAN : b = FALSE
      OBVIOUS
    <2>3. /\ dialog.file \in Files \cup {NoFile} /\ dialog.validation \in {"none", "valid", "invalid"}
          /\ dialog.validating \in BOOLEAN /\ dialog.submitting \in BOOLEAN
      BY <1>0 DEF ShownOK, Dialogs
    <2>4. dialog' \in Dialogs
      <3>1. CASE SubmitEnded(c)
        <4>1. CASE NotImported(c)
          <5>1. dialog' = [file |-> dialog.file, validation |-> dialog.validation,
                           validating |-> dialog.validating, submitting |-> b]
            BY <2>2, <4>1 DEF NotImported
          <5> QED BY <2>3, <5>1, DialogFacts
        <4> QED BY <1>0, <3>1, <4>1, BlankFacts DEF SubmitEnded, Imported, ShownOK
      <3>2. CASE Validated(c)
        <4>1. PICK v \in {"none", "valid", "invalid"} :
                v = IF c.want \in GoodFiles /\ c.answer # "failed" THEN "valid" ELSE "invalid"
          OBVIOUS
        <4>2. dialog' = dialog \/ dialog' = [file |-> dialog.file, validating |-> b,
                                             submitting |-> dialog.submitting, validation |-> v]
          BY <2>2, <3>2, <4>1 DEF Validated
        <4> QED BY <1>0, <2>3, <4>2, DialogFacts DEF ShownOK
      <3> QED BY <1>10, <3>1, <3>2
    <2> QED BY <1>0, <2>1, <2>4 DEF ShownOK
  <1>11. ASSUME PageArrives PROVE ShownOK'
    <2>1. UNCHANGED <<mine, shelf, overlaid, dialog>> /\ Synced(page, page') /\ page' = reading[2] /\ Len(reading) = 2
      BY <1>11 DEF PageArrives, serverVars
    <2>5. IsRead(reading[2])
      BY <2>1, ReadLengths DEF PagesInv
    <2>2. page'.settings \in Settings
      BY <2>1, <2>5 DEF IsRead, Pages
    <2>3. page'.settings.theme \in ThemeIds /\ page'.settings.background \in Backgrounds
      BY <2>2 DEF Settings
    <2>4. activeId' \in ThemeIds /\ pendingId' \in ThemeIds \cup {"none"} /\ bg' \in Backgrounds
      BY <1>0, <1>6, <2>1, <2>3 DEF Synced, ShownOK
    <2> QED BY <1>0, <2>1, <2>4 DEF ShownOK
  <1>12. ASSUME PageRead \/ UNCHANGED studioVars PROVE ShownOK'
    BY <1>0, <1>12 DEF PageRead, studioVars, ShownOK, serverVars, localVars, choiceVars
  <1>13. ASSUME PageFails \/ Retry PROVE ShownOK'
    <2>1. UNCHANGED <<bg, mine, shelf, overlaid>> /\ Resumed /\ dialog' \in {dialog, Blank}
      BY <1>13 DEF PageFails, Retry, Refetched, serverVars
    <2>2. activeId' \in ThemeIds /\ pendingId' \in ThemeIds \cup {"none"}
      BY <1>0, <2>1, ResumedShown
    <2> QED BY <1>0, <2>1, <2>2, BlankFacts DEF ShownOK
  <1> QED BY <1>1, <1>2, <1>3, <1>4, <1>5, <1>7, <1>8, <1>9, <1>10, <1>11, <1>12, <1>13 DEF StudioNext, Ended

BoundsOK == begun \in Nat /\ others \in Nat /\ begun + others <= MaxActs

LEMMA BoundsHold ==
  ASSUME ThemeStudioAssumption, StudioTypeOK, [StudioNext]_studioVars
  PROVE  BoundsOK'
  <1>1. \/ begun' = begun /\ others' = others
        \/ begun' = begun + 1 /\ others' = others /\ begun + others < MaxActs
        \/ begun' = begun /\ others' = others + 1 /\ begun + others < MaxActs
    BY DEF StudioNext, ThemeSteps, LibrarySteps, DialogSteps, OtherSteps, Executed, Ended,
       HandleActivate, SheetIsLate, SheetEnds, HandleChooseBg, ApplyBackground, HandleUploadMine,
       HandleDeleteMedia, HandleRemoveBg, CommitOpacity, ChooseFile, HandleSubmit, HandleClose,
       SettingsElsewhere, DeleteElsewhere, Other, ServeSave, ServeUpload, Scan, Clear, Drop, Fail, Served,
       SaveSucceeded, SaveFailed, UploadEnded, DeleteEnded, Validated, SubmitEnded, PageRead, PageArrives,
       PageFails, Retry, Start, bounds, studioVars
  <1>2. begun \in Nat /\ others \in Nat /\ begun + others <= MaxActs /\ MaxActs \in Nat
    BY DEF StudioTypeOK, ThemeStudioAssumption
  <1> QED BY <1>1, <1>2 DEF BoundsOK

\* The error, and the buttons of deletions.
ButtonsOK == isError \in BOOLEAN /\ deletingId \in Media \cup {None} /\ refreshing \in BOOLEAN

LEMMA ButtonsHold ==
  ASSUME StudioTypeOK, [StudioNext]_studioVars
  PROVE  ButtonsOK'
  <1>1. isError' \in {isError, TRUE, FALSE}
    BY DEF StudioNext, ThemeSteps, LibrarySteps, DialogSteps, OtherSteps, Executed, Ended,
       HandleActivate, SheetIsLate, SheetEnds, HandleChooseBg, ApplyBackground, HandleUploadMine,
       HandleDeleteMedia, HandleRemoveBg, CommitOpacity, ChooseFile, HandleSubmit, HandleClose,
       SettingsElsewhere, DeleteElsewhere, Other, ServeSave, ServeUpload, Scan, Clear, Drop, Fail, Served,
       SaveSucceeded, SaveFailed, UploadEnded, DeleteEnded, Validated, SubmitEnded, PageRead, PageArrives,
       PageFails, Retry, Start, Refetched, cacheVars, studioVars
  <1>2. /\ deletingId' = deletingId \/ deletingId' = None \/ \E media \in Media : deletingId' = media
        /\ refreshing' \in {refreshing, TRUE, FALSE}
    BY DEF StudioNext, ThemeSteps, LibrarySteps, DialogSteps, OtherSteps, Executed, Ended,
       HandleActivate, SheetIsLate, SheetEnds, HandleChooseBg, ApplyBackground, HandleUploadMine,
       HandleDeleteMedia, HandleRemoveBg, CommitOpacity, ChooseFile, HandleSubmit, HandleClose,
       SettingsElsewhere, DeleteElsewhere, Other, ServeSave, ServeUpload, Scan, Clear, Drop, Fail, Served,
       SaveSucceeded, SaveFailed, UploadEnded, DeleteEnded, Validated, SubmitEnded, PageRead, PageArrives,
       PageFails, Retry, Start, DeletionResumed, deletionVars, localVars, studioVars
  <1> QED BY <1>1, <1>2 DEF StudioTypeOK, ButtonsOK

LEMMA PreviewHolds ==
  ASSUME ThemeStudioAssumption, StudioTypeOK, PreviewInv, ShownOK', ButtonsOK', [StudioNext]_studioVars
  PROVE  sheet' \in Registry /\ PreviewInv'
  <1>0. sheet \in Registry /\ PreviewId' \in ThemeIds /\ PreviewId \in ThemeIds /\ isError' \in BOOLEAN
    BY DEF StudioTypeOK, ShownOK, ButtonsOK, PreviewId
  <1>1. ASSUME Preview PROVE sheet' \in Registry /\ PreviewInv'
    BY <1>0, <1>1, PreviewKept
  <1>2. ASSUME UNCHANGED <<sheet, isError, activeId, pendingId>> PROVE sheet' \in Registry /\ PreviewInv'
    BY <1>0, <1>2 DEF PreviewInv, PreviewFollows, PreviewId
  <1>3. ASSUME NEW id \in ThemeIds, SheetIsLate(id) PROVE sheet' \in Registry /\ PreviewInv'
    <2>1. sheet' = Late(sheet, id) /\ PreviewId' = PreviewId /\ isError' = isError
      BY <1>3 DEF SheetIsLate, cacheVars, localVars, choiceVars, PreviewId
    <2>2. /\ sheet' \in Registry /\ sheet'.loading = sheet.loading
          /\ sheet'.applied = sheet.applied /\ sheet'.failed = sheet.failed
      BY <1>0, <2>1, SheetFacts
    <2> QED BY <2>1, <2>2 DEF PreviewInv, PreviewFollows
  <1>4. ASSUME NEW loaded \in BOOLEAN, SheetEnds(loaded) PROVE sheet' \in Registry /\ PreviewInv'
    <2>1. sheet' = Finished(sheet, loaded) /\ sheet.loading # "none" /\ UNCHANGED <<activeId, pendingId, isError>>
      BY <1>4 DEF SheetEnds, cacheVars, localVars, choiceVars
    <2>2. PICK f \in BOOLEAN : f = ~loaded
      OBVIOUS
    <2>3. PICK a : a = IF loaded THEN sheet.loading ELSE sheet.applied
      OBVIOUS
    <2>4. sheet' = [sheet EXCEPT !.loading = "none", !.failed = f, !.applied = a]
      BY <2>1, <2>2, <2>3 DEF Finished
    <2>5. a \in ThemeIds \cup {"none"} /\ (loaded => a = PreviewId) /\ (~loaded => f)
      BY <1>0, <2>1, <2>2, <2>3 DEF Registry, PreviewInv
    <2>6. sheet' \in Registry /\ sheet'.loading = "none" /\ sheet'.applied = a /\ sheet'.failed = f
      BY <1>0, <2>4, <2>5 DEF Registry
    <2>7. PreviewId' = PreviewId
      BY <2>1 DEF PreviewId
    <2>8. ~isError
      BY <2>1 DEF PreviewInv, PreviewFollows
    <2> QED BY <2>1, <2>5, <2>6, <2>7, <2>8 DEF PreviewInv, PreviewFollows
  <1>5. ASSUME ThemeSteps PROVE sheet' \in Registry /\ PreviewInv'
    BY <1>1, <1>3, <1>4, <1>5 DEF ThemeSteps, HandleActivate
  <1>6. ASSUME LibrarySteps \/ DialogSteps \/ OtherSteps \/ PageRead \/ UNCHANGED studioVars
        PROVE  UNCHANGED <<sheet, isError, activeId, pendingId>>
    BY <1>6 DEF LibrarySteps, DialogSteps, OtherSteps, HandleChooseBg, ApplyBackground, HandleUploadMine,
       HandleDeleteMedia, HandleRemoveBg, CommitOpacity, ChooseFile, HandleSubmit, HandleClose,
       SettingsElsewhere, DeleteElsewhere, Other, PageRead, Start, studioVars, cacheVars, localVars, choiceVars
  <1>7. ASSUME NEW c \in tasks, Executed(c) \/ Fail(c) \/ UploadEnded(c) \/ Validated(c) \/ SubmitEnded(c)
        PROVE  UNCHANGED <<sheet, isError, activeId, pendingId>>
    BY <1>7 DEF Executed, ServeSave, ServeUpload, Scan, Clear, Drop, Fail, Served, UploadEnded, Validated,
       SubmitEnded, cacheVars, localVars, choiceVars
  <1>8. ASSUME NEW c \in tasks, SaveSucceeded(c) \/ SaveFailed(c) \/ DeleteEnded(c) PROVE Preview
    BY <1>8 DEF SaveSucceeded, SaveFailed, DeleteEnded
  <1>9. ASSUME PageArrives \/ PageFails \/ Retry PROVE Preview
    BY <1>9 DEF PageArrives, PageFails, Retry
  <1> QED BY <1>1, <1>2, <1>5, <1>6, <1>7, <1>8, <1>9 DEF StudioNext, Ended

LEMMA TypesHold ==
  ASSUME ThemeStudioAssumption, StudioInv, [StudioNext]_studioVars
  PROVE  StudioTypeOK' /\ PreviewInv'
  <1>1. ShownOK' /\ PagesInv' /\ BoundsOK' /\ ButtonsOK'
    BY ShownHolds, PagesHold, BoundsHold, ButtonsHold DEF StudioInv
  <1>2. sheet' \in Registry /\ PreviewInv'
    BY <1>1, PreviewHolds DEF StudioInv
  <1>3. page' \in [revision : 1..draft'.revision, settings : Settings]
    BY <1>1 DEF PagesInv, IsRead, Pages
  <1> QED BY <1>1, <1>2, <1>3 DEF StudioTypeOK, ShownOK, BoundsOK, ButtonsOK, Dialogs, PagesInv, Pages

-----------------------------------------------------------------------------
(* The theme page as a whole *)

LEMMA StudioInits == ASSUME ThemeStudioAssumption, StudioInit PROVE StudioInv
  <1>1. PICK s : s = [theme |-> Initial, background |-> None, look |-> "other"]
    OBVIOUS
  <1>2. s \in Settings /\ Initial \in ThemeIds /\ Initial \notin OneLook
    BY <1>1 DEF ThemeStudioAssumption, Settings, Backgrounds, Looks
  <1>3. IsClamped(s)
    <2>1. PICK l : l = "other"
      OBVIOUS
    <2>2. Clamped(s) = [theme |-> Initial, background |-> None, look |-> Fitted(Initial, l)]
      BY <1>1, <2>1, ClampedRecord
    <2> QED BY <1>1, <1>2, <2>1, <2>2 DEF IsClamped, Fitted
  <1>4. draft = [revision |-> 1, settings |-> s] /\ page = draft /\ reading = Idle /\ tasks = {} /\ isError = FALSE
    BY <1>1 DEF StudioInit
  <1>5. draft.revision = 1 /\ draft.settings = s /\ draft \in Pages
    BY <1>2, <1>4 DEF Pages
  <1>6. TasksInv
    BY <1>4 DEF TasksInv
  <1>7. PagesInv
    BY <1>3, <1>4, <1>5 DEF PagesInv, IsRead
  <1>8. activeId = page.settings.theme /\ PreviewId = Initial
    BY <1>1, <1>4, <1>5 DEF StudioInit, PreviewId
  <1>9. MarkInv
    BY <1>4, <1>8 DEF MarkInv, Alone
  <1>10. DialogInv
    BY <1>4 DEF StudioInit, DialogInv, Blank
  <1>11. PICK r : r = [applied |-> "none", loading |-> "none", superseded |-> {}, failed |-> FALSE]
    OBVIOUS
  <1>12. r \in Registry
    <2>1. FALSE \in BOOLEAN /\ {} \in SUBSET ThemeIds
      OBVIOUS
    <2> QED BY <1>11, <2>1 DEF Registry
  <1>13. sheet = Activated(r, Initial)
    BY <1>11 DEF StudioInit
  <1>14. sheet \in Registry /\ PreviewInv
    BY <1>2, <1>4, <1>8, <1>12, <1>13, SheetFacts DEF PreviewInv, PreviewFollows
  <1>15. dialog \in Dialogs
    BY BlankFacts DEF StudioInit
  <1>16. activeId \in ThemeIds /\ overlaid \in BOOLEAN /\ pendingId \in ThemeIds \cup {"none"} /\ bg \in Backgrounds
    BY <1>2 DEF StudioInit, Backgrounds
  <1>17. shelf \subseteq Media /\ mine \subseteq Media /\ begun \in Nat /\ others \in Nat /\ begun + others <= MaxActs
    BY DEF StudioInit, ThemeStudioAssumption
  <1>19. isError \in BOOLEAN /\ deletingId \in Media \cup {None} /\ refreshing \in BOOLEAN
    BY DEF StudioInit
  <1>18. page \in [revision : 1..draft.revision, settings : Settings]
    BY <1>2, <1>4, <1>5
  <1> QED BY <1>5, <1>6, <1>7, <1>9, <1>10, <1>14, <1>15, <1>16, <1>17, <1>18, <1>19 DEF StudioInv, StudioTypeOK, Pages, Dialogs

LEMMA StudioInvariance == StudioSpec => []StudioInv
  <1>1. StudioInit => StudioInv
    BY StudioInits, ThemeStudioAssumption
  <1>2. StudioInv /\ [StudioNext]_studioVars => StudioInv'
    <2> SUFFICES ASSUME StudioInv, [StudioNext]_studioVars PROVE StudioInv'
      OBVIOUS
    <2>1. TasksInv' /\ PagesInv' /\ DialogInv'
      BY TasksHold, PagesHold, DialogHolds, ThemeStudioAssumption DEF StudioInv
    <2>2. MarkInv'
      BY <2>1, MarkHolds, ThemeStudioAssumption DEF StudioInv
    <2>3. StudioTypeOK' /\ PreviewInv'
      BY TypesHold, ThemeStudioAssumption
    <2> QED BY <2>1, <2>2, <2>3 DEF StudioInv
  <1> QED BY <1>1, <1>2, PTL DEF StudioSpec

\* What the page marks as active is the draft's theme unless a choice was made
\* while something else could take it back, and only packages that were found
\* valid are imported.
THEOREM StudioScreenIsTrue == StudioSpec => []ScreenIsTrue
  <1>1. StudioInv => ScreenIsTrue
    <2> SUFFICES ASSUME StudioInv PROVE ScreenIsTrue
      OBVIOUS
    <2>1. ActiveIsTheDrafts
      BY DEF StudioInv, MarkInv, Undisturbed, Ahead, ActiveIsTheDrafts
    <2>2. ImportsAreValid
      BY DEF StudioInv, DialogInv, ImportOK, ImportsAreValid, CanSubmit, Task
    <2> QED BY <2>1, <2>2 DEF ScreenIsTrue, StudioInv
  <1> QED BY <1>1, StudioInvariance, PTL

\* The preview shows what was chosen last once its style sheet was loaded.
THEOREM StudioPreviewFollows == StudioSpec => []PreviewFollows
  <1>1. StudioInv => PreviewFollows
    BY DEF StudioInv, PreviewInv
  <1> QED BY <1>1, StudioInvariance, PTL

\* A save that is served changes of the draft what its handler is about: with
\* the draft's revision it has the draft's settings.
THEOREM SavesChangeWhatWasChosen == StudioSpec => SavesKeepTheRest
  <1> DEFINE Kept == \A c \in tasks :
       c.stage = "save" /\ c.op # "upload" /\ draft' # draft
         /\ (\E d \in tasks' : d.id = c.id /\ d.stage = "save" /\ d.answer # c.answer)
       => IF c.op = "background"
            THEN draft'.settings = [draft.settings EXCEPT !.background = c.want]
            ELSE /\ draft'.settings.background = draft.settings.background
                 /\ draft'.settings.look = Fitted(c.want, draft.settings.look)
  <1>1. ASSUME StudioInv, [StudioNext]_studioVars PROVE [Kept]_studioVars
    <2> SUFFICES ASSUME NEW c \in tasks, c.stage = "save", c.op # "upload", draft' # draft,
                        NEW d \in tasks', d.id = c.id, d.stage = "save", d.answer # c.answer
                 PROVE  IF c.op = "background"
                          THEN draft'.settings = [draft.settings EXCEPT !.background = c.want]
                          ELSE /\ draft'.settings.background = draft.settings.background
                               /\ draft'.settings.look = Fitted(c.want, draft.settings.look)
      OBVIOUS
    <2>1. TasksInv /\ PagesInv
      BY <1>1 DEF StudioInv
    <2>2. c.op \in {"theme", "background"} /\ c.id # 0 /\ TaskOK(c)
      BY <2>1, OpsByStage DEF TaskOK
    <2>3. d \notin tasks
      BY <2>1, <2>2 DEF TasksInv
    <2>4. ServeSave(c)
      <3>1. PICK e \in tasks : ServeSave(e) \/ Clear(e) \/ (e = c /\ SettingsElsewhere)
        <4>1. SettingsElsewhere \/ \E e \in tasks : ServeSave(e) \/ Clear(e)
          BY <1>1 DEF StudioNext, ThemeSteps, LibrarySteps, DialogSteps, OtherSteps, Executed, Ended,
             HandleActivate, SheetIsLate, SheetEnds, HandleChooseBg, ApplyBackground, HandleUploadMine,
             HandleDeleteMedia, HandleRemoveBg, CommitOpacity, ChooseFile, HandleSubmit, HandleClose,
             DeleteElsewhere, ServeUpload, Scan, Drop, Fail,
             SaveSucceeded, SaveFailed, UploadEnded, DeleteEnded, Validated, SubmitEnded, PageRead, PageArrives,
             PageFails, Retry, Start, serverVars, studioVars
        <4> QED BY <4>1
      <3>2. CASE SettingsElsewhere
        BY <2>3, <3>2 DEF SettingsElsewhere
      <3>3. CASE Clear(e)
        <4>1. tasks' = (tasks \ {e}) \cup {[e EXCEPT !.stage = "drop"]} /\ e.op = "delete"
          BY <2>1, <3>3, OpsByStage DEF Clear, With
        <4>2. [e EXCEPT !.stage = "drop"].stage = "drop"
          BY <2>1, <4>1, Dropped
        <4> QED BY <2>3, <4>1, <4>2
      <3>4. CASE ServeSave(e)
        <4>1. PICK a \in Answers : tasks' = (tasks \ {e}) \cup {[e EXCEPT !.answer = a]}
          BY <3>4 DEF ServeSave, Answered, With, Answers
        <4> DEFINE f == [e EXCEPT !.answer = a]
        <4>2. Same(e, f)
          BY <2>1, Replied
        <4>3. tasks' = (tasks \ {e}) \cup {f}
          BY <4>1
        <4> HIDE DEF f
        <4>4. d = f
          BY <2>3, <4>3
        <4>5. d.id = e.id
          BY <4>2, <4>4 DEF Same
        <4> QED BY <2>1, <2>2, <3>4, <4>5 DEF TasksInv
      <3> QED BY <3>1, <3>2, <3>3, <3>4
    <2>5. draft'.settings = Clamped(Body(c)) /\ c.revision = draft.revision
      BY <2>4 DEF ServeSave, Current
    <2>6. c.base = draft.settings /\ IsClamped(c.base)
      BY <2>1, <2>5 DEF PagesInv, SaveOK
    <2> QED BY <2>2, <2>5, <2>6, SavedFacts
  <1>2. StudioInv /\ [StudioNext]_studioVars => [Kept]_studioVars
    BY <1>1
  <1>3. [][Kept]_studioVars => SavesKeepTheRest
    BY DEF SavesKeepTheRest
  <1> QED BY <1>2, <1>3, StudioInvariance, PTL DEF StudioSpec

=============================================================================
