------------------------- MODULE PublicationProofs -------------------------
(***************************************************************************)
(* Proofs about Publication for any set of pages, slugs and clients and    *)
(* any bounds: its types, its safety invariants and that it implements     *)
(* PublicSite.  At the end, about Workspace, the tab that publishes: what  *)
(* its screen shows and what its publications put on the air.              *)
(***************************************************************************)
EXTENDS Publication, Workspace, FiniteSetTheorems, TLAPS

-----------------------------------------------------------------------------
(* The inductive invariant *)

\* The live pointer of a page leads to a snapshot of that page, and only
\* pages that exist are live: PublishedSlugAvailable quantifies over them.
LiveIsOwn ==
  \A p \in Pages : Live(p) => p \in created /\ LiveSnapshot(p).page = p

\* No snapshot is ahead of its page's draft, which is why a publication at
\* the current revision never goes back.
DraftIsAhead ==
  /\ \A p \in Pages : draftRevision[p] <= MaxRevision
  /\ \A i \in 1 .. Len(snapshots) :
       snapshots[i].revision <= draftRevision[snapshots[i].page]

\* Requests are about pages that exist.
RequestsAreForPages ==
  \A c \in Clients : inflight[c] # Idle => inflight[c].page \in created

Safety == LiveSlugUnique /\ PrivateIsOffAir /\ RevisionsAdvance

IInv ==
  TypeOK /\ Safety /\ LiveIsOwn /\ DraftIsAhead /\ RequestsAreForPages

-----------------------------------------------------------------------------
(* Types *)

\* Client c goes from idle to a request about an existing page and nothing
\* else changes but the clock.
Accepted(c) ==
  /\ clock' = clock + 1
  /\ UNCHANGED <<created, draftRevision, settings, current, snapshots, suspended>>
  /\ \E r \in Requests :
       /\ r # Idle
       /\ r.page \in created
       /\ inflight' = [inflight EXCEPT ![c] = r]

\* Whatever a client asks for, accepting it only adds its request.
LEMMA AcceptedRequest ==
  ASSUME TypeOK, NEW c \in Clients, Start(c)
  PROVE  Accepted(c)
<1> PICK p \in Pages :
      \/ \E v \in Visibilities, s \in Slugs : StartReplace(c, p, v, s)
      \/ \E expected \in 0 .. MaxRevision : StartPublish(c, p, expected)
      \/ StartUnpublish(c, p)
      \/ StartFeature(c, p)
  BY DEF Start
<1> clock + 1 \in Nat
  BY DEF TypeOK
<1>1. ASSUME NEW v \in Visibilities, NEW s \in Slugs, StartReplace(c, p, v, s)
      PROVE  Accepted(c)
  <2> DEFINE r == [op |-> "replace", page |-> p, now |-> clock + 1,
                   visibility |-> v, slug |-> s]
  <2>1. r \in Requests /\ r # Idle /\ r.page \in created
    BY <1>1 DEF Requests, ReplaceRequests, Idle, StartReplace, MayRequest
  <2> QED
    BY <1>1, <2>1 DEF StartReplace, Accept, Accepted
<1>2. ASSUME NEW expected \in 0 .. MaxRevision, StartPublish(c, p, expected)
      PROVE  Accepted(c)
  <2> DEFINE r == [op |-> "publish", page |-> p, now |-> clock + 1,
                   expected |-> expected]
  <2>1. r \in Requests /\ r # Idle /\ r.page \in created
    BY <1>2, BoundAssumption DEF Requests, PublishRequests, Idle, StartPublish, MayRequest
  <2> QED
    BY <1>2, <2>1 DEF StartPublish, Accept, Accepted
<1>3. CASE StartUnpublish(c, p)
  <2> DEFINE r == [op |-> "unpublish", page |-> p, now |-> clock + 1]
  <2>1. r \in Requests /\ r # Idle /\ r.page \in created
    BY <1>3 DEF Requests, PlainRequests, Idle, StartUnpublish, MayRequest
  <2> QED
    BY <1>3, <2>1 DEF StartUnpublish, Accept, Accepted
<1>4. CASE StartFeature(c, p)
  <2> DEFINE r == [op |-> "feature", page |-> p, now |-> clock + 1]
  <2>1. r \in Requests /\ r # Idle /\ r.page \in created
    BY <1>4 DEF Requests, PlainRequests, Idle, StartFeature
  <2> QED
    BY <1>4, <2>1 DEF StartFeature, Accept, Accepted
<1> QED
  BY <1>1, <1>2, <1>3, <1>4

\* What the transaction of each kind of request finds in its request.
LEMMA RequestShape ==
  ASSUME TypeOK, NEW c \in Clients
  PROVE  /\ inflight[c].op = "replace" => inflight[c] \in ReplaceRequests
         /\ inflight[c].op = "publish" => inflight[c] \in PublishRequests
         /\ inflight[c].op \in {"unpublish", "feature"} => inflight[c] \in PlainRequests
         /\ inflight[c].op # "idle" => inflight[c] # Idle
<1>1. inflight[c] \in Requests
  BY DEF TypeOK
<1> QED
  BY <1>1 DEF Requests, Idle, ReplaceRequests, PublishRequests, PlainRequests

LEMMA SnapshotTypes ==
  ASSUME TypeOK
  PROVE  \A i \in 1 .. Len(snapshots) : snapshots[i] \in Snapshots
<1>1. snapshots \in Seq(Snapshots)
  BY DEF TypeOK
<1> QED
  BY <1>1

-----------------------------------------------------------------------------
(* Steps that touch neither the live pointers nor the snapshots *)

LEMMA InitIInv == Init => IInv
<1> SUFFICES ASSUME Init PROVE IInv
  OBVIOUS
<1>1. TypeOK
  <2>1. DefaultSlug \in [Pages -> Slugs]
    BY SlugAssumption
  <2> QED
    BY <2>1 DEF Init, TypeOK, Pages, Settings, Visibilities, NoSnapshot, Requests
<1> QED
  BY <1>1, BoundAssumption
  DEF Init, IInv, Safety, LiveSlugUnique, PrivateIsOffAir, RevisionsAdvance,
      LiveIsOwn, DraftIsAhead, RequestsAreForPages, Live, NoSnapshot, Pages

LEMMA RegisterIInv ==
  ASSUME IInv, NEW p \in Pages, Register(p)
  PROVE  IInv'
<1>1. TypeOK'
  BY DEF IInv, TypeOK, Register, Settings
<1>2. ~Live(p)
  BY DEF IInv, LiveIsOwn, Register
<1>3. Safety'
  BY <1>2 DEF IInv, TypeOK, Register, Safety, LiveSlugUnique, PrivateIsOffAir,
     RevisionsAdvance, Live, LiveSnapshot, Settings
<1>4. LiveIsOwn' /\ DraftIsAhead' /\ RequestsAreForPages'
  BY DEF IInv, TypeOK, Register, LiveIsOwn, DraftIsAhead, RequestsAreForPages,
     Live, LiveSnapshot
<1> QED
  BY <1>1, <1>3, <1>4 DEF IInv

LEMMA EditDraftIInv ==
  ASSUME IInv, NEW p \in Pages, EditDraft(p)
  PROVE  IInv'
<1>1. TypeOK'
  BY DEF IInv, TypeOK, EditDraft
<1>2. Safety'
  BY DEF IInv, TypeOK, EditDraft, Safety, LiveSlugUnique, PrivateIsOffAir,
     RevisionsAdvance, Live, LiveSnapshot
<1>3. DraftIsAhead'
  <2>1. \A i \in 1 .. Len(snapshots) :
          snapshots[i].page \in Pages /\ snapshots[i].revision \in Nat
    BY SnapshotTypes DEF IInv, Snapshots
  <2>2. \A q \in Pages : /\ draftRevision[q] <= draftRevision'[q]
                         /\ draftRevision'[q] \in Nat
                         /\ draftRevision'[q] <= MaxRevision
    BY BoundAssumption DEF IInv, TypeOK, EditDraft, DraftIsAhead
  <2>3. \A q \in Pages : draftRevision[q] \in Nat
    BY DEF IInv, TypeOK
  <2>4. ASSUME NEW i \in 1 .. Len(snapshots)
        PROVE  snapshots[i].revision <= draftRevision'[snapshots[i].page]
    BY <2>1, <2>2, <2>3 DEF IInv, DraftIsAhead
  <2> QED
    BY <2>2, <2>4 DEF EditDraft, DraftIsAhead
<1>4. LiveIsOwn' /\ RequestsAreForPages'
  BY DEF IInv, TypeOK, EditDraft, LiveIsOwn, RequestsAreForPages, Live, LiveSnapshot
<1> QED
  BY <1>1, <1>2, <1>3, <1>4 DEF IInv

LEMMA SetUserStatusIInv ==
  ASSUME IInv, NEW p \in Pages, SetUserStatus(p)
  PROVE  IInv'
<1>1. TypeOK'
  BY DEF IInv, TypeOK, SetUserStatus
<1> QED
  BY <1>1 DEF IInv, SetUserStatus, Safety, LiveSlugUnique, PrivateIsOffAir,
     RevisionsAdvance, LiveIsOwn, DraftIsAhead, RequestsAreForPages, Live, LiveSnapshot

LEMMA StartIInv ==
  ASSUME IInv, NEW c \in Clients, Start(c)
  PROVE  IInv'
<1>1. Accepted(c)
  BY AcceptedRequest DEF IInv
<1>2. TypeOK'
  BY <1>1 DEF IInv, TypeOK, Accepted
<1>3. RequestsAreForPages'
  BY <1>1 DEF IInv, TypeOK, RequestsAreForPages, Accepted
<1> QED
  BY <1>1, <1>2, <1>3
  DEF IInv, Safety, LiveSlugUnique, PrivateIsOffAir, RevisionsAdvance,
      LiveIsOwn, DraftIsAhead, Live, LiveSnapshot, Accepted

LEMMA FailIInv ==
  ASSUME IInv, NEW c \in Clients, Fail(c)
  PROVE  IInv'
<1>1. TypeOK'
  BY DEF IInv, TypeOK, Fail, Requests
<1>2. RequestsAreForPages'
  BY DEF IInv, TypeOK, RequestsAreForPages, Fail
<1> QED
  BY <1>1, <1>2
  DEF IInv, Fail, Safety, LiveSlugUnique, PrivateIsOffAir, RevisionsAdvance,
      LiveIsOwn, DraftIsAhead, Live, LiveSnapshot

-----------------------------------------------------------------------------
(* Transactions *)

LEMMA CommitReplaceIInv ==
  ASSUME IInv, NEW c \in Clients, CommitReplace(c)
  PROVE  IInv'
<1> DEFINE r == inflight[c]
<1>1. r \in ReplaceRequests /\ r # Idle /\ r.page \in created
  BY RequestShape DEF CommitReplace, IInv, RequestsAreForPages, Idle
<1>2. TypeOK'
  BY <1>1 DEF IInv, TypeOK, CommitReplace, PointerUnder, ReplaceRequests, Settings,
     Requests, NoSnapshot
<1>3. \A p \in Pages : current'[p] = current[p] \/ current'[p] = NoSnapshot
  BY <1>1 DEF IInv, TypeOK, CommitReplace, PointerUnder
<1>4. LiveSlugUnique'
  BY <1>3 DEF IInv, TypeOK, Safety, LiveSlugUnique, CommitReplace, Live, LiveSnapshot
<1>5. PrivateIsOffAir'
  BY <1>1, <1>3 DEF IInv, TypeOK, Safety, PrivateIsOffAir, CommitReplace,
     PointerUnder, Live, ReplaceRequests
<1>6. RequestsAreForPages'
  BY DEF IInv, TypeOK, RequestsAreForPages, CommitReplace
<1>7. LiveIsOwn'
  BY <1>3 DEF IInv, TypeOK, LiveIsOwn, CommitReplace, Live, LiveSnapshot
<1> QED
  BY <1>2, <1>4, <1>5, <1>6, <1>7
  DEF IInv, Safety, RevisionsAdvance, DraftIsAhead, CommitReplace

LEMMA CommitUnpublishIInv ==
  ASSUME IInv, NEW c \in Clients, CommitUnpublish(c)
  PROVE  IInv'
<1> DEFINE r == inflight[c]
<1>1. r \in PlainRequests /\ r # Idle /\ r.page \in created
  BY RequestShape DEF CommitUnpublish, IInv, RequestsAreForPages, Idle
<1>2. TypeOK'
  <2>1. settings[r.page] \in Settings /\ r.now \in Nat /\ r.page \in Pages
    BY <1>1 DEF IInv, TypeOK, PlainRequests
  <2>2. [settings[r.page] EXCEPT !.visibility = "private", !.updatedAt = r.now] \in Settings
    BY <2>1 DEF Settings, Visibilities
  <2>3. settings' \in [Pages -> Settings]
    BY <2>1, <2>2 DEF IInv, TypeOK, CommitUnpublish
  <2>4. current' \in [Pages -> 0 .. Len(snapshots')]
    BY <2>1 DEF IInv, TypeOK, CommitUnpublish, NoSnapshot
  <2> QED
    BY <2>3, <2>4 DEF IInv, TypeOK, CommitUnpublish, Requests
<1>3. \A p \in Pages : current'[p] = IF p = r.page THEN NoSnapshot ELSE current[p]
  BY <1>1 DEF IInv, TypeOK, CommitUnpublish
<1>4. LiveSlugUnique'
  BY <1>3 DEF IInv, TypeOK, Safety, LiveSlugUnique, CommitUnpublish, Live, LiveSnapshot
<1>5. PrivateIsOffAir'
  BY <1>1, <1>3 DEF IInv, TypeOK, Safety, PrivateIsOffAir, CommitUnpublish, Live
<1>6. RequestsAreForPages'
  BY DEF IInv, TypeOK, RequestsAreForPages, CommitUnpublish
<1>7. LiveIsOwn'
  BY <1>3 DEF IInv, TypeOK, LiveIsOwn, CommitUnpublish, Live, LiveSnapshot
<1> QED
  BY <1>2, <1>4, <1>5, <1>6, <1>7
  DEF IInv, Safety, RevisionsAdvance, DraftIsAhead, CommitUnpublish

LEMMA CommitFeatureIInv ==
  ASSUME IInv, NEW c \in Clients, CommitFeature(c)
  PROVE  IInv'
<1> DEFINE r == inflight[c]
<1>1. r \in PlainRequests /\ r.page \in Pages
  BY RequestShape DEF CommitFeature, IInv, Pages
<1>2. TypeOK'
  BY <1>1 DEF IInv, TypeOK, CommitFeature, PlainRequests, Settings, Requests
<1>3. \A p \in Pages : settings'[p].visibility = settings[p].visibility
  BY <1>1 DEF IInv, TypeOK, CommitFeature, Settings
<1>4. PrivateIsOffAir'
  BY <1>3 DEF IInv, TypeOK, Safety, PrivateIsOffAir, CommitFeature, Live
<1>5. RequestsAreForPages'
  BY DEF IInv, TypeOK, RequestsAreForPages, CommitFeature
<1> QED
  BY <1>2, <1>4, <1>5
  DEF IInv, Safety, LiveSlugUnique, RevisionsAdvance, LiveIsOwn, DraftIsAhead,
      Live, LiveSnapshot, CommitFeature

\* The new snapshot stands last, belongs to the page and carries its current
\* draft; every earlier one keeps its place.
LEMMA PublishedSnapshot ==
  ASSUME IInv, NEW c \in Clients, CommitPublish(c)
  PROVE  LET p == inflight[c].page
             n == Len(snapshots) + 1 IN
         /\ p \in created /\ p \in Pages
         /\ settings[p].visibility # "private"
         /\ \A q \in created \ {p} : Live(q) => LiveSnapshot(q).slug # settings[p].slug
         /\ snapshots' \in Seq(Snapshots)
         /\ Len(snapshots') = n
         /\ \A i \in 1 .. Len(snapshots) : snapshots'[i] = snapshots[i]
         /\ snapshots'[n].page = p
         /\ snapshots'[n].slug = settings[p].slug
         /\ snapshots'[n].revision = draftRevision[p]
         /\ current' = [current EXCEPT ![p] = n]
<1> DEFINE r == inflight[c]
           p == r.page
           new == [page |-> p, revision |-> r.expected, slug |-> settings[p].slug,
                   visibility |-> settings[p].visibility, publishedAt |-> r.now]
<1>1. r \in PublishRequests /\ p \in created /\ p \in Pages
  BY RequestShape DEF CommitPublish, IInv, TypeOK, RequestsAreForPages, Idle
<1>2. settings[p] \in Settings /\ settings[p].visibility # "private"
  BY <1>1 DEF IInv, TypeOK, CommitPublish, Publishable
<1>3. new \in Snapshots
  BY <1>1, <1>2 DEF Settings, Snapshots, PublishRequests
<1>4. snapshots \in Seq(Snapshots) /\ snapshots' = Append(snapshots, new)
  BY DEF IInv, TypeOK, CommitPublish
<1>5. /\ snapshots' \in Seq(Snapshots)
      /\ Len(snapshots') = Len(snapshots) + 1
      /\ \A i \in 1 .. Len(snapshots) : snapshots'[i] = snapshots[i]
      /\ snapshots'[Len(snapshots) + 1] = new
  BY <1>3, <1>4
<1>6. \A q \in created \ {p} : Live(q) => LiveSnapshot(q).slug # settings[p].slug
  BY DEF CommitPublish, PublishedSlugAvailable
<1> QED
  BY <1>1, <1>2, <1>5, <1>6 DEF CommitPublish, Publishable

LEMMA CommitPublishIInv ==
  ASSUME IInv, NEW c \in Clients, CommitPublish(c)
  PROVE  IInv'
<1> DEFINE r == inflight[c]
           n == Len(snapshots) + 1
<1>0. PICK p \in Pages : p = r.page
  BY PublishedSnapshot
<1>1. /\ p \in created /\ p \in Pages
      /\ settings[p].visibility # "private"
      /\ \A q \in created \ {p} : Live(q) => LiveSnapshot(q).slug # settings[p].slug
      /\ snapshots' \in Seq(Snapshots)
      /\ Len(snapshots') = n
      /\ \A i \in 1 .. Len(snapshots) : snapshots'[i] = snapshots[i]
      /\ snapshots'[n].page = p
      /\ snapshots'[n].slug = settings[p].slug
      /\ snapshots'[n].revision = draftRevision[p]
      /\ current' = [current EXCEPT ![p] = n]
  BY <1>0, PublishedSnapshot
<1>2. Len(snapshots) \in Nat /\ current \in [Pages -> 0 .. Len(snapshots)]
  BY DEF IInv, TypeOK
<1>3. \A q \in Pages : current'[q] = IF q = p THEN n ELSE current[q]
  BY <1>1, <1>2
<1>4. r \in PublishRequests
  BY RequestShape DEF CommitPublish, IInv
<1>5. settings' \in [Pages -> Settings]
  <2>1. settings[p] \in Settings /\ r.now \in Nat
    BY <1>4 DEF IInv, TypeOK, PublishRequests
  <2>2. [settings[p] EXCEPT !.updatedAt = r.now] \in Settings
    BY <2>1 DEF Settings
  <2> QED
    BY <1>0, <2>2 DEF IInv, TypeOK, CommitPublish
<1>6. TypeOK'
  <2>1. current' \in [Pages -> 0 .. Len(snapshots')]
    BY <1>1, <1>2
  <2> QED
    BY <1>1, <1>5, <2>1 DEF IInv, TypeOK, CommitPublish, Requests
<1>7. \A q \in Pages : settings'[q].visibility = settings[q].visibility
  BY <1>0 DEF IInv, TypeOK, CommitPublish, Settings
<1>8. \A q \in Pages \ {p} : current'[q] = current[q]
  BY <1>3
<1>9. \A q \in Pages \ {p} :
        /\ Live(q)' <=> Live(q)
        /\ Live(q) => LiveSnapshot(q)' = LiveSnapshot(q)
  BY <1>1, <1>2, <1>8 DEF Live, LiveSnapshot, NoSnapshot
<1>10. current'[p] = n /\ n # NoSnapshot
  BY <1>1, <1>2, <1>3 DEF NoSnapshot
<1>11. created' = created /\ created \subseteq Pages
  BY DEF CommitPublish, IInv, TypeOK
<1>12. LiveSlugUnique'
  <2> SUFFICES ASSUME NEW x \in created, NEW y \in created, Live(x)', Live(y)',
                      LiveSnapshot(x)'.slug = LiveSnapshot(y)'.slug
               PROVE  x = y
    BY <1>11 DEF LiveSlugUnique
  <2>1. LiveSnapshot(p)'.slug = settings[p].slug
    BY <1>1, <1>10 DEF LiveSnapshot
  <2>2. ASSUME NEW q \in created \ {p}, Live(q)'
        PROVE  LiveSnapshot(q)'.slug # settings[p].slug
    BY <1>1, <1>9, <1>11, <2>2
  <2>3. CASE x = p \/ y = p
    BY <2>1, <2>2, <2>3
  <2>4. CASE x # p /\ y # p
    BY <1>9, <1>11, <2>4 DEF LiveSlugUnique, IInv, Safety
  <2> QED
    BY <2>3, <2>4
<1>13. PrivateIsOffAir'
  BY <1>1, <1>7, <1>9, <1>11 DEF PrivateIsOffAir, IInv, Safety
<1>14. LiveIsOwn'
  <2> SUFFICES ASSUME NEW q \in Pages, Live(q)'
               PROVE  q \in created /\ LiveSnapshot(q)'.page = q
    BY <1>11 DEF LiveIsOwn
  <2>1. CASE q = p
    BY <1>1, <1>10, <2>1 DEF LiveSnapshot
  <2>2. CASE q # p
    BY <1>9, <2>2 DEF LiveIsOwn, IInv
  <2> QED
    BY <2>1, <2>2
<1>15. DraftIsAhead'
  <2>1. draftRevision' = draftRevision /\ draftRevision[p] \in Nat
    BY <1>1 DEF CommitPublish, IInv, TypeOK
  <2>2. ASSUME NEW i \in 1 .. n
        PROVE  snapshots'[i].revision <= draftRevision[snapshots'[i].page]
    <3>1. CASE i = n
      BY <1>1, <2>1, <3>1
    <3>2. CASE i # n
      BY <1>1, <1>2, <3>2 DEF IInv, DraftIsAhead
    <3> QED
      BY <3>1, <3>2
  <2> QED
    BY <1>1, <2>1, <2>2 DEF DraftIsAhead, IInv
<1>16. RevisionsAdvance'
  <2> SUFFICES ASSUME NEW i \in 1 .. n, NEW j \in 1 .. n, i < j,
                      snapshots'[i].page = snapshots'[j].page
               PROVE  snapshots'[i].revision <= snapshots'[j].revision
    BY <1>1 DEF RevisionsAdvance
  <2>1. i \in 1 .. Len(snapshots)
    BY <1>2
  <2>2. CASE j = n
    BY <1>1, <2>1, <2>2 DEF IInv, DraftIsAhead
  <2>3. CASE j # n
    <3>1. j \in 1 .. Len(snapshots)
      BY <1>2, <2>3
    <3> QED
      BY <1>1, <2>1, <3>1 DEF IInv, Safety, RevisionsAdvance
  <2> QED
    BY <2>2, <2>3
<1>17. RequestsAreForPages'
  BY DEF IInv, TypeOK, RequestsAreForPages, CommitPublish
<1> QED
  BY <1>6, <1>12, <1>13, <1>14, <1>15, <1>16, <1>17 DEF IInv, Safety

-----------------------------------------------------------------------------
(* The theorems *)

LEMMA NextIInv == IInv /\ [Next]_vars => IInv'
<1> SUFFICES ASSUME IInv, [Next]_vars PROVE IInv'
  OBVIOUS
<1>1. CASE Administration
  BY <1>1, RegisterIInv, EditDraftIInv, SetUserStatusIInv DEF Administration
<1>2. ASSUME NEW c \in Clients, Start(c) PROVE IInv'
  BY <1>2, StartIInv
<1>3. ASSUME NEW c \in Clients, Finish(c) PROVE IInv'
  BY <1>3, CommitReplaceIInv, CommitPublishIInv, CommitUnpublishIInv,
     CommitFeatureIInv, FailIInv DEF Finish
<1>4. CASE UNCHANGED vars
  BY <1>4 DEF vars, IInv, TypeOK, Safety, LiveSlugUnique, PrivateIsOffAir,
     RevisionsAdvance, LiveIsOwn, DraftIsAhead, RequestsAreForPages, Live, LiveSnapshot
<1> QED
  BY <1>1, <1>2, <1>3, <1>4 DEF Next

\* The strengthened invariant holds in every state of every behaviour.
THEOREM Invariance == Spec => []IInv
<1> QED
  BY InitIInv, NextIInv, PTL DEF Spec

\* Types (the columns and request structs of navigation/types.go).
THEOREM TypeCorrect == Spec => []TypeOK
<1>1. IInv => TypeOK
  BY DEF IInv
<1> QED
  BY <1>1, Invariance, PTL

\* An address never answers with two pages, for any number of pages, slugs
\* and overlapping requests (navigation/sqlstore.go PublicBySlug).
THEOREM SlugsAreUnambiguous == Spec => []LiveSlugUnique
<1>1. IInv => LiveSlugUnique
  BY DEF IInv, Safety
<1> QED
  BY <1>1, Invariance, PTL

\* A private page shows nothing and snapshots never go back to older drafts
\* (navigation/sqlstore.go ReplacePublication, Publish, Unpublish).
THEOREM PrivacyAndProgress == Spec => [](PrivateIsOffAir /\ RevisionsAdvance)
<1>1. IInv => PrivateIsOffAir /\ RevisionsAdvance
  BY DEF IInv, Safety
<1> QED
  BY <1>1, Invariance, PTL

-----------------------------------------------------------------------------
(* Refinement *)

Editions == [i \in 1 .. Len(snapshots) |->
               [page |-> snapshots[i].page, slug |-> snapshots[i].slug,
                revision |-> snapshots[i].revision]]

\* Steps that leave the snapshots alone show or take down what was there.
LEMMA PointerStep ==
  ASSUME IInv, UNCHANGED snapshots,
         \/ UNCHANGED current
         \/ \E p \in Pages : current' = [current EXCEPT ![p] = NoSnapshot]
  PROVE  [Site!Next]_(Site!vars)
<1>1. CASE UNCHANGED current
  BY <1>1 DEF Site!vars
<1>2. ASSUME NEW p \in Pages, current' = [current EXCEPT ![p] = NoSnapshot]
      PROVE  Site!Next
  BY <1>2 DEF Site!Next, Site!TakeDown, NoSnapshot
<1> QED
  BY <1>1, <1>2

LEMMA PublishStep ==
  ASSUME IInv, NEW c \in Clients, CommitPublish(c)
  PROVE  Site!Next
<1> DEFINE n == Len(snapshots) + 1
<1>0. PICK p \in Pages : p = inflight[c].page
  BY PublishedSnapshot
<1>1. /\ \A q \in created \ {p} : Live(q) => LiveSnapshot(q).slug # settings[p].slug
      /\ snapshots' \in Seq(Snapshots)
      /\ Len(snapshots') = n
      /\ \A i \in 1 .. Len(snapshots) : snapshots'[i] = snapshots[i]
      /\ snapshots'[n].page = p
      /\ snapshots'[n].slug = settings[p].slug
      /\ snapshots'[n].revision = draftRevision[p]
      /\ current' = [current EXCEPT ![p] = n]
  BY <1>0, PublishedSnapshot
<1>2. PICK s \in Slugs, r \in 0 .. MaxRevision :
        s = settings[p].slug /\ r = draftRevision[p]
  BY BoundAssumption DEF IInv, TypeOK, Settings, DraftIsAhead
<1>3. Len(snapshots) \in Nat /\ current \in [Pages -> 0 .. Len(snapshots)]
  BY DEF IInv, TypeOK
<1>4. /\ Len(Editions) = Len(snapshots)
      /\ \A i \in 1 .. Len(snapshots) :
           Editions[i] = [page |-> snapshots[i].page, slug |-> snapshots[i].slug,
                          revision |-> snapshots[i].revision]
  BY <1>3 DEF Editions
<1>10. \A i \in 1 .. Len(snapshots) : /\ Editions[i].page = snapshots[i].page
                                    /\ Editions[i].slug = snapshots[i].slug
                                    /\ Editions[i].revision = snapshots[i].revision
  BY DEF Editions
<1>5. \A q \in Pages \ {p} : current[q] # 0 => Editions[current[q]].slug # s
  <2> SUFFICES ASSUME NEW q \in Pages \ {p}, current[q] # 0
               PROVE  Editions[current[q]].slug # s
    OBVIOUS
  <2>1. current[q] \in 1 .. Len(snapshots)
    BY <1>3
  <2>2. q \in created /\ snapshots[current[q]].slug # s
    BY <1>1, <1>2 DEF IInv, LiveIsOwn, Live, LiveSnapshot, NoSnapshot
  <2> QED
    BY <1>10, <2>1, <2>2
<1>6. \A i \in 1 .. Len(Editions) : Editions[i].page = p => Editions[i].revision <= r
  <2> SUFFICES ASSUME NEW i \in 1 .. Len(snapshots), snapshots[i].page = p
               PROVE  snapshots[i].revision <= r
    BY <1>4, <1>10
  <2> QED
    BY <1>2 DEF IInv, DraftIsAhead
<1>7. Editions' = Append(Editions, [page |-> p, slug |-> s, revision |-> r])
  <2> DEFINE e == [page |-> p, slug |-> s, revision |-> r]
  <2>1. Editions' = [i \in 1 .. n |->
                       [page |-> snapshots'[i].page, slug |-> snapshots'[i].slug,
                        revision |-> snapshots'[i].revision]]
    BY <1>1 DEF Editions
  <2>2. Append(Editions, e) = [i \in 1 .. n |-> IF i = n THEN e ELSE Editions[i]]
    BY <1>3, <1>4
  <2>3. \A i \in 1 .. n :
          [page |-> snapshots'[i].page, slug |-> snapshots'[i].slug,
           revision |-> snapshots'[i].revision] = (IF i = n THEN e ELSE Editions[i])
    <3> SUFFICES ASSUME NEW i \in 1 .. n
                 PROVE  [page |-> snapshots'[i].page, slug |-> snapshots'[i].slug,
                         revision |-> snapshots'[i].revision]
                          = (IF i = n THEN e ELSE Editions[i])
      OBVIOUS
    <3>1. CASE i = n
      BY <1>1, <1>2, <3>1
    <3>2. CASE i # n
      <4>1. i \in 1 .. Len(snapshots)
        BY <1>3, <3>2
      <4> QED
        BY <1>1, <1>4, <3>2, <4>1
    <3> QED
      BY <3>1, <3>2
  <2> QED
    BY <2>1, <2>2, <2>3
<1>8. current' = [current EXCEPT ![p] = Len(Editions) + 1]
  BY <1>1, <1>4
<1>9. Site!Issue(p, s, r)
  BY <1>5, <1>6, <1>7, <1>8 DEF Site!Issue, Site!OnAir, Editions
<1> QED
  BY <1>9 DEF Site!Next

LEMMA SiteStep == IInv /\ [Next]_vars => [Site!Next]_(Site!vars)
<1> SUFFICES ASSUME IInv, [Next]_vars PROVE [Site!Next]_(Site!vars)
  OBVIOUS
<1>1. CASE Administration
  BY <1>1, PointerStep DEF Administration, Register, EditDraft, SetUserStatus
<1>2. ASSUME NEW c \in Clients, Start(c) PROVE [Site!Next]_(Site!vars)
  BY <1>2, AcceptedRequest, PointerStep DEF IInv, Accepted
<1>3. ASSUME NEW c \in Clients, CommitReplace(c) PROVE [Site!Next]_(Site!vars)
  <2> DEFINE p == inflight[c].page
  <2>1. p \in Pages
    BY <1>3, RequestShape DEF IInv, CommitReplace, ReplaceRequests
  <2>2. \/ UNCHANGED current
        \/ current' = [current EXCEPT ![p] = NoSnapshot]
    BY <1>3, <2>1 DEF IInv, TypeOK, CommitReplace, PointerUnder
  <2> QED
    BY <1>3, <2>1, <2>2, PointerStep DEF CommitReplace
<1>4. ASSUME NEW c \in Clients, CommitUnpublish(c) PROVE [Site!Next]_(Site!vars)
  <2>1. inflight[c].page \in Pages
    BY <1>4, RequestShape DEF IInv, CommitUnpublish, PlainRequests
  <2> QED
    BY <1>4, <2>1, PointerStep DEF CommitUnpublish
<1>5. ASSUME NEW c \in Clients, CommitPublish(c) PROVE [Site!Next]_(Site!vars)
  BY <1>5, PublishStep
<1>6. ASSUME NEW c \in Clients, CommitFeature(c) \/ Fail(c)
      PROVE  [Site!Next]_(Site!vars)
  BY <1>6, PointerStep DEF CommitFeature, Fail
<1>7. CASE UNCHANGED vars
  BY <1>7, PointerStep DEF vars
<1> QED
  BY <1>1, <1>2, <1>3, <1>4, <1>5, <1>6, <1>7 DEF Next, Finish

LEMMA SiteInit == Init => Site!Init
BY DEF Init, Site!Init, NoSnapshot

\* The publishing code implements the public site of PublicSite: an edition
\* is issued once, under a slug nobody else is on the air with, and once
\* replaced or taken down it is never shown again (Publish, Unpublish,
\* ReplacePublication in navigation/sqlstore.go).
THEOREM ImplementsSite == Spec => SiteSpec
<1> QED
  BY SiteInit, SiteStep, Invariance, PTL DEF Spec, SiteSpec, Site!Spec

-----------------------------------------------------------------------------
(* Publishing from the tab: TabSpec of Workspace, on its own variables.     *)

\* A page the server told at some time.
PageOK(p) ==
  /\ p.draft \in 1 .. draft /\ p.served \in 0 .. served
  /\ p.title \in Titles /\ p.publication.settings \in SavedSettings

\* A request of the tab; what it would publish has been on the screen.
CallOK(c) ==
  /\ c = [id |-> c.id, op |-> c.op, arg |-> c.arg, answer |-> c.answer,
          served |-> c.served, heard |-> c.heard]
  /\ c.id \in 1 .. sent /\ c.served \in 0 .. served
  /\ c.answer = "none" /\ c.op \in Surfaces => c.arg.draft \in Nat /\ c.arg.draft <= page.draft
  /\ c.answer = "none" /\ c.op = "save" => c.arg.settings \in SavedSettings

OneIdEach == \A c, d \in calls : c.id = d.id => c = d

\* Requests the server has not seen are sent, and not among those it served.
Unserved == {n \in 1 .. sent : \E c \in calls : c.id = n /\ c.answer = "none"}

CallsOK ==
  /\ \A c \in calls : CallOK(c)
  /\ OneIdEach
  /\ served + Cardinality(Unserved) <= sent

\* A fetch that has read the page has in it what is shown and what was told.
ReadingOK ==
  \/ reading \in {NoFetch, Sent}
  \/ PageOK(reading) /\ page.draft <= reading.draft /\ owed <= reading.served

ScreenInv ==
  /\ TabTypeOK /\ LiveIsNotAheadOfTheScreen /\ FormIsCurrent /\ SuccessIsShown
  /\ PageOK(page) /\ ReadingOK /\ CallsOK

\* The server goes on, the cache stays.
Later ==
  /\ draft' \in Nat /\ draft <= draft' /\ served' \in Nat /\ served <= served'
  /\ sent' \in Nat /\ sent <= sent'
  /\ UNCHANGED page

LEMMA SentIsNotIdle == Sent # NoFetch
  <1>1. Sent.fetch = "sent" /\ NoFetch.fetch = "idle"
    BY DEF Sent, NoFetch
  <1> QED BY <1>1

\* A page that was read is no idle fetch.
LEMMA NowIsNotIdle == PageNow # NoFetch
  <1>1. "draft" \in DOMAIN PageNow
    BY DEF PageNow
  <1>2. "draft" \notin DOMAIN NoFetch
    BY DEF NoFetch
  <1> QED BY <1>1, <1>2

LEMMA PageStays ==
  ASSUME NEW p, PageOK(p), TabTypeOK, Later
  PROVE  PageOK(p)'
  BY DEF PageOK, TabTypeOK, Later

LEMMA CallStays ==
  ASSUME NEW c, CallOK(c), TabTypeOK, Later
  PROVE  CallOK(c)'
  BY DEF CallOK, TabTypeOK, Later

LEMMA UnservedFacts ==
  ASSUME sent \in Nat
  PROVE  IsFiniteSet(Unserved) /\ Cardinality(Unserved) \in Nat
  <1>1. IsFiniteSet(1 .. sent)
    BY FS_Interval
  <1>2. IsFiniteSet(Unserved)
    BY <1>1, FS_Subset DEF Unserved
  <1> QED BY <1>2, FS_CardinalityType

\* The next request has a number of its own and is not served yet.
LEMMA AskCounts ==
  ASSUME CallsOK, sent \in Nat, sent' = sent + 1, served \in Nat, UNCHANGED <<served, page, draft>>,
         NEW c, c.id = sent', calls' = calls \cup {c}
  PROVE  OneIdEach' /\ served' + Cardinality(Unserved') <= sent'
  <1>1. \A d \in calls : d.id \in 1 .. sent
    BY DEF CallsOK, CallOK
  <1>2. OneIdEach'
    BY <1>1 DEF CallsOK, OneIdEach
  <1>3. Unserved' \subseteq Unserved \cup {sent + 1}
    BY <1>1 DEF Unserved
  <1>4. IsFiniteSet(Unserved) /\ Cardinality(Unserved) \in Nat
    BY UnservedFacts
  <1>5. PICK old, new : old = Unserved /\ new = Unserved'
    OBVIOUS
  <1>6. /\ IsFiniteSet(old \cup {sent + 1})
        /\ Cardinality(old \cup {sent + 1}) \in {Cardinality(old), Cardinality(old) + 1}
    BY <1>4, <1>5, FS_AddElement
  <1>7. IsFiniteSet(new) /\ Cardinality(new) <= Cardinality(old \cup {sent + 1}) /\ Cardinality(new) \in Nat
    BY <1>3, <1>5, <1>6, FS_Subset, FS_CardinalityType
  <1>8. served' + Cardinality(new) <= sent'
    <2>1. served + Cardinality(old) <= sent
      BY <1>5 DEF CallsOK
    <2> QED BY <1>4, <1>5, <1>6, <1>7, <2>1
  <1> QED BY <1>2, <1>5, <1>8

\* A request that succeeds was not served before.
LEMMA SucceedCounts ==
  ASSUME CallsOK, sent \in Nat, served \in Nat, NEW c \in calls, c.answer = "none",
         served' = served + 1, UNCHANGED sent,
         NEW d, d.id = c.id, d.answer # "none", calls' = (calls \ {c}) \cup {d}
  PROVE  OneIdEach' /\ served' + Cardinality(Unserved') <= sent' /\ served' <= sent
  <1>1. \A e \in calls : e.id \in 1 .. sent
    BY DEF CallsOK, CallOK
  <1>2. OneIdEach
    BY DEF CallsOK
  <1>3. OneIdEach'
    BY <1>2 DEF OneIdEach
  <1>4. Unserved' \subseteq Unserved \ {c.id} /\ c.id \in Unserved
    BY <1>1, <1>2 DEF Unserved, OneIdEach
  <1>5. IsFiniteSet(Unserved) /\ Cardinality(Unserved) \in Nat
    BY UnservedFacts
  <1>6. PICK old, new : old = Unserved /\ new = Unserved'
    OBVIOUS
  <1>7. /\ IsFiniteSet(old \ {c.id}) /\ Cardinality(old \ {c.id}) = Cardinality(old) - 1
    BY <1>4, <1>5, <1>6, FS_RemoveElement
  <1>8. /\ IsFiniteSet(new) /\ Cardinality(new) <= Cardinality(old) - 1
        /\ Cardinality(new) \in Nat /\ Cardinality(old) \in Nat
    BY <1>4, <1>5, <1>6, <1>7, FS_Subset, FS_CardinalityType
  <1>9. served + Cardinality(old) <= sent
    BY <1>6 DEF CallsOK
  <1>10. served' + Cardinality(new) <= sent' /\ served' <= sent
    BY <1>8, <1>9
  <1> QED BY <1>3, <1>6, <1>10

\* A request is answered or no longer heard.
SameCall(c, d) ==
  /\ d = [id |-> c.id, op |-> c.op, arg |-> d.arg, answer |-> d.answer,
          served |-> c.served, heard |-> d.heard]
  /\ d.answer = "none" => c.answer = "none" /\ d.arg = c.arg

CallsKept ==
  /\ \A d \in calls' : \E c \in calls : SameCall(c, d)
  /\ OneIdEach'

LEMMA KeptIsOK ==
  ASSUME CallsOK, TabTypeOK, CallsKept, Later, UNCHANGED <<sent, served>>
  PROVE  CallsOK'
  <1>1. \A d \in calls' : CallOK(d)'
    <2> SUFFICES ASSUME NEW d \in calls' PROVE CallOK(d)'
      OBVIOUS
    <2>1. PICK c \in calls : SameCall(c, d)
      BY DEF CallsKept
    <2>2. CallOK(c)
      BY DEF CallsOK
    <2>3. /\ d.id = c.id /\ d.op = c.op /\ d.served = c.served
          /\ d.answer = "none" => c.answer = "none" /\ d.arg = c.arg
          /\ d = [id |-> d.id, op |-> d.op, arg |-> d.arg, answer |-> d.answer,
                  served |-> d.served, heard |-> d.heard]
      BY <2>1 DEF SameCall
    <2>4. CallOK(d)
      BY <2>2, <2>3 DEF CallOK
    <2> QED BY <2>4, CallStays
  <1>2. Unserved' \subseteq Unserved
    <2> SUFFICES ASSUME NEW d \in calls', d.answer = "none"
                 PROVE  \E c \in calls : c.id = d.id /\ c.answer = "none"
      BY DEF Unserved
    <2>1. PICK c \in calls : SameCall(c, d)
      BY DEF CallsKept
    <2>2. d.id = c.id
      BY <2>1 DEF SameCall
    <2> QED BY <2>1, <2>2 DEF SameCall
  <1>3. PICK old, new : old = Unserved /\ new = Unserved'
    OBVIOUS
  <1>4. IsFiniteSet(old) /\ Cardinality(old) \in Nat /\ served + Cardinality(old) <= sent
        /\ sent \in Nat /\ served \in Nat
    BY <1>3, UnservedFacts DEF CallsOK, TabTypeOK, Later
  <1>5. Cardinality(new) <= Cardinality(old) /\ Cardinality(new) \in Nat
    BY <1>2, <1>3, <1>4, FS_Subset, FS_CardinalityType
  <1>6. served' + Cardinality(new) <= sent'
    BY <1>4, <1>5
  <1> QED BY <1>1, <1>3, <1>6 DEF CallsOK, CallsKept

LEMMA PageNowOK ==
  ASSUME TabTypeOK
  PROVE  PageOK(PageNow) /\ PageNow.draft = draft /\ PageNow.served = served
  <1>1. /\ PageNow.draft = draft /\ PageNow.served = served
        /\ PageNow.publication.settings = saved /\ PageNow.title = title
    BY DEF PageNow
  <1>2. draft \in 1 .. draft /\ served \in 0 .. served /\ saved \in SavedSettings /\ title \in Titles
    BY DEF TabTypeOK
  <1> QED BY <1>1, <1>2 DEF PageOK

LEMMA ScreenInit == TabInit => ScreenInv
  <1> SUFFICES ASSUME TabInit PROVE ScreenInv
    OBVIOUS
  <1>1. page.draft = 1 /\ page.served = 0 /\ page.publication.settings = saved /\ page.title = title
    BY DEF TabInit, PageNow
  <1>2. saved \in SavedSettings /\ saved.visibility # "private" /\ title \in Titles
    BY DEF TabInit, SavedSettings, FormVisibilities, Titles
  <1>3. /\ draft = 1 /\ served = 0 /\ sent = 0 /\ others = 0 /\ owed = 0
        /\ live = OffAir /\ changed = FALSE /\ dismissed = FALSE /\ failed = FALSE
        /\ reading = NoFetch /\ calls = {} /\ place = "overview" /\ form = NoForm
    BY DEF TabInit
  <1>4. TabTypeOK
    <2>1. form \in Forms \cup {Typed, NoForm} /\ place \in Places
      BY <1>3 DEF Places
    <2>2. /\ draft \in Nat /\ served \in 0 .. sent /\ sent \in 0 .. MaxCalls /\ others \in 0 .. MaxOthers
          /\ page.draft \in 1 .. draft /\ page.served \in 0 .. served /\ owed \in 0 .. served
      BY <1>1, <1>3, WorkspaceAssumption
    <2> QED BY <1>2, <1>3, <2>1, <2>2 DEF TabTypeOK
  <1>5. PageOK(page)
    BY <1>1, <1>2, <1>3 DEF PageOK
  <1>6. CallsOK
    <2>1. Unserved = {}
      BY <1>3 DEF Unserved
    <2> QED BY <1>3, <2>1, FS_EmptySet DEF CallsOK, OneIdEach
  <1> QED BY <1>1, <1>3, <1>4, <1>5, <1>6
          DEF ScreenInv, LiveIsNotAheadOfTheScreen, FormIsCurrent, SuccessIsShown, ReadingOK

LEMMA AskKeeps ==
  ASSUME ScreenInv, NEW op, NEW arg, Ask(op, arg),
         UNCHANGED <<serverVars, cacheVars, screenVars>>,
         op \in Surfaces => arg.draft = page.draft,
         op = "save" => arg.settings \in SavedSettings
  PROVE  ScreenInv'
  <1>1. /\ UNCHANGED <<draft, title, saved, live, changed, served, page, reading, failed, owed, place, form, dismissed, others>>
        /\ sent' = sent + 1 /\ sent < MaxCalls
    BY DEF Ask, serverVars, pageVars, cacheVars, screenVars
  <1>2. PICK c : /\ c = [id |-> sent', op |-> op, arg |-> arg, answer |-> "none", served |-> 0, heard |-> TRUE]
                 /\ calls' = calls \cup {c}
    BY DEF Ask
  <1>3. sent \in Nat /\ sent' \in Nat /\ sent <= sent' /\ sent' \in 0 .. MaxCalls /\ served \in Nat
        /\ sent' \in 1 .. sent'
    BY <1>1, WorkspaceAssumption DEF ScreenInv, TabTypeOK
  <1>4. Later
    BY <1>1, <1>3 DEF Later, ScreenInv, TabTypeOK
  <1>5. c.id = sent' /\ c.op = op /\ c.arg = arg /\ c.served = 0
    BY <1>2
  <1>6. CallOK(c)'
    <2>1. page.draft \in Nat
      BY DEF ScreenInv, PageOK
    <2>2. c = [id |-> c.id, op |-> c.op, arg |-> c.arg, answer |-> c.answer,
               served |-> c.served, heard |-> c.heard]
      BY <1>2
    <2> QED BY <1>1, <1>3, <1>5, <2>1, <2>2 DEF CallOK
  <1>7. CallsOK'
    <2>1. OneIdEach' /\ served' + Cardinality(Unserved') <= sent'
      BY <1>1, <1>2, <1>3, <1>5, AskCounts DEF ScreenInv
    <2>2. \A d \in calls' : CallOK(d)'
      BY <1>2, <1>4, <1>6, CallStays DEF ScreenInv, CallsOK
    <2> QED BY <2>1, <2>2 DEF CallsOK
  <1>8. PageOK(page)' /\ ReadingOK'
    BY <1>1, <1>4, PageStays DEF ScreenInv, ReadingOK
  <1>9. TabTypeOK'
    BY <1>1, <1>3, <1>7 DEF ScreenInv, TabTypeOK, CallsOK, CallOK
  <1> QED BY <1>1, <1>7, <1>8, <1>9 DEF ScreenInv, LiveIsNotAheadOfTheScreen, FormIsCurrent, SuccessIsShown

\* What moves on the screen, and answers: a success that is told starts a fetch.
LEMMA ScreenMoves ==
  ASSUME ScreenInv,
         UNCHANGED <<serverVars, page, sent, others>>,
         \/ owed' = owed /\ reading' \in {reading, Sent}
         \/ owed' \in 0 .. served /\ reading' = Sent,
         place' \in Places, dismissed' \in BOOLEAN,
         form' \in Forms \cup {Typed, NoForm}, failed' = failed,
         place' = "publish" => form' \in {Typed, FormOf(page)},
         CallsKept
  PROVE  ScreenInv'
  <1>1. UNCHANGED <<draft, title, saved, live, changed, served, page, sent, others>>
    BY DEF serverVars, pageVars
  <1>2. Later
    BY <1>1, WorkspaceAssumption DEF Later, ScreenInv, TabTypeOK
  <1>3. CallsOK'
    BY <1>1, <1>2, KeptIsOK DEF ScreenInv
  <1>4. PageOK(page)' /\ ReadingOK' /\ SuccessIsShown'
    <2>1. PageOK(page)'
      BY <1>1, <1>2, PageStays DEF ScreenInv
    <2>2. CASE reading' = reading /\ owed' = owed
      BY <1>1, <1>2, <2>1, <2>2, PageStays DEF ScreenInv, ReadingOK, SuccessIsShown
    <2>3. CASE reading' = Sent
      BY <1>1, <2>1, <2>3, SentIsNotIdle DEF ReadingOK, SuccessIsShown
    <2> QED BY <2>2, <2>3
  <1>5. TabTypeOK'
    BY <1>1, <1>3 DEF ScreenInv, TabTypeOK, CallsOK, CallOK
  <1> QED BY <1>1, <1>3, <1>4, <1>5 DEF ScreenInv, LiveIsNotAheadOfTheScreen, FormIsCurrent, FormOf

\* What the server does; what goes on the air has been on the screen.
LEMMA ServerMoves ==
  ASSUME ScreenInv, Later,
         UNCHANGED <<cacheVars, screenVars, sent>>,
         served' \in 0 .. sent, others' \in 0 .. MaxOthers,
         saved' \in SavedSettings, title' \in Titles, changed' \in BOOLEAN,
         live' = OffAir \/ live' \in [edition : 1 .. served', draft : 1 .. draft'],
         saved'.visibility = "private" => live' = OffAir,
         live' # OffAir => live'.draft <= page.draft,
         CallsOK'
  PROVE  ScreenInv'
  <1>1. UNCHANGED <<page, reading, failed, owed, place, form, dismissed, sent>>
    BY DEF cacheVars, screenVars
  <1>2. PageOK(page)' /\ ReadingOK'
    BY <1>1, PageStays DEF ScreenInv, ReadingOK
  <1>3. TabTypeOK'
    <2>1. owed' \in 0 .. served' /\ page'.draft \in 1 .. draft' /\ page'.served \in 0 .. served'
      BY <1>1, <1>2 DEF ScreenInv, TabTypeOK, Later, PageOK
    <2>2. \A c \in calls' : c.id \in 1..sent' /\ c.served \in 0..served'
      BY DEF CallsOK, CallOK
    <2> QED BY <1>1, <2>1, <2>2 DEF ScreenInv, TabTypeOK, Later
  <1> QED BY <1>1, <1>2, <1>3 DEF ScreenInv, LiveIsNotAheadOfTheScreen, FormIsCurrent, SuccessIsShown

LEMMA LiveStays ==
  ASSUME TabTypeOK, LiveIsNotAheadOfTheScreen, Later, UNCHANGED <<saved, live, changed>>
  PROVE  /\ saved' \in SavedSettings /\ changed' \in BOOLEAN
         /\ live' = OffAir \/ live' \in [edition : 1 .. served', draft : 1 .. draft']
         /\ saved'.visibility = "private" => live' = OffAir
         /\ live' # OffAir => live'.draft <= page.draft
  BY DEF TabTypeOK, LiveIsNotAheadOfTheScreen, Later

LEMMA ReplacedFacts ==
  ASSUME TabTypeOK, LiveIsNotAheadOfTheScreen, Later, NEW new, Replaced(new)
  PROVE  /\ changed' \in BOOLEAN
         /\ live' = OffAir \/ live' \in [edition : 1 .. served', draft : 1 .. draft']
         /\ saved'.visibility = "private" => live' = OffAir
         /\ live' # OffAir => live'.draft <= page.draft
  BY DEF TabTypeOK, LiveIsNotAheadOfTheScreen, Later, Replaced

LEMMA OneIsReplaced ==
  ASSUME OneIdEach, NEW c \in calls, NEW d, d.id = c.id, calls' = (calls \ {c}) \cup {d}
  PROVE  OneIdEach'
  BY DEF OneIdEach

LEMMA RefuseKeeps ==
  ASSUME ScreenInv, NEW c \in calls, NEW answer, answer # "none", Refuse(c, answer)
  PROVE  ScreenInv'
  <1>1. CallOK(c) /\ c.answer = "none" /\ OneIdEach
    BY DEF ScreenInv, CallsOK, Refuse
  <1>2. PICK d : d = [c EXCEPT !.answer = answer, !.arg = Nothing] /\ calls' = (calls \ {c}) \cup {d}
    BY DEF Refuse
  <1>3. d = [id |-> c.id, op |-> c.op, arg |-> Nothing, answer |-> answer,
             served |-> c.served, heard |-> c.heard]
    BY <1>1, <1>2 DEF CallOK
  <1>4. CallsKept
    <2>1. SameCall(c, d) /\ d.id = c.id
      BY <1>1, <1>3 DEF SameCall
    <2>2. \A e \in calls : SameCall(e, e)
      BY DEF ScreenInv, CallsOK, CallOK, SameCall
    <2>3. OneIdEach'
      BY <1>1, <1>2, <2>1, OneIsReplaced
    <2> QED BY <1>2, <2>1, <2>2, <2>3 DEF CallsKept
  <1>5. UNCHANGED <<serverVars, page, failed, owed, reading, sent, others, place, dismissed, form>>
    BY DEF Refuse, cacheVars, screenVars
  <1>6. /\ place' \in Places /\ dismissed' \in BOOLEAN /\ form' \in Forms \cup {Typed, NoForm}
        /\ place' = "publish" => form' \in {Typed, FormOf(page)}
    BY <1>5 DEF ScreenInv, TabTypeOK, FormIsCurrent
  <1> QED BY <1>4, <1>5, <1>6, ScreenMoves

\* The success of a call.
LEMMA SucceedCalls ==
  ASSUME ScreenInv, NEW c \in calls, Succeed(c), draft' \in Nat, draft <= draft'
  PROVE  Later /\ CallsOK' /\ served' = served + 1 /\ served' \in 0 .. sent
  <1>1. /\ c.answer = "none" /\ served' = served + 1
        /\ UNCHANGED <<page, reading, failed, owed, sent>>
    BY DEF Succeed, cacheVars
  <1>2. PICK answer \in {"ok", "failed"} :
          calls' = (calls \ {c}) \cup {[c EXCEPT !.answer = answer, !.served = served', !.arg = Nothing]}
    BY DEF Succeed
  <1>3. PICK d : d = [c EXCEPT !.answer = answer, !.served = served', !.arg = Nothing] /\ calls' = (calls \ {c}) \cup {d}
    BY <1>2
  <1>4. served \in Nat /\ sent \in Nat /\ served' \in Nat /\ served' \in 0 .. served'
    BY <1>1, WorkspaceAssumption DEF ScreenInv, TabTypeOK
  <1>5. Later
    BY <1>1, <1>4 DEF Later
  <1>6. CallOK(c)
    BY DEF ScreenInv, CallsOK
  <1>7. d = [id |-> c.id, op |-> c.op, arg |-> Nothing, answer |-> answer,
             served |-> served', heard |-> c.heard]
    BY <1>3, <1>6 DEF CallOK
  <1>8. /\ d.id = c.id /\ d.op = c.op /\ d.served = served' /\ d.answer # "none"
        /\ d = [id |-> d.id, op |-> d.op, arg |-> d.arg, answer |-> d.answer,
                served |-> d.served, heard |-> d.heard]
    BY <1>7
  <1>9. CallOK(d)'
    BY <1>1, <1>4, <1>6, <1>8 DEF CallOK
  <1>10. \A e \in calls' : CallOK(e)'
    BY <1>3, <1>5, <1>9, CallStays DEF ScreenInv, CallsOK
  <1>11. OneIdEach' /\ served' + Cardinality(Unserved') <= sent' /\ served' <= sent
    BY <1>1, <1>3, <1>4, <1>8, SucceedCounts DEF ScreenInv
  <1> QED BY <1>1, <1>4, <1>5, <1>10, <1>11 DEF CallsOK

LEMMA ServeKeeps ==
  ASSUME ScreenInv, NEW c \in calls, Executed(c)
  PROVE  ScreenInv'
  <1>1. CallOK(c) /\ TabTypeOK /\ LiveIsNotAheadOfTheScreen
    BY DEF ScreenInv, CallsOK
  <1>2. draft \in Nat /\ draft + 1 \in Nat /\ served \in Nat /\ sent \in Nat
    BY <1>1 DEF TabTypeOK
  <1>3. ASSUME Succeed(c)
        PROVE  UNCHANGED <<cacheVars, screenVars, sent>> /\ others' \in 0 .. MaxOthers
    BY <1>1, <1>3 DEF Succeed, TabTypeOK
  <1>4. CASE ServePublish(c)
    <2>1. CASE saved.visibility = "private"
      <3>1. Refuse(c, "private")
        BY <1>4, <2>1 DEF ServePublish
      <3> QED BY <3>1, RefuseKeeps
    <2>2. CASE saved.visibility # "private"
      <3>1. /\ Succeed(c) /\ c.answer = "none" /\ c.op \in Surfaces /\ c.arg.draft = draft
            /\ live' = [edition |-> served', draft |-> draft] /\ changed' = FALSE
            /\ UNCHANGED <<draft, title, saved>>
        BY <1>4, <2>2 DEF ServePublish, Current
      <3>2. Later /\ CallsOK' /\ served' = served + 1 /\ served' \in 0 .. sent
        BY <1>2, <3>1, SucceedCalls
      <3>3. draft <= page.draft
        BY <1>1, <3>1 DEF CallOK
      <3>4. live' \in [edition : 1 .. served', draft : 1 .. draft'] /\ live'.draft <= page.draft
        <4>1. served' \in 1 .. served' /\ draft \in 1 .. draft
          BY <1>1, <1>2, <3>2 DEF TabTypeOK
        <4> QED BY <3>1, <3>3, <4>1
      <3>5. saved' \in SavedSettings /\ title' \in Titles /\ changed' \in BOOLEAN /\ saved'.visibility # "private"
        BY <1>1, <2>2, <3>1 DEF TabTypeOK
      <3> QED BY <1>3, <3>1, <3>2, <3>4, <3>5, ServerMoves
    <2> QED BY <2>1, <2>2
  <1>5. CASE ServeUnpublish(c)
    <2>1. /\ Succeed(c) /\ live' = OffAir /\ changed' = FALSE
          /\ saved' = [saved EXCEPT !.visibility = "private"] /\ UNCHANGED <<draft, title>>
      BY <1>5 DEF ServeUnpublish
    <2>2. Later /\ CallsOK' /\ served' \in 0 .. sent
      BY <1>2, <2>1, SucceedCalls
    <2>3. saved' \in SavedSettings /\ title' \in Titles /\ changed' \in BOOLEAN
          /\ saved'.visibility = "private"
      BY <1>1, <2>1 DEF TabTypeOK, SavedSettings, FormVisibilities
    <2> QED BY <1>3, <2>1, <2>2, <2>3, ServerMoves
  <1>6. CASE ServeSave(c)
    <2>1. /\ Succeed(c) /\ c.op = "save" /\ Replaced(c.arg.settings) /\ UNCHANGED <<draft, title>>
          /\ c.answer = "none"
      BY <1>6 DEF ServeSave, Succeed
    <2>2. Later /\ CallsOK' /\ served' = served + 1 /\ served' \in 0 .. sent
      BY <1>2, <2>1, SucceedCalls
    <2>3. saved' \in SavedSettings /\ title' \in Titles
      BY <1>1, <2>1 DEF CallOK, Replaced, TabTypeOK
    <2> QED BY <1>1, <1>2, <1>3, <2>1, <2>2, <2>3, ServerMoves, ReplacedFacts
  <1>7. CASE ServeEdit(c)
    <2>1. /\ Succeed(c) /\ draft' = draft + 1 /\ UNCHANGED <<title, saved, live, changed>>
      BY <1>7 DEF ServeEdit
    <2>2. Later /\ CallsOK' /\ served' = served + 1 /\ served' \in 0 .. sent
      BY <1>2, <2>1, SucceedCalls
    <2>3. title' \in Titles
      BY <1>1, <2>1 DEF TabTypeOK
    <2> QED BY <1>1, <1>2, <1>3, <2>1, <2>2, <2>3, ServerMoves, LiveStays
  <1> QED BY <1>4, <1>5, <1>6, <1>7 DEF Executed

LEMMA OtherKeeps == ScreenInv /\ OtherSteps => ScreenInv'
  <1> SUFFICES ASSUME ScreenInv, OtherSteps PROVE ScreenInv'
    OBVIOUS
  <1>1. /\ others' = others + 1 /\ others < MaxOthers
        /\ UNCHANGED <<cacheVars, calls, screenVars, served, sent>>
    BY DEF OtherSteps, EditElsewhere, SettingsElsewhere, Other
  <1>2. TabTypeOK /\ CallsOK /\ LiveIsNotAheadOfTheScreen
    BY DEF ScreenInv
  <1>3. draft \in Nat /\ served \in Nat /\ sent \in Nat /\ served \in 0 .. sent /\ others' \in 0 .. MaxOthers
    BY <1>1, <1>2, WorkspaceAssumption DEF TabTypeOK
  <1>4. ASSUME draft' \in {draft, draft + 1} PROVE Later /\ CallsOK'
    <2>1. Later
      BY <1>1, <1>3, <1>4 DEF Later, cacheVars
    <2>2. CallsKept
      BY <1>1, <1>2 DEF CallsKept, SameCall, CallsOK, CallOK, OneIdEach
    <2> QED BY <1>1, <1>2, <2>1, <2>2, KeptIsOK
  <1>5. ASSUME NEW new \in Titles, EditElsewhere(new) PROVE ScreenInv'
    <2>1. draft' = draft + 1 /\ title' = new /\ UNCHANGED <<saved, live, changed>>
      BY <1>5 DEF EditElsewhere
    <2>2. Later /\ CallsOK'
      BY <1>4, <2>1
    <2> QED BY <1>1, <1>2, <1>3, <2>1, <2>2, ServerMoves, LiveStays
  <1>6. ASSUME NEW new \in SavedSettings, SettingsElsewhere(new) PROVE ScreenInv'
    <2>1. Replaced(new) /\ UNCHANGED <<draft, title>>
      BY <1>6 DEF SettingsElsewhere
    <2>2. Later /\ CallsOK'
      BY <1>4, <2>1
    <2>3. saved' \in SavedSettings /\ title' \in Titles
      BY <1>2, <1>6, <2>1 DEF Replaced, TabTypeOK
    <2> QED BY <1>1, <1>2, <1>3, <2>1, <2>2, <2>3, ServerMoves, ReplacedFacts
  <1> QED BY <1>5, <1>6 DEF OtherSteps

LEMMA HearKeeps ==
  ASSUME CallsOK, NEW S, S \subseteq calls,
         calls' = {[c EXCEPT !.heard = @ /\ OnScreen(c.op, place')] : c \in S}
  PROVE  CallsKept
  <1> DEFINE D(c) == [c EXCEPT !.heard = @ /\ OnScreen(c.op, place')]
  <1>1. ASSUME NEW c \in S PROVE SameCall(c, D(c)) /\ D(c).id = c.id
    <2>1. CallOK(c)
      BY DEF CallsOK
    <2>2. D(c) = [id |-> c.id, op |-> c.op, arg |-> c.arg, answer |-> c.answer,
                  served |-> c.served, heard |-> c.heard /\ OnScreen(c.op, place')]
      BY <2>1 DEF CallOK
    <2> HIDE DEF D
    <2> QED BY <2>2 DEF SameCall
  <1>2. calls' = {D(c) : c \in S}
    OBVIOUS
  <1> HIDE DEF D
  <1>3. OneIdEach'
    BY <1>1, <1>2 DEF CallsOK, OneIdEach
  <1> QED BY <1>1, <1>2, <1>3 DEF CallsKept

\* Calls that stay, or of which some end.
LEMMA FewerCalls ==
  ASSUME CallsOK, calls' \subseteq calls
  PROVE  CallsKept
  BY DEF CallsOK, CallOK, OneIdEach, SameCall, CallsKept

LEMMA FormIsOK ==
  ASSUME NEW p, PageOK(p)
  PROVE  FormOf(p) \in Forms
  BY DEF PageOK, FormOf, Forms, SavedSettings

\* Leaving a page for another one, which shows the form as the cache has it.
LEMMA GoToFacts ==
  ASSUME ScreenInv, NEW to \in Places, GoTo(to)
  PROVE  /\ place' \in Places /\ form' \in Forms \cup {Typed, NoForm}
         /\ place' = "publish" => form' \in {Typed, FormOf(page)}
         /\ reading' \in {reading, Sent} /\ UNCHANGED <<page, failed>>
         /\ place' = to
  <1>1. form \in Forms \cup {Typed, NoForm} /\ FormOf(page) \in Forms
    BY FormIsOK DEF ScreenInv, TabTypeOK
  <1>2. form' \in {form, FormOf(page), NoForm}
    BY DEF GoTo, Filled
  <1>3. to = "publish" => form' \in {Typed, FormOf(page)}
    BY DEF GoTo, Filled, ScreenInv, FormIsCurrent
  <1> QED BY <1>1, <1>2, <1>3 DEF GoTo

LEMMA LeaveKeeps ==
  ASSUME ScreenInv, NEW to \in Places, GoTo(to), Hear,
         UNCHANGED <<serverVars, owed, sent, others, dismissed>>
  PROVE  ScreenInv'
  <1>1. CallsKept
    BY HearKeeps DEF Hear, ScreenInv
  <1>2. dismissed' \in BOOLEAN
    BY DEF ScreenInv, TabTypeOK
  <1> QED BY <1>1, <1>2, GoToFacts, ScreenMoves

LEMMA EndedKeeps ==
  ASSUME ScreenInv, NEW c \in calls, Settled(c)
  PROVE  ScreenInv'
  <1>1. TabTypeOK /\ CallsOK /\ CallOK(c) /\ FormIsCurrent
    BY DEF ScreenInv, CallsOK
  <1>2. Ended(c)
    BY DEF Settled, PublishEnded, RevisedEnded
  <1>3. /\ UNCHANGED <<serverVars, page, sent, others, dismissed>>
        /\ owed' = IF c.answer = "ok" /\ owed < c.served THEN c.served ELSE owed
    BY <1>2 DEF Ended
  <1>4. owed' \in 0 .. served /\ dismissed' \in BOOLEAN /\ (c.answer # "ok" => owed' = owed)
    BY <1>1, <1>3 DEF TabTypeOK, CallOK
  <1>5. CASE /\ calls' = calls \ {c} /\ UNCHANGED <<place, form, failed>>
             /\ reading' \in {reading, Sent} /\ (c.answer = "ok" => reading' = Sent)
    <2>1. CallsKept
      BY <1>1, <1>5, FewerCalls
    <2>2. /\ place' \in Places /\ form' \in Forms \cup {Typed, NoForm}
          /\ place' = "publish" => form' \in {Typed, FormOf(page)}
      BY <1>1, <1>5 DEF TabTypeOK, FormIsCurrent
    <2> QED BY <1>3, <1>4, <1>5, <2>1, <2>2, ScreenMoves
  <1>6. CASE /\ c.answer # "ok" /\ GoTo("publish")
             /\ calls' = {[d EXCEPT !.heard = @ /\ OnScreen(d.op, "publish")] : d \in calls \ {c}}
    <2>1. /\ place' \in Places /\ form' \in Forms \cup {Typed, NoForm}
          /\ place' = "publish" => form' \in {Typed, FormOf(page)}
          /\ reading' \in {reading, Sent} /\ place' = "publish" /\ failed' = failed
      BY <1>6, GoToFacts DEF Places
    <2>2. CallsKept
      <3>1. calls' = {[d EXCEPT !.heard = @ /\ OnScreen(d.op, place')] : d \in calls \ {c}}
        BY <1>6, <2>1
      <3> QED BY <1>1, <3>1, HearKeeps
    <2> QED BY <1>3, <1>4, <1>6, <2>1, <2>2, ScreenMoves
  <1>7. \/ /\ calls' = calls \ {c} /\ UNCHANGED <<place, form, failed>>
           /\ reading' \in {reading, Sent} /\ (c.answer = "ok" => reading' = Sent)
        \/ /\ c.answer # "ok" /\ GoTo("publish")
           /\ calls' = {[d EXCEPT !.heard = @ /\ OnScreen(d.op, "publish")] : d \in calls \ {c}}
    BY DEF Settled, PublishEnded, RevisedEnded, Refetched
  <1> QED BY <1>5, <1>6, <1>7

LEMMA PageReadKeeps ==
  ASSUME ScreenInv, PageRead
  PROVE  ScreenInv'
  <1>1. /\ reading = Sent /\ reading' = PageNow
        /\ UNCHANGED <<draft, title, saved, live, changed, served, page, failed, owed, calls, sent, others, place, form, dismissed>>
    BY DEF PageRead, serverVars, pageVars, screenVars
  <1>2. PICK now : now = PageNow
    OBVIOUS
  <1>3. PageOK(now) /\ page.draft <= now.draft /\ owed <= now.served
    BY <1>2, PageNowOK DEF ScreenInv, TabTypeOK
  <1>4. ReadingOK' /\ PageOK(page)'
    BY <1>1, <1>2, <1>3 DEF ReadingOK, PageOK, ScreenInv
  <1>5. SuccessIsShown'
    BY <1>1, <1>2, <1>3, NowIsNotIdle DEF SuccessIsShown, PageOK
  <1>6. TabTypeOK' /\ CallsOK' /\ LiveIsNotAheadOfTheScreen' /\ FormIsCurrent'
    <2>1. Unserved' = Unserved /\ (\A c \in calls : CallOK(c)')
      BY <1>1 DEF Unserved, CallOK, ScreenInv, CallsOK
    <2> QED BY <1>1, <2>1 DEF ScreenInv, TabTypeOK, CallsOK, OneIdEach, LiveIsNotAheadOfTheScreen, FormIsCurrent, FormOf
  <1> QED BY <1>4, <1>5, <1>6 DEF ScreenInv

\* A fetch that fails, and one sent again after that, leave the page as it is.
LEMMA PageFailsKeeps ==
  ASSUME ScreenInv, \/ PageFails
                    \/ Retry
  PROVE  ScreenInv'
  <1>1. /\ UNCHANGED <<draft, title, saved, live, changed, served, page, owed, calls, sent, others, place, form, dismissed>>
        /\ \/ reading' = NoFetch /\ failed' = TRUE
           \/ reading' = Sent /\ failed' = failed
    BY DEF PageFails, Retry, Refetched, serverVars, pageVars, screenVars
  <1>2. ReadingOK' /\ SuccessIsShown' /\ PageOK(page)'
    BY <1>1, SentIsNotIdle DEF ReadingOK, SuccessIsShown, ScreenInv, PageOK
  <1>3. TabTypeOK' /\ CallsOK' /\ LiveIsNotAheadOfTheScreen' /\ FormIsCurrent'
    <2>1. Unserved' = Unserved /\ (\A c \in calls : CallOK(c)')
      BY <1>1 DEF Unserved, CallOK, ScreenInv, CallsOK
    <2> QED BY <1>1, <2>1 DEF ScreenInv, TabTypeOK, CallsOK, OneIdEach, LiveIsNotAheadOfTheScreen, FormIsCurrent, FormOf
  <1> QED BY <1>2, <1>3 DEF ScreenInv

LEMMA PageArrivesKeeps ==
  ASSUME ScreenInv, PageArrives
  PROVE  ScreenInv'
  <1>1. /\ reading \notin {NoFetch, Sent} /\ page' = reading /\ reading' = NoFetch /\ failed' = FALSE
        /\ form' = Filled(reading, place)
        /\ UNCHANGED <<draft, title, saved, live, changed, served, owed, calls, sent, others, place, dismissed>>
    BY DEF PageArrives, serverVars, pageVars
  <1>2. PICK new, old : new = reading /\ old = page
    OBVIOUS
  <1>3. PageOK(new) /\ old.draft <= new.draft /\ owed <= new.served
    BY <1>1, <1>2 DEF ScreenInv, ReadingOK
  <1>4. PageOK(page)' /\ ReadingOK' /\ SuccessIsShown'
    BY <1>1, <1>2, <1>3 DEF PageOK, ReadingOK, SuccessIsShown
  <1>5. LiveIsNotAheadOfTheScreen'
    <2>1. CASE live = OffAir
      BY <1>1, <2>1 DEF LiveIsNotAheadOfTheScreen
    <2>2. CASE live # OffAir
      <3>1. live.draft <= old.draft /\ live.draft \in Nat /\ old.draft \in Nat /\ new.draft \in Nat
        BY <1>2, <1>3, <2>2 DEF ScreenInv, LiveIsNotAheadOfTheScreen, TabTypeOK, PageOK
      <3> QED BY <1>1, <1>2, <1>3, <3>1 DEF LiveIsNotAheadOfTheScreen
    <2> QED BY <2>1, <2>2
  <1>6. /\ form' \in Forms \cup {Typed, NoForm}
        /\ place' = "publish" => form' \in {Typed, FormOf(new)}
    <2>1. form \in Forms \cup {Typed, NoForm} /\ (place = "publish" => form \in {Typed, FormOf(old)})
      BY <1>2 DEF ScreenInv, TabTypeOK, FormIsCurrent
    <2>2. FormOf(new) \in Forms
      BY <1>3, FormIsOK
    <2>3. form' = IF place # "publish" THEN NoForm
                  ELSE IF new.publication = old.publication /\ new.title = old.title THEN form ELSE FormOf(new)
      BY <1>1, <1>2 DEF Filled, SameForm
    <2>4. new.publication = old.publication /\ new.title = old.title => FormOf(new) = FormOf(old)
      BY DEF FormOf
    <2> QED BY <1>1, <2>1, <2>2, <2>3, <2>4
  <1>7. CallsOK'
    <2>1. ASSUME NEW c \in calls PROVE CallOK(c)'
      <3>1. CallOK(c)
        BY DEF ScreenInv, CallsOK
      <3>2. new.draft \in Nat /\ old.draft \in Nat /\ old.draft <= new.draft
        BY <1>2, <1>3 DEF ScreenInv, PageOK
      <3> QED BY <1>1, <1>2, <3>1, <3>2 DEF CallOK
    <2>2. Unserved' = Unserved
      BY <1>1 DEF Unserved
    <2> QED BY <1>1, <2>1, <2>2 DEF ScreenInv, CallsOK, OneIdEach
  <1>8. TabTypeOK'
    <2>1. page'.draft \in 1..draft /\ page'.served \in 0..served
      BY <1>1, <1>2, <1>3 DEF PageOK
    <2> QED BY <1>1, <1>6, <2>1 DEF ScreenInv, TabTypeOK
  <1>9. FormIsCurrent'
    BY <1>1, <1>2, <1>6 DEF FormIsCurrent, FormOf
  <1> QED BY <1>4, <1>5, <1>7, <1>8, <1>9 DEF ScreenInv

LEMMA PublishStepsKeep ==
  ASSUME ScreenInv, PublishSteps \/ FormSteps
  PROVE  ScreenInv'
  <1>1. TabTypeOK /\ CallsOK /\ FormIsCurrent /\ page.draft \in Nat
    BY DEF ScreenInv, PageOK
  <1>2. PICK old : old = page
    OBVIOUS
  <1>3. ASSUME NEW surface \in Surfaces, Publish(surface) PROVE ScreenInv'
    <2>1. PICK arg : arg = [draft |-> page.draft] /\ Ask(surface, arg)
      BY <1>3 DEF Publish
    <2>2. arg.draft = page.draft /\ surface # "save"
      BY <2>1 DEF Surfaces
    <2> QED BY <1>3, <2>1, <2>2, AskKeeps DEF Publish
  <1>4. ASSUME NEW surface \in Surfaces, RedirectToVisibility(surface) PROVE ScreenInv'
    <2>1. GoTo("publish") /\ Hear /\ UNCHANGED <<serverVars, owed, sent, others, dismissed>>
      BY <1>4 DEF RedirectToVisibility
    <2> QED BY <1>1, <2>1, LeaveKeeps DEF Places
  <1>5. CASE Dismiss
    <2>1. /\ UNCHANGED <<serverVars, page, reading, failed, owed, calls, sent, others, place, form>>
          /\ dismissed' = TRUE
      BY <1>5 DEF Dismiss, cacheVars
    <2>2. CallsKept
      BY <1>1, <2>1, FewerCalls
    <2>3. /\ place' \in Places /\ form' \in Forms \cup {Typed, NoForm}
          /\ place' = "publish" => form' \in {Typed, FormOf(page)}
      BY <1>1, <2>1 DEF TabTypeOK, FormIsCurrent
    <2> QED BY <2>1, <2>2, <2>3, ScreenMoves
  <1>6. CASE Unpublish
    <2>1. PICK arg : Ask("unpublish", arg)
      BY <1>6 DEF Unpublish
    <2> QED BY <1>6, <2>1, AskKeeps DEF Unpublish, Surfaces
  <1>7. ASSUME NEW to \in Places, Navigate(to) PROVE ScreenInv'
    <2>2. GoTo(to) /\ Hear /\ UNCHANGED <<serverVars, owed, sent, others, dismissed>>
      BY <1>7 DEF Navigate
    <2> QED BY <2>2, LeaveKeeps
  <1>8. CASE TypeForm
    <2>1. /\ UNCHANGED <<serverVars, page, reading, failed, owed, calls, sent, others, place, dismissed>>
          /\ form' = Typed
      BY <1>8 DEF TypeForm, cacheVars
    <2>2. CallsKept
      BY <1>1, <2>1, FewerCalls
    <2>3. place' \in Places /\ dismissed' \in BOOLEAN
      BY <1>1, <2>1 DEF TabTypeOK
    <2> QED BY <2>1, <2>2, <2>3, ScreenMoves
  <1>9. CASE Edit
    <2>1. PICK arg : Ask("edit", arg)
      BY <1>9 DEF Edit
    <2> QED BY <1>9, <2>1, AskKeeps DEF Edit, Surfaces
  <1>10. ASSUME NEW new \in SavedSettings, SavePublication(new) PROVE ScreenInv'
    <2>1. PICK arg : arg = [settings |-> new] /\ Ask("save", arg)
      BY <1>10 DEF SavePublication
    <2>2. arg.settings \in SavedSettings
      BY <2>1
    <2> QED BY <1>10, <2>1, <2>2, AskKeeps DEF SavePublication, Surfaces
  <1> QED BY <1>3, <1>4, <1>5, <1>6, <1>7, <1>8, <1>9, <1>10 DEF PublishSteps, FormSteps

LEMMA ScreenStep == ScreenInv /\ [TabNext]_tabVars => ScreenInv'
  <1> SUFFICES ASSUME ScreenInv, [TabNext]_tabVars PROVE ScreenInv'
    OBVIOUS
  <1>1. CASE PublishSteps \/ FormSteps
    BY <1>1, PublishStepsKeep
  <1>2. CASE OtherSteps
    BY <1>2, OtherKeeps
  <1>3. ASSUME NEW c \in calls, Executed(c) \/ CallFails(c) \/ Settled(c) PROVE ScreenInv'
    <2>1. CASE CallFails(c)
      <3>1. PICK answer \in {"failed", "conflict"} : Refuse(c, answer)
        BY <2>1 DEF CallFails
      <3> QED BY <3>1, RefuseKeeps
    <2> QED BY <1>3, <2>1, ServeKeeps, EndedKeeps
  <1>4. CASE Retry \/ PageRead \/ PageFails \/ PageArrives
    BY <1>4, PageReadKeeps, PageArrivesKeeps, PageFailsKeeps
  <1>5. CASE UNCHANGED tabVars
    <2>1. UNCHANGED <<serverVars, page, reading, failed, owed, calls, sent, others, place, form, dismissed>>
      BY <1>5 DEF tabVars, cacheVars, screenVars
    <2>2. CallsKept
      BY <2>1, FewerCalls DEF ScreenInv
    <2>3. /\ place' \in Places /\ form' \in Forms \cup {Typed, NoForm} /\ dismissed' \in BOOLEAN
          /\ place' = "publish" => form' \in {Typed, FormOf(page)}
      BY <2>1 DEF ScreenInv, TabTypeOK, FormIsCurrent
    <2> QED BY <2>1, <2>2, <2>3, ScreenMoves
  <1> QED BY <1>1, <1>2, <1>3, <1>4, <1>5 DEF TabNext

LEMMA ScreenAlways == TabSpec => []ScreenInv
  BY ScreenInit, ScreenStep, PTL DEF TabSpec

\* What the tab shows is well typed, the form nobody typed into shows the cached
\* publication, and without a fetch under way nothing it was told is missing.
THEOREM ScreensAreCurrent == TabSpec => []ScreenIsCurrent
  <1>1. ScreenInv => ScreenIsCurrent
    BY DEF ScreenInv, ScreenIsCurrent
  <1> QED BY <1>1, ScreenAlways, PTL

\* Whatever five surfaces and other devices do, a publication of the tab puts no
\* draft on the air that its owner has not had on the screen.
THEOREM VisitorsSeeWhatWasShown == TabSpec => []LiveIsNotAheadOfTheScreen
  <1>1. ScreenInv => LiveIsNotAheadOfTheScreen
    BY DEF ScreenInv
  <1> QED BY <1>1, ScreenAlways, PTL
=============================================================================
