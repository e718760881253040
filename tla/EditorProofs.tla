---------------------------- MODULE EditorProofs ----------------------------
(***************************************************************************)
(* Proofs about the link editor.                                           *)
(*                                                                         *)
(* Of its forms (LinkForms), for any rows, addresses and sizes of the      *)
(* checker's parts: forms send what they show, what is called deleted is   *)
(* gone, and a check has all of its links.  Of its layout (LayoutEditor),  *)
(* for any page and any bounds: drags rearrange, what is not saved is      *)
(* shown as such, and the two requests of a save land together.            *)
(*                                                                         *)
(* The invariant of the forms has a part for each of their components,     *)
(* preserved by the steps of that component, by the page as it comes and   *)
(* goes, and by nothing the others do.                                     *)
(***************************************************************************)
EXTENDS LinkForms, LayoutEditor, FiniteSetTheorems, SequenceTheorems, TLAPS

-----------------------------------------------------------------------------
(* Rows *)

\* What forms and other tabs write into a row.
NewTexts ==
  {Typed, RowText("directory"), RowText("other tab")} \cup
  {Guess(u) : u \in Urls \cup {Lines}} \cup {Preview(u) : u \in Urls \cup {Lines}}

Page(p) ==
  /\ p = [revision |-> p.revision, text |-> p.text, home |-> p.home, on |-> p.on]
  /\ p.text = [i \in Items |-> p.text[i]]
  /\ p.home \in [Sites -> Cats]
  /\ p.on = [i \in Items |-> p.on[i]]
  /\ Exists(p, Uncategorized)
  /\ PageOK(p)

\* What is deleted stays so.
GoneStay(p, q) == \A i \in Items : p.text[i] = Gone => q.text[i] = Gone

Verbs == {"createSite", "createCategory", "delete", "rename", "switch"}

\* A change as a form asks for it.
ChangeOK(c) ==
  /\ c.verb \in Verbs /\ c.item \in Items
  /\ c.verb = "createSite" => c.item \in Cats
  /\ c.verb \in {"createSite", "createCategory", "rename"} => c.text \in NewTexts

LEMMA TextsDiffer ==
  /\ \A t \in NewTexts : t \notin {Unborn, Gone} /\ \A i : t \in TextsOf(i)
  /\ \A i : RowText(i) \notin {Unborn, Gone}
  /\ Unborn # Gone /\ Empty \notin {Unborn, Gone}
  <1>1. /\ \A i : RowText(i)[1] = "row" /\ Guess(i)[1] = "guess" /\ Preview(i)[1] = "preview"
        /\ Typed[1] = "typed" /\ Unborn[1] = "unborn" /\ Gone[1] = "gone"
    BY DEF RowText, Guess, Preview, Typed, Unborn, Gone
  <1>2. Len(Empty) = 0 /\ Len(Unborn) = 1 /\ Len(Gone) = 1
    BY DEF Empty, Unborn, Gone
  <1>3. \A t \in NewTexts : t \notin {Unborn, Gone}
    BY <1>1 DEF NewTexts
  <1>4. \A t \in NewTexts : \A i : t \in TextsOf(i)
    BY DEF NewTexts, TextsOf
  <1>5. \A i : RowText(i) \notin {Unborn, Gone}
    BY <1>1
  <1>6. Unborn # Gone
    BY <1>1
  <1>7. Empty \notin {Unborn, Gone}
    BY <1>2
  <1> QED BY <1>3, <1>4, <1>5, <1>6, <1>7

LEMMA FirstPage == Page(FirstRows)
  <1>1. \A i \in Items : FirstRows.text[i] \in TextsOf(i)
    BY RowsAssumption DEF TextsOf
  <1>2. Uncategorized \in Items /\ Exists(FirstRows, Uncategorized)
    BY RowsAssumption DEF CatsOf, Items
  <1>3. FirstRows.revision \in 0 .. MaxRevision
    <2>1. FirstRows.revision = 0
      BY RowsAssumption
    <2> QED BY <2>1, BoundsAssumption
  <1>4. \A s \in SitesOf(FirstRows) : Exists(FirstRows, FirstRows.home[s])
    BY RowsAssumption DEF CatsOf
  <1>5. PageOK(FirstRows)
    BY <1>1, <1>3, <1>4 DEF PageOK
  <1>6. FirstRows.on = [i \in Items |-> FirstRows.on[i]]
    BY RowsAssumption
  <1> QED BY <1>2, <1>5, <1>6, RowsAssumption DEF Page

LEMMA UncategorizedIsCategory == Uncategorized \in Cats /\ Uncategorized \in Items
  BY RowsAssumption DEF CatsOf, Items

\* One row gets a text.
Wrote(p, i, t) == [p EXCEPT !.revision = @ + 1, !.text[i] = t]

LEMMA TextFacts ==
  ASSUME NEW p, Page(p), p.revision < MaxRevision, NEW i \in Items, NEW t, NEW q, q = Wrote(p, i, t)
  PROVE  /\ q = [revision |-> q.revision, text |-> q.text, home |-> q.home, on |-> q.on]
         /\ q.text = [j \in Items |-> IF j = i THEN t ELSE p.text[j]]
         /\ q.home = p.home /\ q.on = p.on
         /\ q.revision = p.revision + 1 /\ q.revision \in 0 .. MaxRevision
  <1>1. q = [revision |-> p.revision + 1, text |-> [p.text EXCEPT ![i] = t], home |-> p.home, on |-> p.on]
    BY DEF Page, Wrote
  <1>2. p.revision \in 0 .. MaxRevision /\ MaxRevision \in Nat
    BY BoundsAssumption DEF Page, PageOK
  <1>3. [p.text EXCEPT ![i] = t] = [j \in Items |-> IF j = i THEN t ELSE p.text[j]]
    BY DEF Page
  <1>4. p.revision + 1 \in 0 .. MaxRevision
    BY <1>2
  <1> QED BY <1>1, <1>3, <1>4

\* A row that is there, or was never there, gets a new text.
LEMMA WrittenRow ==
  ASSUME NEW p, Page(p), p.revision < MaxRevision, NEW i \in Items, NEW t \in NewTexts,
         p.text[i] # Gone, i \in Cats \/ Exists(p, i), NEW q,
         q = Wrote(p, i, t)
  PROVE  Page(q) /\ GoneStay(p, q)
  <1>1. /\ q = [revision |-> q.revision, text |-> q.text, home |-> q.home, on |-> q.on]
        /\ q.text = [j \in Items |-> IF j = i THEN t ELSE p.text[j]]
        /\ q.home = p.home /\ q.on = p.on /\ q.revision \in 0 .. MaxRevision
    BY TextFacts
  <1>2. \A j \in Items : q.text[j] = IF j = i THEN t ELSE p.text[j]
    BY <1>1
  <1>3. t \notin {Unborn, Gone} /\ t \in TextsOf(i)
    BY TextsDiffer
  <1>4. \A j \in Items : Exists(p, j) => Exists(q, j)
    BY <1>2, <1>3 DEF Exists
  <1>5. \A j \in Items : Exists(q, j) => Exists(p, j) \/ j = i
    BY <1>2 DEF Exists
  <1>6. SitesOf(q) \subseteq SitesOf(p)
    BY <1>5, RowsAssumption DEF SitesOf, Items
  <1>7. \A s \in SitesOf(p) : p.home[s] \in Cats /\ Exists(p, p.home[s])
    BY DEF Page, PageOK, SitesOf
  <1>8. PageOK(q)
    <2>1. \A s \in SitesOf(q) : Exists(q, q.home[s])
      BY <1>1, <1>4, <1>6, <1>7 DEF Items
    <2>2. \A j \in Items : q.text[j] \in TextsOf(j)
      BY <1>2, <1>3 DEF Page, PageOK
    <2> QED BY <1>1, <2>1, <2>2 DEF PageOK
  <1>9. Exists(q, Uncategorized)
    BY <1>4, UncategorizedIsCategory DEF Page
  <1>10. q.text = [j \in Items |-> q.text[j]]
    BY <1>1
  <1>11. p.home \in [Sites -> Cats] /\ p.on = [j \in Items |-> p.on[j]]
    BY DEF Page
  <1>12. Page(q)
    BY <1>1, <1>8, <1>9, <1>10, <1>11 DEF Page
  <1>13. GoneStay(p, q)
    BY <1>2 DEF GoneStay
  <1> QED BY <1>12, <1>13

\* A row goes that has no sites.
LEMMA DeletedRow ==
  ASSUME NEW p, Page(p), p.revision < MaxRevision, NEW i \in Items, i # Uncategorized,
         \A s \in SitesOf(p) : p.home[s] # i, NEW q,
         q = Wrote(p, i, Gone)
  PROVE  Page(q) /\ GoneStay(p, q) /\ q.text[i] = Gone
  <1>1. /\ q = [revision |-> q.revision, text |-> q.text, home |-> q.home, on |-> q.on]
        /\ q.text = [j \in Items |-> IF j = i THEN Gone ELSE p.text[j]]
        /\ q.home = p.home /\ q.on = p.on /\ q.revision \in 0 .. MaxRevision
    BY TextFacts
  <1>2. \A j \in Items : q.text[j] = IF j = i THEN Gone ELSE p.text[j]
    BY <1>1
  <1>3. \A j \in Items : j # i => (Exists(p, j) <=> Exists(q, j))
    BY <1>2 DEF Exists
  <1>4. ~Exists(q, i)
    BY <1>2 DEF Exists
  <1>5. SitesOf(q) \subseteq SitesOf(p)
    BY <1>3, <1>4 DEF SitesOf, Items
  <1>6. \A s \in SitesOf(p) : p.home[s] \in Cats /\ Exists(p, p.home[s])
    BY DEF Page, PageOK, SitesOf
  <1>7. PageOK(q)
    <2>1. \A s \in SitesOf(q) : Exists(q, q.home[s])
      BY <1>1, <1>3, <1>5, <1>6 DEF Items
    <2>2. \A j \in Items : q.text[j] \in TextsOf(j)
      BY <1>2 DEF Page, PageOK, TextsOf
    <2> QED BY <1>1, <2>1, <2>2 DEF PageOK
  <1>8. Exists(q, Uncategorized)
    BY <1>3, UncategorizedIsCategory DEF Page
  <1>9. q.text = [j \in Items |-> q.text[j]]
    BY <1>1
  <1>10. p.home \in [Sites -> Cats] /\ p.on = [j \in Items |-> p.on[j]]
    BY DEF Page
  <1>11. Page(q)
    BY <1>1, <1>7, <1>8, <1>9, <1>10 DEF Page
  <1> QED BY <1>2, <1>11 DEF GoneStay


\* Only the revision and what is switched on change.
LEMMA SwitchedRows ==
  ASSUME NEW p, Page(p), p.revision < MaxRevision, NEW on, on = [i \in Items |-> on[i]], NEW q,
         q = [revision |-> p.revision + 1, text |-> p.text, home |-> p.home, on |-> on]
  PROVE  Page(q) /\ GoneStay(p, q)
  <1>1. q.revision \in 0 .. MaxRevision
    BY BoundsAssumption DEF Page, PageOK
  <1>2. \A i : Exists(q, i) <=> Exists(p, i)
    BY DEF Exists
  <1>3. PageOK(q)
    BY <1>1, <1>2 DEF Page, PageOK, SitesOf
  <1> QED BY <1>2, <1>3 DEF Page, GoneStay

\* A new site in a category of the page.
LEMMA AddedSite ==
  ASSUME NEW p, Page(p), p.revision < MaxRevision, NEW s \in Sites, p.text[s] = Unborn,
         NEW c \in Cats, Exists(p, c), NEW t \in NewTexts, NEW q,
         q = [p EXCEPT !.revision = @ + 1, !.text[s] = t, !.home[s] = c]
  PROVE  Page(q) /\ GoneStay(p, q)
  <1>1. p.home = [x \in Sites |-> p.home[x]] /\ p.text = [i \in Items |-> p.text[i]] /\ s \in Items
    BY DEF Page, Items
  <1>2. q = [revision |-> p.revision + 1, text |-> [p.text EXCEPT ![s] = t],
             home |-> [p.home EXCEPT ![s] = c], on |-> p.on]
    BY DEF Page
  <1>3. /\ q.text = [i \in Items |-> IF i = s THEN t ELSE p.text[i]]
        /\ q.home = [x \in Sites |-> IF x = s THEN c ELSE p.home[x]]
    <2>1. PICK text, home : text = p.text /\ home = p.home
      OBVIOUS
    <2>2. text = [i \in Items |-> text[i]] /\ home = [x \in Sites |-> home[x]]
      BY <1>1, <2>1
    <2>3. /\ [text EXCEPT ![s] = t] = [i \in Items |-> IF i = s THEN t ELSE text[i]]
          /\ [home EXCEPT ![s] = c] = [x \in Sites |-> IF x = s THEN c ELSE home[x]]
      BY <2>2
    <2>4. q.text = [text EXCEPT ![s] = t] /\ q.home = [home EXCEPT ![s] = c]
      BY <1>2, <2>1
    <2> QED BY <2>1, <2>3, <2>4
  <1>4. t \notin {Unborn, Gone} /\ t \in TextsOf(s)
    BY TextsDiffer
  <1>5. \A i \in Items : Exists(q, i) <=> i = s \/ Exists(p, i)
    BY <1>3, <1>4 DEF Exists
  <1>6. q.home \in [Sites -> Cats] /\ q.on = [i \in Items |-> q.on[i]]
    BY <1>2, <1>3 DEF Page
  <1>7. q.revision \in 0 .. MaxRevision
    BY <1>2, BoundsAssumption DEF Page, PageOK
  <1>8. \A i \in Items : q.text[i] \in TextsOf(i)
    BY <1>3, <1>4 DEF Page, PageOK
  <1>9. ASSUME NEW x \in SitesOf(q) PROVE Exists(q, q.home[x])
    <2>1. x \in Sites /\ x \in Items /\ (x = s \/ x \in SitesOf(p))
      BY <1>5, <1>9 DEF SitesOf, Items
    <2>2. Exists(p, q.home[x])
      BY <1>3, <2>1 DEF Page, PageOK
    <2>3. q.home[x] \in Items
      BY <1>6, <2>1 DEF Items
    <2> QED BY <1>5, <2>2, <2>3
  <1>10. PageOK(q)
    BY <1>7, <1>8, <1>9 DEF PageOK
  <1>11. Exists(q, Uncategorized)
    BY <1>5, UncategorizedIsCategory DEF Page
  <1>12. Page(q)
    BY <1>2, <1>3, <1>6, <1>10, <1>11 DEF Page
  <1>13. GoneStay(p, q)
    BY <1>3, <1>4 DEF GoneStay, Gone, Unborn
  <1> QED BY <1>12, <1>13

\* What the server accepts leaves it a page, and what it deletes is gone.
LEMMA ChangedPage ==
  ASSUME Page(rows), NEW call, ChangeOK(call), Accepted(call), Touched, NEW q, q = Changed(call)
  PROVE  /\ Page(q) /\ GoneStay(rows, q)
         /\ call.verb = "delete" => q.text[call.item] = Gone
  <1>1. call.item \in Items /\ rows.revision < MaxRevision
    BY DEF ChangeOK, Touched
  <1>2. CASE call.verb = "createSite"
    <2>1. call.item \in Cats /\ Exists(rows, call.item) /\ call.text \in NewTexts
      BY <1>2 DEF ChangeOK, Accepted
    <2>2. PICK s : s = CHOOSE x \in Sites : rows.text[x] = Unborn
      OBVIOUS
    <2>3. s \in Sites /\ rows.text[s] = Unborn
      BY <1>2, <2>2 DEF Accepted
    <2>4. q = [rows EXCEPT !.revision = @ + 1, !.text[s] = call.text, !.home[s] = call.item]
      BY <1>2, <2>2 DEF Changed
    <2>5. Page(q) /\ GoneStay(rows, q)
      BY <1>1, <2>1, <2>3, <2>4, AddedSite
    <2> QED BY <1>2, <2>5
  <1>3. CASE call.verb = "createCategory"
    <2>1. call.text \in NewTexts
      BY <1>3 DEF ChangeOK
    <2>2. PICK c : c = CHOOSE x \in Cats : rows.text[x] = Unborn
      OBVIOUS
    <2>3. c \in Cats /\ c \in Items /\ rows.text[c] = Unborn
      BY <1>3, <2>2 DEF Accepted, Items
    <2>4. q = Wrote(rows, c, call.text)
      BY <1>3, <2>2 DEF Changed, Wrote
    <2>5. rows.text[c] # Gone
      BY <2>3, TextsDiffer
    <2>6. Page(q) /\ GoneStay(rows, q)
      BY <1>1, <2>1, <2>3, <2>4, <2>5, WrittenRow
    <2> QED BY <1>3, <2>6
  <1>4. CASE call.verb = "delete"
    <2>1. call.item # Uncategorized /\ \A s \in SitesOf(rows) : rows.home[s] # call.item
      BY <1>4 DEF Accepted
    <2>2. q = Wrote(rows, call.item, Gone)
      BY <1>4 DEF Changed, Wrote
    <2> QED BY <1>1, <2>1, <2>2, DeletedRow
  <1>5. CASE call.verb = "rename"
    <2>1. call.text \in NewTexts
      BY <1>5 DEF ChangeOK
    <2>2. Exists(rows, call.item) /\ rows.text[call.item] # Gone
      BY <1>5 DEF Accepted, Exists
    <2>3. q = Wrote(rows, call.item, call.text)
      BY <1>5 DEF Changed, Wrote
    <2>4. Page(q) /\ GoneStay(rows, q)
      BY <1>1, <2>1, <2>2, <2>3, WrittenRow
    <2> QED BY <1>5, <2>4
  <1>6. CASE call.verb = "switch"
    <2>1. q = [rows EXCEPT !.revision = @ + 1, !.on[call.item] = call.on]
      BY <1>6 DEF Changed
    <2>2. rows = [revision |-> rows.revision, text |-> rows.text, home |-> rows.home, on |-> rows.on]
          /\ rows.on = [i \in Items |-> rows.on[i]]
      BY DEF Page
    <2>3. PICK on : on = [rows.on EXCEPT ![call.item] = call.on]
      OBVIOUS
    <2>4. on = [i \in Items |-> on[i]]
      BY <2>2, <2>3
    <2>5. q = [revision |-> rows.revision + 1, text |-> rows.text, home |-> rows.home, on |-> on]
      BY <2>1, <2>2, <2>3
    <2>6. Page(q) /\ GoneStay(rows, q)
      BY <1>1, <2>4, <2>5, SwitchedRows
    <2> QED BY <1>6, <2>6
  <1> QED BY <1>2, <1>3, <1>4, <1>5, <1>6 DEF ChangeOK, Verbs

-----------------------------------------------------------------------------
(* Sequences of rows *)

LEMMA InSequence ==
  ASSUME NEW S, IsFiniteSet(S), NEW s, s = SetToSeq(S)
  PROVE  /\ s \in Seq(S) /\ Len(s) = Cardinality(S) /\ Cardinality(S) \in Nat
         /\ DOMAIN s = 1 .. Len(s)
         /\ \A m, n \in 1 .. Len(s) : s[m] = s[n] => m = n
         /\ \A x \in S : \E n \in 1 .. Len(s) : s[n] = x
  <1> DEFINE N == 1 .. Cardinality(S)
  <1>1. Cardinality(S) \in Nat /\ ExistsBijection(N, S)
    BY FS_CardinalityType
  <1>2. PICK f : f \in Bijection(N, S)
    BY <1>1 DEF ExistsBijection
  <1>3. f \in [N -> S] /\ IsInjective(f)
    BY <1>2 DEF Bijection, Injection, IsInjective
  <1>4. s \in [N -> S] /\ IsInjective(s)
    BY <1>3 DEF SetToSeq
  <1>5. s \in Injection(N, S)
    BY <1>4 DEF Injection, IsInjective
  <1>6. IsFiniteSet(N) /\ Cardinality(N) = Cardinality(S)
    BY <1>1, FS_Interval
  <1>7. s \in Surjection(N, S)
    BY <1>5, <1>6, FS_Injection
  <1>8. s \in Seq(S) /\ Len(s) = Cardinality(S)
    BY <1>1, <1>4
  <1> QED BY <1>1, <1>4, <1>7, <1>8 DEF IsInjective, Surjection

\* What has been got of the targets, and the next part of them.
PartEnd(s, m) == Min({m + Chunk, Len(s)})

LEMMA NextOf ==
  ASSUME NEW s \in Seq(Sites), NEW m \in 0 .. Len(s), NEW n, n = PartEnd(s, m)
  PROVE  /\ n \in m .. Len(s)
         /\ m + Chunk < Len(s) => n = m + Chunk
         /\ m + Chunk >= Len(s) => n = Len(s)
         /\ SubSeq(s, 1, m) \o SubSeq(s, m + 1, n) = SubSeq(s, 1, n)
         /\ SubSeq(s, 1, Len(s)) = s
  <1>1. Chunk \in Nat /\ m \in Nat /\ Len(s) \in Nat
    BY BoundsAssumption
  <1>2. n \in {m + Chunk, Len(s)} /\ \A x \in {m + Chunk, Len(s)} : n <= x
    <2> DEFINE N == {m + Chunk, Len(s)}
    <2>1. \E x \in N : \A y \in N : x <= y
      BY <1>1
    <2> QED BY <2>1 DEF Min, PartEnd
  <1>3. n \in m .. Len(s) /\ (m + Chunk < Len(s) => n = m + Chunk) /\ (m + Chunk >= Len(s) => n = Len(s))
    BY <1>1, <1>2
  <1>4. 1 \in 1 .. Len(s) + 1 /\ m \in 1 - 1 .. Len(s) /\ n \in m .. Len(s)
    BY <1>1, <1>3
  <1>5. SubSeq(s, 1, m) \o SubSeq(s, m + 1, n) = SubSeq(s, 1, n)
    BY <1>4, ConcatAdjacentSubSeq
  <1>6. SubSeq(s, 1, Len(s)) = s
    BY SubSeqFull
  <1> QED BY <1>3, <1>5, <1>6

-----------------------------------------------------------------------------
(* The inductive invariant *)

PagesInv ==
  /\ Page(rows) /\ Page(shown)
  /\ \/ fetch = NoFetch \/ fetch = [step |-> "asked"]
     \/ fetch = [step |-> "delivered", page |-> fetch.page] /\ Page(fetch.page)

\* A deletion that waits for the page has been carried out.
CallOK(c) ==
  /\ c = [id |-> c.id, verb |-> c.verb, item |-> c.item, text |-> c.text, on |-> c.on,
          closes |-> c.closes, step |-> c.step]
  /\ c.id \in 1 .. sent /\ ChangeOK(c) /\ c.step \in {"sent", "refetch"}
  /\ c.step = "refetch" /\ c.verb = "delete" => rows.text[c.item] = Gone

CallsInv ==
  /\ sent \in Nat
  /\ \A c \in calls : CallOK(c)
  /\ \A c, d \in calls : c.id = d.id => c = d

\* Each site of a deletion is gone, or its request failed or is under way.
DeletionOK(b) ==
  /\ b.ids \subseteq Sites /\ b.waiting \subseteq 1 .. sent /\ b.failed \in BOOLEAN
  /\ \A s \in b.ids :
       \/ b.failed \/ rows.text[s] = Gone
       \/ \E c \in calls : c.verb = "delete" /\ c.item = s /\ c.id \in b.waiting

BatchOK(b) ==
  \/ b = [id |-> b.id, step |-> "refetch"]
  \/ /\ b = [id |-> b.id, step |-> "enabling", ids |-> b.ids, on |-> b.on, revision |-> b.revision]
     /\ b.ids \subseteq Sites /\ b.on \in BOOLEAN
  \/ /\ b = [id |-> b.id, step |-> "deleting", ids |-> b.ids, waiting |-> b.waiting,
              failed |-> b.failed]
     /\ DeletionOK(b)

BatchInv ==
  /\ \A b \in batches : BatchOK(b)
  /\ selected \subseteq Sites /\ told \subseteq Sites

PanelOK(p) ==
  \/ p = Closed
  \/ /\ p = [open |-> TRUE, item |-> p.item, text |-> p.text, dirty |-> p.dirty]
     /\ p.item \in Items /\ p.dirty \in BOOLEAN /\ (p.dirty => p.text = Typed)

PanelInv == PanelOK(panel) /\ PanelShowsItsRow

\* Answers are awaited about the address in the field only.
AddOK(form) ==
  /\ form = [open |-> TRUE, url |-> form.url, title |-> form.title, touched |-> form.touched,
             category |-> form.category, preferred |-> form.preferred, asked |-> form.asked]
  /\ form.url \in Urls \cup {Lines, Empty} /\ form.asked \subseteq {form.url}
  /\ form.category \in Cats /\ form.preferred \in Cats
  /\ IF form.touched THEN form.title = Typed
     ELSE form.touched = FALSE /\ form.title \in {Guessed(form.url), Preview(form.url)}

AddInv == \/ add = NoForm
          \/ AddOK(add) /\ Exists(shown, add.category)

CheckInv ==
  /\ check = [open |-> check.open, checking |-> check.checking, targets |-> check.targets,
              start |-> check.start, got |-> check.got, results |-> check.results,
              error |-> check.error]
  /\ check.targets \in Seq(Sites)
  /\ IF check.checking
       THEN /\ check.start \in 0 .. Len(check.targets)
            /\ check.got = SubSeq(check.targets, 1, check.start) /\ check.results = <<>>
       ELSE check.start = 0 /\ check.got = <<>> /\ check.results \in {<<>>, check.targets}

TargetInv == target \in Items \cup {NoTarget}

FormsInv ==
  /\ PagesInv /\ CallsInv /\ BatchInv /\ PanelInv /\ AddInv /\ CheckInv /\ TargetInv
  /\ DeletedMeansDeleted

-----------------------------------------------------------------------------
(* The checker *)

LEMMA CheckSteady == CheckInv /\ check' = check => CheckInv'
  BY DEF CheckInv

LEMMA OthersKeepCheck ==
  ASSUME PanelSteps \/ RowSteps \/ AddSteps \/ SelectionSteps \/ ServerSteps \/ UNCHANGED vars
  PROVE  check' = check
  <1>1. ASSUME PanelSteps PROVE check' = check
    BY <1>1 DEF PanelSteps, UpdatePanel, HandleSavePanel, HandleDeletePanel, ClosePanel, dialogVars
  <1>2. ASSUME RowSteps PROVE check' = check
    BY <1>2 DEF RowSteps, SiteSteps, CategorySteps, OpenPanel, HandleToggleSiteEnabled,
       HandleToggleCategoryEnabled, ToggleEnabled, AskDelete, HandleToggleSelect, OpenAddSite,
       ConfirmDelete, CancelDelete, HandleCreateCategory, dialogVars
  <1>3. ASSUME AddSteps PROVE check' = check
    BY <1>3 DEF AddSteps, ChooseCategory, TypeUrl, PreviewAnswered, TypeTitle, HandleSubmit,
       HandleDirectoryPick, HandleClose
  <1>4. ASSUME SelectionSteps PROVE check' = check
    BY <1>4 DEF SelectionSteps, HandleSelectAll, HandleBatchSetEnabled, HandleClearSelection,
       HandleBatchDelete, BatchDeleted, BatchSetEnabled, BatchEnabled, dialogVars
  <1>5. ASSUME ServerSteps PROVE check' = check
    BY <1>5 DEF ServerSteps, Answered, Succeeded, FetchAnswered, Render, LayoutSaved,
       ChangedElsewhere, DeletedByAdmin, dialogVars
  <1>6. ASSUME UNCHANGED vars PROVE check' = check
    BY <1>6 DEF vars
  <1> QED BY <1>1, <1>2, <1>3, <1>4, <1>5, <1>6

LEMMA CheckInit == Init => CheckInv
  <1>1. <<>> \in Seq(Sites)
    OBVIOUS
  <1> QED BY <1>1 DEF Init, CheckInv, NoCheck

LEMMA CheckNext ==
  ASSUME CheckInv, PagesInv, [Next]_vars
  PROVE  CheckInv'
  <1>1. ASSUME PanelSteps \/ RowSteps \/ AddSteps \/ SelectionSteps \/ ServerSteps \/ UNCHANGED vars
        PROVE  CheckInv'
    BY <1>1, OthersKeepCheck, CheckSteady
  <1>2. ASSUME OpenCheck \/ CloseCheck PROVE CheckInv'
    <2>1. \E b \in BOOLEAN : check' = [check EXCEPT !.open = b]
      BY <1>2 DEF OpenCheck, CloseCheck
    <2> QED BY <2>1 DEF CheckInv
  <1>3. ASSUME ClearResults PROVE CheckInv'
    BY <1>3 DEF ClearResults, CheckInv
  <1>4. ASSUME NEW on \in BOOLEAN, HandleCheck(on) PROVE CheckInv'
    <2> DEFINE S == {s \in SitesOf(shown) : on => shown.on[s]}
    <2>1. IsFiniteSet(S) /\ S \subseteq Sites
      BY FS_Subset, BoundsAssumption DEF SitesOf
    <2>2. ManagedLinks(on) \in Seq(S)
      BY <2>1, InSequence DEF ManagedLinks
    <2>3. ManagedLinks(on) \in Seq(Sites)
      BY <2>1, <2>2
    <2>4. SubSeq(ManagedLinks(on), 1, 0) = <<>>
      BY <2>3, SubSeqEmpty
    <2>5. check' = [NoCheck EXCEPT !.open = TRUE, !.checking = TRUE, !.targets = ManagedLinks(on)]
      BY <1>4 DEF HandleCheck
    <2>6. PICK t : t = ManagedLinks(on)
      OBVIOUS
    <2>7. check' = [open |-> TRUE, checking |-> TRUE, targets |-> t, start |-> 0, got |-> <<>>,
                    results |-> <<>>, error |-> FALSE]
      BY <2>5, <2>6 DEF NoCheck
    <2>8. t \in Seq(Sites) /\ SubSeq(t, 1, 0) = <<>> /\ 0 \in 0 .. Len(t)
      BY <2>3, <2>4, <2>6
    <2> QED BY <2>7, <2>8 DEF CheckInv
  <1>5. ASSUME PartChecked PROVE CheckInv'
    <2> DEFINE last == Min({check.start + Chunk, Len(check.targets)})
               part == SubSeq(check.targets, check.start + 1, last)
               next == NextPart(check.start)
    <2>1. /\ check.checking /\ check.targets \in Seq(Sites) /\ check.start \in 0 .. Len(check.targets)
          /\ check.got = SubSeq(check.targets, 1, check.start) /\ check.results = <<>>
      BY <1>5 DEF PartChecked, CheckInv
    <2>2. PICK n : n = last
      OBVIOUS
    <2>9. check.start \in Nat /\ Len(check.targets) \in Nat /\ Chunk \in Nat /\ next = check.start + Chunk
      BY <2>1, BoundsAssumption DEF NextPart
    <2>3. /\ n \in check.start .. Len(check.targets)
          /\ next < Len(check.targets) => n = next
          /\ ~(next < Len(check.targets)) => n = Len(check.targets)
          /\ SubSeq(check.targets, 1, check.start) \o SubSeq(check.targets, check.start + 1, n)
             = SubSeq(check.targets, 1, n)
          /\ SubSeq(check.targets, 1, Len(check.targets)) = check.targets
      <3>1. PICK s : s = check.targets
        OBVIOUS
      <3>2. PICK m : m = check.start
        OBVIOUS
      <3>3. s \in Seq(Sites) /\ m \in 0 .. Len(s) /\ n = PartEnd(s, m)
        BY <2>1, <2>2, <3>1, <3>2 DEF PartEnd
      <3>4. /\ n \in m .. Len(s)
            /\ m + Chunk < Len(s) => n = m + Chunk
            /\ m + Chunk >= Len(s) => n = Len(s)
            /\ SubSeq(s, 1, m) \o SubSeq(s, m + 1, n) = SubSeq(s, 1, n)
            /\ SubSeq(s, 1, Len(s)) = s
        BY <3>3, NextOf
      <3>5. (next < Len(s) => m + Chunk < Len(s)) /\ (~(next < Len(s)) => m + Chunk >= Len(s))
        BY <2>9, <3>1, <3>2
      <3> QED BY <2>9, <3>1, <3>2, <3>4, <3>5
    <2>4. check.got \o part = SubSeq(check.targets, 1, n)
      BY <2>1, <2>2, <2>3
    <2>5. \/ /\ next < Len(check.targets)
             /\ check' = [check EXCEPT !.start = next, !.got = @ \o part]
          \/ /\ ~(next < Len(check.targets))
             /\ check' = [check EXCEPT !.checking = FALSE, !.start = 0, !.got = <<>>,
                                       !.results = check.got \o part]
          \/ check' = [check EXCEPT !.checking = FALSE, !.start = 0, !.got = <<>>, !.error = TRUE]
      BY <1>5 DEF PartChecked
    <2> HIDE DEF last, part, next
    <2>6. CASE next < Len(check.targets) /\ check' = [check EXCEPT !.start = next, !.got = @ \o part]
      <3>1. check.got \o part = SubSeq(check.targets, 1, next) /\ next \in 0 .. Len(check.targets)
        BY <2>1, <2>3, <2>4, <2>6
      <3> QED BY <2>1, <2>6, <3>1 DEF CheckInv
    <2>7. CASE /\ ~(next < Len(check.targets))
               /\ check' = [check EXCEPT !.checking = FALSE, !.start = 0, !.got = <<>>,
                                         !.results = check.got \o part]
      <3>1. check.got \o part = check.targets
        BY <2>3, <2>4, <2>7
      <3> QED BY <2>1, <2>7, <3>1 DEF CheckInv
    <2>8. CASE check' = [check EXCEPT !.checking = FALSE, !.start = 0, !.got = <<>>, !.error = TRUE]
      BY <2>1, <2>8 DEF CheckInv
    <2> QED BY <2>5, <2>6, <2>7, <2>8
  <1> QED BY <1>1, <1>2, <1>3, <1>4, <1>5 DEF Next, CheckSteps


-----------------------------------------------------------------------------
(* Pages *)

LEMMA PagesInit == Init => PagesInv
  BY FirstPage DEF Init, PagesInv

LEMMA RowsChange ==
  ASSUME PagesInv, Page(rows'), shown' = shown, fetch' = fetch \/ Invalidate
  PROVE  PagesInv'
  BY DEF PagesInv, Invalidate

\* What the user does changes neither the page nor the cache.
LEMMA CacheStays ==
  ASSUME \/ PanelSteps \/ RowSteps \/ AddSteps \/ CheckSteps \/ UNCHANGED vars
         \/ SelectionSteps /\ ~(\E b \in batches : BatchSetEnabled(b))
  PROVE  UNCHANGED cacheVars
  <1>1. ASSUME PanelSteps PROVE UNCHANGED cacheVars
    BY <1>1 DEF PanelSteps, UpdatePanel, HandleSavePanel, HandleDeletePanel, ClosePanel
  <1>2. ASSUME RowSteps PROVE UNCHANGED cacheVars
    BY <1>2 DEF RowSteps, SiteSteps, CategorySteps, OpenPanel, HandleToggleSiteEnabled,
       HandleToggleCategoryEnabled, ToggleEnabled, AskDelete, HandleToggleSelect, OpenAddSite,
       ConfirmDelete, CancelDelete, HandleCreateCategory
  <1>3. ASSUME AddSteps PROVE UNCHANGED cacheVars
    BY <1>3 DEF AddSteps, ChooseCategory, TypeUrl, PreviewAnswered, TypeTitle, HandleSubmit,
       HandleDirectoryPick, HandleClose
  <1>4. ASSUME SelectionSteps, ~(\E b \in batches : BatchSetEnabled(b)) PROVE UNCHANGED cacheVars
    BY <1>4 DEF SelectionSteps, HandleSelectAll, HandleBatchSetEnabled, HandleClearSelection,
       HandleBatchDelete, BatchDeleted, BatchEnabled
  <1>5. ASSUME CheckSteps PROVE UNCHANGED cacheVars
    BY <1>5 DEF CheckSteps, OpenCheck, CloseCheck, ClearResults, HandleCheck, PartChecked
  <1>6. ASSUME UNCHANGED vars PROVE UNCHANGED cacheVars
    BY <1>6 DEF vars, cacheVars
  <1> QED BY <1>1, <1>2, <1>3, <1>4, <1>5, <1>6

LEMMA PagesNext ==
  ASSUME PagesInv, CallsInv, [Next]_vars
  PROVE  PagesInv' /\ GoneStay(rows, rows')
  <1> USE DEF cacheVars
  <1>1. ASSUME UNCHANGED cacheVars PROVE PagesInv' /\ GoneStay(rows, rows')
    BY <1>1 DEF PagesInv, GoneStay
  <1>2. ASSUME NEW q, Page(q) /\ GoneStay(rows, q), rows' = q, shown' = shown, fetch' = fetch \/ Invalidate
        PROVE  PagesInv' /\ GoneStay(rows, rows')
    BY <1>2, RowsChange
  <1>3. Page(rows)
    BY DEF PagesInv
  <1>4. rows = [revision |-> rows.revision, text |-> rows.text, home |-> rows.home, on |-> rows.on]
    BY <1>3 DEF Page
  <1>5. ASSUME NEW b \in batches, BatchSetEnabled(b) PROVE PagesInv' /\ GoneStay(rows, rows')
    <2>1. CASE UNCHANGED cacheVars
      BY <1>1, <2>1
    <2> DEFINE set == [rows EXCEPT !.revision = @ + 1,
                         !.on = [i \in Items |-> IF i \in b.ids THEN b.on ELSE @[i]]]
    <2>3. \/ Touched /\ rows' = set /\ shown' = shown /\ Invalidate
          \/ Touched /\ rows' = set /\ shown' = shown /\ fetch' = fetch
          \/ UNCHANGED cacheVars
      BY <1>5 DEF BatchSetEnabled
    <2>2. CASE Touched /\ rows' = set /\ shown' = shown /\ (fetch' = fetch \/ Invalidate)
      <3>1. PICK on : on = [i \in Items |-> IF i \in b.ids THEN b.on ELSE rows.on[i]]
        OBVIOUS
      <3>2. on = [i \in Items |-> on[i]]
        BY <3>1
      <3>3. rows' = [revision |-> rows.revision + 1, text |-> rows.text, home |-> rows.home, on |-> on]
        BY <1>4, <2>2, <3>1
      <3>4. Page(rows') /\ GoneStay(rows, rows')
        BY <1>3, <2>2, <3>2, <3>3, SwitchedRows DEF Touched
      <3> QED BY <1>2, <2>2, <3>4
    <2> HIDE DEF set
    <2> QED BY <2>1, <2>2, <2>3
  <1>6. ASSUME NEW call \in calls, Answered(call) PROVE PagesInv' /\ GoneStay(rows, rows')
    <2>1. CASE Refused(call) /\ UNCHANGED rows
      BY <2>1, <1>1 DEF Refused
    <2>2. CASE Accepted(call) /\ Touched /\ rows' = Changed(call)
      <3>1. ChangeOK(call)
        BY DEF CallsInv, CallOK
      <3>2. Page(rows') /\ GoneStay(rows, rows')
        BY <1>3, <2>2, <3>1, ChangedPage
      <3>3. shown' = shown /\ (fetch' = fetch \/ Invalidate)
        BY <1>6 DEF Answered, Refused
      <3> QED BY <1>2, <3>2, <3>3
    <2> QED BY <1>6, <2>1, <2>2 DEF Answered
  <1>7. ASSUME NEW call \in calls, Succeeded(call) PROVE PagesInv' /\ GoneStay(rows, rows')
    BY <1>1, <1>7 DEF Succeeded
  <1>8. ASSUME FetchAnswered PROVE PagesInv' /\ GoneStay(rows, rows')
    BY <1>8 DEF FetchAnswered, PagesInv, GoneStay
  <1>9. ASSUME Render PROVE PagesInv' /\ GoneStay(rows, rows')
    <2>1. fetch = [step |-> "delivered", page |-> fetch.page] /\ Page(fetch.page)
      BY <1>9 DEF Render, PagesInv, NoFetch
    <2> QED BY <1>9, <2>1 DEF Render, PagesInv, GoneStay
  <1>10. ASSUME LayoutSaved PROVE PagesInv' /\ GoneStay(rows, rows')
    <2>1. rows' = [revision |-> rows.revision + 1, text |-> rows.text, home |-> rows.home, on |-> rows.on]
      BY <1>4, <1>10 DEF LayoutSaved
    <2>2. Page(rows') /\ GoneStay(rows, rows')
      BY <1>3, <1>10, <2>1, SwitchedRows DEF LayoutSaved, Touched, Page
    <2> QED BY <1>2, <1>10, <2>2 DEF LayoutSaved
  <1>11. ASSUME NEW s \in Sites, DeletedByAdmin(s) PROVE PagesInv' /\ GoneStay(rows, rows')
    <2>1. rows' = Wrote(rows, s, Gone) /\ Touched /\ shown' = shown /\ fetch' = fetch
      BY <1>11 DEF DeletedByAdmin, Changed, Wrote
    <2>2. s \in Items /\ s \notin Cats
      BY RowsAssumption DEF Items
    <2>3. s # Uncategorized /\ \A x \in SitesOf(rows) : rows.home[x] # s
      BY <1>3, <2>2, UncategorizedIsCategory DEF Page, SitesOf
    <2>4. Page(rows') /\ GoneStay(rows, rows')
      BY <1>3, <2>1, <2>2, <2>3, DeletedRow DEF Touched
    <2> QED BY <1>2, <2>1, <2>4
  <1>12. ASSUME ChangedElsewhere PROVE PagesInv' /\ GoneStay(rows, rows')
    <2>1. \E i \in Items, verb \in {"rename", "switch", "delete"} : \E call :
            /\ call = [verb |-> verb, item |-> i, text |-> RowText("other tab"), on |-> ~rows.on[i]]
            /\ Accepted(call) /\ rows' = Changed(call)
      BY <1>12 DEF ChangedElsewhere
    <2>4. PICK call :
            /\ call.item \in Items /\ call.verb \in {"rename", "switch", "delete"}
            /\ call.text = RowText("other tab") /\ Accepted(call) /\ rows' = Changed(call)
      BY <2>1
    <2>2. ChangeOK(call)
      BY <2>4 DEF ChangeOK, Verbs, NewTexts
    <2>3. Page(rows') /\ GoneStay(rows, rows')
      BY <1>3, <1>12, <2>4, <2>2, ChangedPage DEF ChangedElsewhere
    <2> QED BY <1>2, <1>12, <2>3 DEF ChangedElsewhere
  <1>13. ASSUME ServerSteps PROVE PagesInv' /\ GoneStay(rows, rows')
    BY <1>6, <1>7, <1>8, <1>9, <1>10, <1>11, <1>12, <1>13 DEF ServerSteps
  <1>14. PanelSteps \/ RowSteps \/ AddSteps \/ CheckSteps \/ SelectionSteps \/ ServerSteps \/ UNCHANGED vars
    BY DEF Next
  <1> QED BY <1>1, <1>5, <1>13, <1>14, CacheStays

-----------------------------------------------------------------------------
(* The dialog that adds sites *)

LEMMA FormOpens ==
  /\ NoForm.open = FALSE
  /\ AddInv /\ add.open => AddOK(add) /\ Exists(shown, add.category)
  /\ AddInv => add.asked \subseteq {add.url}
  /\ AddInv /\ add.asked # {} => AddOK(add) /\ Exists(shown, add.category)
  BY DEF NoForm, AddInv, AddOK

\* Its fields
LEMMA FormFields ==
  ASSUME NEW form, AddOK(form)
  PROVE  \E u, t, b, c, d, a :
           /\ form = [open |-> TRUE, url |-> u, title |-> t, touched |-> b, category |-> c,
                      preferred |-> d, asked |-> a]
           /\ u = form.url /\ t = form.title /\ b = form.touched /\ c = form.category
           /\ d = form.preferred /\ a = form.asked
  BY DEF AddOK

LEMMA OthersKeepAdd ==
  ASSUME \/ PanelSteps \/ SelectionSteps \/ CheckSteps \/ UNCHANGED vars
         \/ RowSteps /\ ~(\E c \in Cats : OpenAddSite(c))
         \/ ServerSteps /\ ~Render
  PROVE  add' = add /\ shown' = shown
  <1> USE DEF cacheVars, dialogVars
  <1>1. ASSUME PanelSteps PROVE add' = add /\ shown' = shown
    BY <1>1 DEF PanelSteps, UpdatePanel, HandleSavePanel, HandleDeletePanel, ClosePanel
  <1>2. ASSUME RowSteps, ~(\E c \in Cats : OpenAddSite(c)) PROVE add' = add /\ shown' = shown
    BY <1>2 DEF RowSteps, SiteSteps, CategorySteps, OpenPanel, HandleToggleSiteEnabled,
       HandleToggleCategoryEnabled, ToggleEnabled, AskDelete, HandleToggleSelect,
       ConfirmDelete, CancelDelete, HandleCreateCategory
  <1>4. ASSUME SelectionSteps PROVE add' = add /\ shown' = shown
    BY <1>4 DEF SelectionSteps, HandleSelectAll, HandleBatchSetEnabled, HandleClearSelection,
       HandleBatchDelete, BatchDeleted, BatchSetEnabled, BatchEnabled
  <1>5. ASSUME CheckSteps PROVE add' = add /\ shown' = shown
    BY <1>5 DEF CheckSteps, OpenCheck, CloseCheck, ClearResults, HandleCheck, PartChecked
  <1>6. ASSUME ServerSteps, ~Render PROVE add' = add /\ shown' = shown
    BY <1>6 DEF ServerSteps, Answered, Refused, Succeeded, FetchAnswered, LayoutSaved,
       ChangedElsewhere, DeletedByAdmin
  <1>7. ASSUME UNCHANGED vars PROVE add' = add /\ shown' = shown
    BY <1>7 DEF vars
  <1> QED BY <1>1, <1>2, <1>4, <1>5, <1>6, <1>7

LEMMA AddNext ==
  ASSUME AddInv, PagesInv, [Next]_vars
  PROVE  AddInv'
  <1>1. ASSUME add' = add, shown' = shown PROVE AddInv'
    BY <1>1 DEF AddInv
  <1>2. ASSUME Dismissed PROVE AddInv'
    BY <1>2 DEF Dismissed, AddInv, NoForm
  <1>3. ASSUME NEW form, AddOK(form), Exists(shown, form.category), add' = form, shown' = shown PROVE AddInv'
    BY <1>3 DEF AddInv
  <1>4. ASSUME NEW c \in Cats, OpenAddSite(c) PROVE AddInv'
    <2>1. PICK d : d = PickDefaultCategoryId(shown, c)
      OBVIOUS
    <2>2. d \in Cats /\ Exists(shown, d)
      BY <2>1, UncategorizedIsCategory DEF PickDefaultCategoryId, PagesInv, Page
    <2>3. add' = [open |-> TRUE, url |-> Empty, title |-> Empty, touched |-> FALSE,
                  category |-> d, preferred |-> c, asked |-> {}] /\ shown' = shown
      BY <1>4, <2>1 DEF OpenAddSite, NoForm, cacheVars
    <2>4. Guessed(Empty) = Empty
      BY DEF Guessed
    <2>5. AddOK(add')
      BY <2>2, <2>3, <2>4 DEF AddOK
    <2> QED BY <2>2, <2>3, <2>5 DEF AddInv
  <1>5. ASSUME NEW url \in Urls \cup {Lines, Empty}, TypeUrl(url) PROVE AddInv'
    <2>1. AddOK(add) /\ Exists(shown, add.category) /\ shown' = shown /\ add' = Entered(add, url)
      BY <1>5, FormOpens DEF TypeUrl, cacheVars
    <2>2. PICK t : t = IF add.touched THEN add.title ELSE Guessed(url)
      OBVIOUS
    <2>3. add' = [open |-> TRUE, url |-> url, title |-> t, touched |-> add.touched,
                  category |-> add.category, preferred |-> add.preferred, asked |-> {url} \ {Empty}]
      <3>1. PICK u, tt, b, cc, pp, a :
            /\ add = [open |-> TRUE, url |-> u, title |-> tt, touched |-> b, category |-> cc,
                      preferred |-> pp, asked |-> a]
            /\ u = add.url /\ tt = add.title /\ b = add.touched /\ cc = add.category
            /\ pp = add.preferred /\ a = add.asked
        BY <2>1, FormFields
      <3> QED BY <2>1, <2>2, <3>1 DEF Entered
    <2>4. AddOK(add')
      BY <2>1, <2>2, <2>3 DEF AddOK
    <2> QED BY <2>1, <2>3, <2>4 DEF AddInv
  <1>6. ASSUME NEW url \in Urls \cup {Lines, Empty}, PreviewAnswered(url) PROVE AddInv'
    <2>1. url \in add.asked /\ shown' = shown
      BY <1>6 DEF PreviewAnswered, cacheVars
    <2>2. AddOK(add) /\ Exists(shown, add.category)
      BY <2>1, FormOpens
    <2>3. PICK t \in {add.title} \cup (IF add.touched THEN {} ELSE {Preview(url)}) :
            add' = [add EXCEPT !.asked = @ \ {url}, !.title = t]
      BY <1>6 DEF PreviewAnswered
    <2>4. add' = [open |-> TRUE, url |-> add.url, title |-> t, touched |-> add.touched,
                  category |-> add.category, preferred |-> add.preferred, asked |-> add.asked \ {url}]
      <3>1. PICK u, tt, b, cc, pp, a :
            /\ add = [open |-> TRUE, url |-> u, title |-> tt, touched |-> b, category |-> cc,
                      preferred |-> pp, asked |-> a]
            /\ u = add.url /\ tt = add.title /\ b = add.touched /\ cc = add.category
            /\ pp = add.preferred /\ a = add.asked
        BY <2>2, FormFields
      <3> QED BY <2>3, <3>1
    <2>5. url = add.url
      BY <2>1, <2>2 DEF AddOK
    <2>6. IF add.touched THEN t = Typed
          ELSE add.touched = FALSE /\ t \in {Guessed(add.url), Preview(add.url)}
      BY <2>2, <2>3, <2>5 DEF AddOK
    <2>7. AddOK(add')
      BY <2>2, <2>4, <2>6 DEF AddOK
    <2> QED BY <2>1, <2>2, <2>4, <2>7 DEF AddInv
  <1>7. ASSUME TypeTitle PROVE AddInv'
    <2>1. AddOK(add) /\ Exists(shown, add.category) /\ shown' = shown
      BY <1>7, FormOpens DEF TypeTitle, cacheVars
    <2>2. add' = [open |-> TRUE, url |-> add.url, title |-> Typed, touched |-> TRUE,
                  category |-> add.category, preferred |-> add.preferred, asked |-> add.asked]
      BY <1>7, <2>1 DEF TypeTitle, AddOK
    <2>3. AddOK(add')
      BY <2>1, <2>2 DEF AddOK
    <2> QED BY <2>1, <2>2, <2>3 DEF AddInv
  <1>8. ASSUME NEW c \in Cats, ChooseCategory(c) PROVE AddInv'
    <2>1. AddOK(add) /\ Exists(shown, c) /\ shown' = shown
      BY <1>8, FormOpens DEF ChooseCategory, cacheVars
    <2>2. add' = [open |-> TRUE, url |-> add.url, title |-> add.title, touched |-> add.touched,
                  category |-> c, preferred |-> add.preferred, asked |-> add.asked]
      BY <1>8, <2>1 DEF ChooseCategory, AddOK
    <2>3. AddOK(add')
      BY <2>1, <2>2 DEF AddOK
    <2> QED BY <2>1, <2>2, <2>3 DEF AddInv
  <1>9. ASSUME Render PROVE AddInv'
    <2>1. fetch = [step |-> "delivered", page |-> fetch.page] /\ Page(fetch.page) /\ Page(shown)
      BY <1>9 DEF Render, PagesInv, NoFetch
    <2>2. PICK p, q : p = fetch.page /\ q = shown
      OBVIOUS
    <2>3. Page(p) /\ Page(q) /\ shown' = p
      BY <1>9, <2>1, <2>2 DEF Render
    <2>4. CASE [p EXCEPT !.revision = 0] = [q EXCEPT !.revision = 0] /\ add' = add
      <3>1. [p EXCEPT !.revision = 0].text = p.text /\ [q EXCEPT !.revision = 0].text = q.text
        BY <2>3 DEF Page
      <3>2. p.text = q.text
        BY <2>4, <3>1
      <3>3. \A i : Exists(p, i) <=> Exists(q, i)
        BY <3>2 DEF Exists
      <3> QED BY <2>2, <2>3, <2>4, <3>3 DEF AddInv
    <2>5. CASE add' = CategorySynced(add, p)
      <3>1. CASE add = NoForm
        BY <2>5, <3>1 DEF CategorySynced, AddInv, NoForm
      <3>2. CASE AddOK(add)
        <4>1. PICK d : d = PickDefaultCategoryId(p, add.preferred)
          OBVIOUS
        <4>2. d \in Cats /\ Exists(p, d)
          BY <2>3, <3>2, <4>1, UncategorizedIsCategory DEF PickDefaultCategoryId, Page, AddOK
        <4>3. add' = [open |-> TRUE, url |-> add.url, title |-> add.title, touched |-> add.touched,
                      category |-> d, preferred |-> add.preferred, asked |-> add.asked]
          <5>1. PICK u, tt, b, cc, pp, a :
              /\ add = [open |-> TRUE, url |-> u, title |-> tt, touched |-> b, category |-> cc,
                        preferred |-> pp, asked |-> a]
              /\ u = add.url /\ tt = add.title /\ b = add.touched /\ cc = add.category
              /\ pp = add.preferred /\ a = add.asked
            BY <3>2, FormFields
          <5> QED BY <2>5, <4>1, <5>1 DEF CategorySynced
        <4>4. AddOK(add')
          BY <3>2, <4>2, <4>3 DEF AddOK
        <4> QED BY <2>3, <4>2, <4>3, <4>4 DEF AddInv
      <3> QED BY <3>1, <3>2 DEF AddInv
    <2> QED BY <1>9, <2>2, <2>4, <2>5 DEF Render
  <1>10. ASSUME AddSteps PROVE AddInv'
    BY <1>2, <1>5, <1>6, <1>7, <1>8, <1>10 DEF AddSteps, HandleSubmit, HandleDirectoryPick, HandleClose
  <1>11. PanelSteps \/ RowSteps \/ AddSteps \/ CheckSteps \/ SelectionSteps \/ ServerSteps \/ UNCHANGED vars
    BY DEF Next
  <1> QED BY <1>1, <1>4, <1>9, <1>10, <1>11, OthersKeepAdd

-----------------------------------------------------------------------------
(* The panel, and what is to be deleted *)

LEMMA LoadedOK ==
  ASSUME NEW p, PanelOK(p), NEW page, NEW q, q = Loaded(p, page)
  PROVE  /\ PanelOK(q)
         /\ q.open /\ ~q.dirty /\ Exists(page, q.item) => q.text = page.text[q.item]
  <1>1. CASE p.open /\ Exists(page, p.item)
    <2>1. p = [open |-> TRUE, item |-> p.item, text |-> p.text, dirty |-> p.dirty] /\ p.item \in Items
      BY <1>1 DEF PanelOK, Closed
    <2>2. q = [open |-> TRUE, item |-> p.item, text |-> page.text[p.item], dirty |-> FALSE]
      BY <1>1, <2>1 DEF Loaded
    <2> QED BY <2>1, <2>2 DEF PanelOK
  <1>2. CASE ~(p.open /\ Exists(page, p.item))
    BY <1>2 DEF Loaded
  <1> QED BY <1>1, <1>2

LEMMA PanelLoads ==
  ASSUME NEW p, PanelOK(p), panel' = Loaded(p, shown')
  PROVE  PanelInv'
  BY LoadedOK DEF PanelInv, PanelShowsItsRow

LEMMA OthersKeepPanel ==
  ASSUME \/ AddSteps \/ CheckSteps \/ UNCHANGED vars
         \/ RowSteps /\ ~((\E i \in Items : OpenPanel(i)) \/ ConfirmDelete \/ CancelDelete)
         \/ SelectionSteps
         \/ ServerSteps /\ ~(\E call \in calls : Succeeded(call))
  PROVE  UNCHANGED <<panel, shown>> \/ Rendered
  <1> USE DEF cacheVars
  <1>2. ASSUME RowSteps, ~((\E i \in Items : OpenPanel(i)) \/ ConfirmDelete \/ CancelDelete)
        PROVE UNCHANGED <<panel, shown>>
    BY <1>2 DEF RowSteps, SiteSteps, CategorySteps, HandleToggleSiteEnabled, Items,
       HandleToggleCategoryEnabled, ToggleEnabled, AskDelete, HandleToggleSelect, OpenAddSite,
       HandleCreateCategory
  <1>3. ASSUME AddSteps PROVE UNCHANGED <<panel, shown>>
    BY <1>3 DEF AddSteps, ChooseCategory, TypeUrl, PreviewAnswered, TypeTitle, HandleSubmit,
       HandleDirectoryPick, HandleClose
  <1>4. ASSUME SelectionSteps PROVE UNCHANGED <<panel, shown>> \/ Rendered
    BY <1>4 DEF SelectionSteps, HandleSelectAll, HandleBatchSetEnabled, HandleClearSelection,
       HandleBatchDelete, BatchDeleted, BatchSetEnabled, BatchEnabled
  <1>5. ASSUME CheckSteps PROVE UNCHANGED <<panel, shown>>
    BY <1>5 DEF CheckSteps, OpenCheck, CloseCheck, ClearResults, HandleCheck, PartChecked
  <1>6. ASSUME ServerSteps, ~(\E call \in calls : Succeeded(call)) PROVE UNCHANGED <<panel, shown>> \/ Rendered
    BY <1>6 DEF ServerSteps, Answered, Refused, FetchAnswered, Render, LayoutSaved,
       ChangedElsewhere, DeletedByAdmin
  <1>7. ASSUME UNCHANGED vars PROVE UNCHANGED <<panel, shown>>
    BY <1>7 DEF vars
  <1> QED BY <1>2, <1>3, <1>4, <1>5, <1>6, <1>7

LEMMA PanelNext ==
  ASSUME PanelInv, TargetInv, [Next]_vars
  PROVE  PanelInv' /\ TargetInv'
  <1> USE DEF cacheVars
  <1>1. ASSUME UNCHANGED <<panel, shown>> PROVE PanelInv'
    BY <1>1 DEF PanelInv, PanelShowsItsRow
  <1>2. ASSUME Rendered PROVE PanelInv'
    BY <1>2, PanelLoads DEF Rendered, PanelInv
  <1>3. ASSUME panel' = Closed PROVE PanelInv'
    BY <1>3 DEF PanelInv, PanelOK, PanelShowsItsRow, Closed
  <1>4. ASSUME NEW i \in Items, OpenPanel(i) PROVE PanelInv'
    BY <1>4 DEF OpenPanel, PanelInv, PanelOK, PanelShowsItsRow
  <1>5. ASSUME panel.open
        PROVE  panel = [open |-> TRUE, item |-> panel.item, text |-> panel.text, dirty |-> panel.dirty]
               /\ panel.item \in Items /\ (panel.dirty => panel.text = Typed)
    BY <1>5 DEF PanelInv, PanelOK, Closed
  <1>6. ASSUME UpdatePanel PROVE PanelInv'
    <2>1. panel' = [open |-> TRUE, item |-> panel.item, text |-> Typed, dirty |-> TRUE] /\ panel.item \in Items
      BY <1>5, <1>6 DEF UpdatePanel
    <2> QED BY <2>1 DEF PanelInv, PanelOK, PanelShowsItsRow
  <1>7. ASSUME HandleSavePanel PROVE PanelInv'
    <2>1. PICK p : p = [panel EXCEPT !.dirty = FALSE]
      OBVIOUS
    <2>2. p = [open |-> TRUE, item |-> panel.item, text |-> panel.text, dirty |-> FALSE] /\ panel.item \in Items
      BY <1>5, <1>7, <2>1 DEF HandleSavePanel
    <2>3. PanelOK(p)
      BY <2>2 DEF PanelOK
    <2>4. panel' = Loaded(p, shown')
      BY <1>7, <2>1 DEF HandleSavePanel
    <2> QED BY <2>3, <2>4, PanelLoads
  <1>8. ASSUME PanelSteps PROVE PanelInv'
    BY <1>2, <1>3, <1>6, <1>7, <1>8 DEF PanelSteps, HandleDeletePanel, ClosePanel
  <1>9. ASSUME ConfirmDelete \/ CancelDelete PROVE PanelInv'
    <2>1. panel' = Closed \/ panel' = Loaded(panel, shown')
      BY <1>9 DEF ConfirmDelete, CancelDelete, Rendered
    <2> QED BY <1>2, <1>3, <2>1 DEF Rendered
  <1>10. ASSUME NEW call \in calls, Succeeded(call) PROVE PanelInv'
    <2>1. panel' = Closed \/ panel' = Loaded(panel, shown')
      BY <1>10 DEF Succeeded
    <2> QED BY <1>2, <1>3, <2>1 DEF Rendered
  <1>11. PanelSteps \/ RowSteps \/ AddSteps \/ CheckSteps \/ SelectionSteps \/ ServerSteps \/ UNCHANGED vars
    BY DEF Next
  <1>12. PanelInv'
    BY <1>1, <1>2, <1>4, <1>8, <1>9, <1>10, <1>11, OthersKeepPanel
  <1> USE DEF TargetInv
  <1>13. ASSUME PanelSteps PROVE TargetInv'
    BY <1>5, <1>13 DEF PanelSteps, UpdatePanel, HandleSavePanel, HandleDeletePanel, ClosePanel, dialogVars
  <1>14. ASSUME RowSteps PROVE TargetInv'
    BY <1>14 DEF RowSteps, SiteSteps, CategorySteps, OpenPanel, HandleToggleSiteEnabled, Items,
       HandleToggleCategoryEnabled, ToggleEnabled, AskDelete, HandleToggleSelect, OpenAddSite,
       ConfirmDelete, CancelDelete, HandleCreateCategory, dialogVars
  <1>15. ASSUME AddSteps PROVE TargetInv'
    BY <1>15 DEF AddSteps, ChooseCategory, TypeUrl, PreviewAnswered, TypeTitle, HandleSubmit,
       HandleDirectoryPick, HandleClose
  <1>16. ASSUME SelectionSteps PROVE TargetInv'
    BY <1>16 DEF SelectionSteps, HandleSelectAll, HandleBatchSetEnabled, HandleClearSelection,
       HandleBatchDelete, BatchDeleted, BatchSetEnabled, BatchEnabled, dialogVars
  <1>17. ASSUME CheckSteps PROVE TargetInv'
    BY <1>17 DEF CheckSteps, OpenCheck, CloseCheck, ClearResults, HandleCheck, PartChecked
  <1>18. ASSUME ServerSteps PROVE TargetInv'
    BY <1>18 DEF ServerSteps, Answered, Succeeded, FetchAnswered, Render, LayoutSaved,
       ChangedElsewhere, DeletedByAdmin, dialogVars
  <1>19. ASSUME UNCHANGED vars PROVE TargetInv'
    BY <1>19 DEF vars
  <1>20. TargetInv'
    BY <1>11, <1>13, <1>14, <1>15, <1>16, <1>17, <1>18, <1>19
  <1> QED BY <1>12, <1>20

-----------------------------------------------------------------------------
(* Calls *)

\* The same call, as far as the server is concerned.
SameCall(c, d) ==
  /\ d = [id |-> d.id, verb |-> d.verb, item |-> d.item, text |-> d.text, on |-> d.on,
          closes |-> d.closes, step |-> d.step]
  /\ d.id = c.id /\ d.verb = c.verb /\ d.item = c.item /\ d.text = c.text /\ d.step = c.step

LEMMA CallLater ==
  ASSUME NEW c, NEW d, CallOK(c), SameCall(c, d), GoneStay(rows, rows'),
         sent \in Nat, sent' \in Nat, sent <= sent'
  PROVE  CallOK(d)'
  <1>1. ChangeOK(d)
    BY DEF CallOK, ChangeOK, SameCall
  <1>2. d.id \in 1 .. sent'
    BY DEF CallOK, SameCall
  <1>3. d.step = "refetch" /\ d.verb = "delete" => rows'.text[d.item] = Gone
    BY DEF CallOK, SameCall, GoneStay, ChangeOK
  <1> QED BY <1>1, <1>2, <1>3 DEF CallOK, SameCall

LEMMA CallFields ==
  ASSUME NEW c, CallOK(c)
  PROVE  \E id, verb, item, text, on, closes, step :
           /\ c = [id |-> id, verb |-> verb, item |-> item, text |-> text, on |-> on,
                   closes |-> closes, step |-> step]
           /\ id = c.id /\ verb = c.verb /\ item = c.item /\ text = c.text /\ step = c.step
  BY DEF CallOK

LEMMA CallsStay ==
  ASSUME CallsInv, calls' = calls, sent' \in Nat, sent <= sent', GoneStay(rows, rows')
  PROVE  CallsInv'
  <1>1. ASSUME NEW c \in calls PROVE CallOK(c)'
    <2>1. CallOK(c) /\ SameCall(c, c)
      BY DEF CallsInv, CallOK, SameCall
    <2> QED BY <2>1, CallLater DEF CallsInv
  <1> QED BY <1>1 DEF CallsInv

\* What happens to calls that wait, whoever sends a new one.
Kept == \A c \in calls : \E d \in calls' : SameCall(c, d)

LEMMA Sending ==
  ASSUME CallsInv, UNCHANGED rows, NEW verb, NEW i, NEW text, NEW on, Send(verb, i, text, on),
         ChangeOK([verb |-> verb, item |-> i, text |-> text])
  PROVE  CallsInv' /\ Kept /\ sent <= sent'
  <1> DEFINE new == [id |-> sent + 1, verb |-> verb, item |-> i, text |-> text, on |-> on,
                     closes |-> verb = "rename", step |-> "sent"]
             Heard(c) == [c EXCEPT !.closes = @ /\ ~SameHook(c, verb, i)]
  <1>1. /\ calls' = {Heard(c) : c \in calls} \cup {new}
        /\ sent' = sent + 1 /\ sent \in Nat
    BY DEF Send, CallsInv
  <1>2. GoneStay(rows, rows')
    BY DEF GoneStay
  <1>3. ASSUME NEW c \in calls PROVE CallOK(c) /\ SameCall(c, Heard(c))
    <2>1. CallOK(c)
      BY DEF CallsInv
    <2>2. PICK id, v, item, t, o, closes, step :
            /\ c = [id |-> id, verb |-> v, item |-> item, text |-> t, on |-> o,
                    closes |-> closes, step |-> step]
            /\ id = c.id /\ v = c.verb /\ item = c.item /\ t = c.text /\ step = c.step
      BY <2>1, CallFields
    <2>3. PICK b : b = (c.closes /\ ~SameHook(c, verb, i))
      OBVIOUS
    <2>4. Heard(c) = [id |-> id, verb |-> v, item |-> item, text |-> t, on |-> o,
                      closes |-> b, step |-> step]
      BY <2>2, <2>3
    <2> QED BY <2>1, <2>2, <2>4 DEF SameCall
  <1>4. ChangeOK(new)
    BY DEF ChangeOK
  <1>5. PICK m : m = new
    OBVIOUS
  <1>6. m.id = sent + 1 /\ m.id \in 1 .. sent'
    BY <1>1, <1>5
  <1>12. CallOK(m)'
    <2>1. /\ m = [id |-> m.id, verb |-> m.verb, item |-> m.item, text |-> m.text, on |-> m.on,
                  closes |-> m.closes, step |-> m.step]
          /\ m.step = "sent"
      BY <1>5
    <2> QED BY <1>4, <1>5, <1>6, <2>1 DEF CallOK
  <1> HIDE DEF new, Heard
  <1>7. ASSUME NEW c \in calls, NEW d, d = Heard(c) PROVE CallOK(d)' /\ d \in calls'
    BY <1>1, <1>2, <1>3, <1>7, CallLater
  <1>13. ASSUME NEW d \in calls' PROVE d = m \/ \E c \in calls : d = Heard(c)
    BY <1>1, <1>5
  <1>8. \A c \in calls : c.id \in 1 .. sent /\ Heard(c).id = c.id
    BY <1>3 DEF CallOK, SameCall
  <1>9. \A c, d \in calls' : c.id = d.id => c = d
    BY <1>1, <1>6, <1>8, <1>13 DEF CallsInv
  <1>10. \A c \in calls' : CallOK(c)'
    BY <1>7, <1>12, <1>13
  <1>11. Kept
    BY <1>3, <1>7 DEF Kept
  <1> QED BY <1>1, <1>9, <1>10, <1>11 DEF CallsInv

\* Several requests at once, one for each element of a sequence.
LEMMA SendingMany ==
  ASSUME CallsInv, UNCHANGED rows, NEW len \in Nat, NEW f, sent' = sent + len,
         calls' = calls \cup {f[n] : n \in 1 .. len},
         \A n \in 1 .. len : f[n].id = sent + n,
         \A n \in 1 .. len :
           /\ f[n] = [id |-> f[n].id, verb |-> f[n].verb, item |-> f[n].item, text |-> f[n].text,
                      on |-> f[n].on, closes |-> f[n].closes, step |-> f[n].step]
           /\ ChangeOK(f[n]) /\ f[n].step = "sent"
  PROVE  CallsInv' /\ Kept /\ sent <= sent'
  <1>1. sent \in Nat /\ sent' \in Nat /\ sent <= sent' /\ GoneStay(rows, rows')
    BY DEF CallsInv, GoneStay
  <1>2. ASSUME NEW c \in calls PROVE CallOK(c)' /\ SameCall(c, c) /\ c.id \in 1 .. sent
    <2>1. CallOK(c) /\ SameCall(c, c)
      BY DEF CallsInv, CallOK, SameCall
    <2> QED BY <1>1, <2>1, CallLater DEF CallOK
  <1>3. ASSUME NEW n \in 1 .. len PROVE CallOK(f[n])'
    <2>1. sent + n \in 1 .. sent'
      BY <1>1
    <2> QED BY <2>1 DEF CallOK
  <1>9. \A n \in 1 .. len : n \in Nat /\ n >= 1 /\ f[n].id = sent + n
    OBVIOUS
  <1>4. \A n \in 1 .. len : f[n].id \notin 1 .. sent
    BY <1>1, <1>9
  <1>5. \A m, n \in 1 .. len : f[m].id = f[n].id => m = n
    BY <1>1, <1>9
  <1>6. \A c, d \in calls' : c.id = d.id => c = d
    BY <1>2, <1>4, <1>5 DEF CallsInv
  <1>7. \A c \in calls' : CallOK(c)'
    BY <1>2, <1>3
  <1>8. Kept
    BY <1>2 DEF Kept
  <1> QED BY <1>1, <1>6, <1>7, <1>8 DEF CallsInv

LEMMA CallsEnd ==
  ASSUME CallsInv, GoneStay(rows, rows'), NEW call \in calls, calls' = calls \ {call}, sent' = sent
  PROVE  CallsInv'
  <1>1. ASSUME NEW c \in calls PROVE CallOK(c)'
    <2>1. CallOK(c) /\ SameCall(c, c)
      BY DEF CallsInv, CallOK, SameCall
    <2> QED BY <2>1, CallLater DEF CallsInv
  <1> QED BY <1>1 DEF CallsInv

LEMMA CallAccepted ==
  ASSUME CallsInv, GoneStay(rows, rows'), NEW call \in calls, sent' = sent,
         call.verb = "delete" => rows'.text[call.item] = Gone,
         calls' = (calls \ {call}) \cup {[call EXCEPT !.step = "refetch"]}
  PROVE  CallsInv' /\ \A c \in calls : \E d \in calls' : d.id = c.id /\ d.verb = c.verb /\ d.item = c.item
  <1>1. ASSUME NEW c \in calls PROVE CallOK(c)'
    <2>1. CallOK(c) /\ SameCall(c, c)
      BY DEF CallsInv, CallOK, SameCall
    <2> QED BY <2>1, CallLater DEF CallsInv
  <1>2. PICK id, verb, item, text, on, closes, step :
          /\ call = [id |-> id, verb |-> verb, item |-> item, text |-> text, on |-> on,
                     closes |-> closes, step |-> step]
          /\ id = call.id /\ verb = call.verb /\ item = call.item /\ text = call.text /\ step = call.step
    BY CallFields DEF CallsInv
  <1>3. PICK new : new = [call EXCEPT !.step = "refetch"]
    OBVIOUS
  <1>4. new = [id |-> id, verb |-> verb, item |-> item, text |-> text, on |-> on,
               closes |-> closes, step |-> "refetch"]
    BY <1>2, <1>3
  <1>5. ChangeOK(call) /\ id \in 1 .. sent
    BY <1>2 DEF CallsInv, CallOK
  <1>6. ChangeOK(new)
    BY <1>2, <1>4, <1>5 DEF ChangeOK
  <1>7. CallOK(new)'
    BY <1>2, <1>4, <1>5, <1>6 DEF CallOK
  <1>8. calls' = (calls \ {call}) \cup {new} /\ new.id = call.id /\ new.verb = call.verb /\ new.item = call.item
    BY <1>2, <1>3, <1>4
  <1>9. \A c, d \in calls' : c.id = d.id => c = d
    BY <1>8 DEF CallsInv
  <1> QED BY <1>1, <1>7, <1>8, <1>9 DEF CallsInv

-----------------------------------------------------------------------------
(* Batches *)

LEMMA BatchLater ==
  ASSUME CallsInv, NEW b, BatchOK(b), GoneStay(rows, rows'), sent' \in Nat, sent <= sent',
         \A c \in calls : \E d \in calls' : d.id = c.id /\ d.verb = c.verb /\ d.item = c.item
  PROVE  BatchOK(b)'
  <1>1. ASSUME DeletionOK(b) PROVE DeletionOK(b)'
    <2>1. b.waiting \subseteq 1 .. sent'
      BY <1>1 DEF DeletionOK, CallsInv
    <2>2. ASSUME NEW s \in b.ids
          PROVE  \/ b.failed \/ rows'.text[s] = Gone
                 \/ \E c \in calls' : c.verb = "delete" /\ c.item = s /\ c.id \in b.waiting
      <3>1. s \in Items
        BY <1>1 DEF DeletionOK, Items
      <3>2. rows.text[s] = Gone => rows'.text[s] = Gone
        BY <3>1 DEF GoneStay
      <3> QED BY <1>1, <3>2 DEF DeletionOK
    <2> QED BY <1>1, <2>1, <2>2 DEF DeletionOK
  <1> QED BY <1>1 DEF BatchOK

LEMMA BatchesLater ==
  ASSUME BatchInv, CallsInv, batches' = batches, selected' \subseteq Sites, told' \subseteq Sites,
         GoneStay(rows, rows'), sent' \in Nat, sent <= sent',
         \A c \in calls : \E d \in calls' : d.id = c.id /\ d.verb = c.verb /\ d.item = c.item
  PROVE  BatchInv'
  <1>1. ASSUME NEW b \in batches PROVE BatchOK(b)'
    BY BatchLater DEF BatchInv
  <1> QED BY <1>1 DEF BatchInv

\* A promise of allSettled ends: with a row that is gone, or as a failure.
LEMMA BatchSettled ==
  ASSUME CallsInv, NEW b, BatchOK(b), NEW call \in calls, NEW failed \in BOOLEAN,
         calls' = calls \ {call}, sent' = sent, GoneStay(rows, rows'),
         failed \/ (call.verb = "delete" => rows'.text[call.item] = Gone),
         NEW new, new = Settled(b, call, failed)
  PROVE  BatchOK(new)'
  <1>1. CASE b.step # "deleting"
    <2>1. new = b
      BY <1>1 DEF Settled
    <2> QED BY <1>1, <2>1 DEF BatchOK
  <1>2. CASE b.step = "deleting"
    <2>1. PICK id, ids, waiting, fail :
            /\ b = [id |-> id, step |-> "deleting", ids |-> ids, waiting |-> waiting, failed |-> fail]
            /\ ids = b.ids /\ waiting = b.waiting /\ fail = b.failed
      BY <1>2 DEF BatchOK
    <2>2. /\ ids \subseteq Sites /\ waiting \subseteq 1 .. sent /\ fail \in BOOLEAN
          /\ \A s \in ids : \/ fail \/ rows.text[s] = Gone
                            \/ \E c \in calls : c.verb = "delete" /\ c.item = s /\ c.id \in waiting
      BY <1>2, <2>1 DEF BatchOK, DeletionOK
    <2>3. \A s \in ids : rows.text[s] = Gone => rows'.text[s] = Gone
      BY <2>2 DEF GoneStay, Items
    <2>4. CASE call.id \in waiting
      <3>1. new = [id |-> id, step |-> "deleting", ids |-> ids, waiting |-> waiting \ {call.id},
                   failed |-> fail \/ failed]
        BY <2>1, <2>4 DEF Settled
      <3>2. ASSUME NEW s \in ids, ~(fail \/ failed), rows'.text[s] # Gone
            PROVE  \E c \in calls' : c.verb = "delete" /\ c.item = s /\ c.id \in waiting \ {call.id}
        <4>1. PICK c \in calls : c.verb = "delete" /\ c.item = s /\ c.id \in waiting
          BY <2>2, <2>3, <3>2
        <4>2. c # call
          BY <3>2, <4>1
        <4> QED BY <4>1, <4>2 DEF CallsInv
      <3>3. new.ids = ids /\ new.waiting = waiting \ {call.id} /\ new.failed = (fail \/ failed)
        BY <3>1
      <3>4. (fail \/ failed) \in BOOLEAN /\ waiting \ {call.id} \subseteq 1 .. sent'
        BY <2>2
      <3>5. DeletionOK(new)'
        BY <2>2, <3>2, <3>3, <3>4 DEF DeletionOK
      <3>6. new = [id |-> new.id, step |-> "deleting", ids |-> new.ids, waiting |-> new.waiting,
                   failed |-> new.failed]
        BY <3>1
      <3> QED BY <3>5, <3>6 DEF BatchOK
    <2>5. CASE call.id \notin waiting
      <3>1. new = b
        BY <2>1, <2>5 DEF Settled
      <3>2. ASSUME NEW s \in ids, ~fail, rows'.text[s] # Gone
            PROVE  \E c \in calls' : c.verb = "delete" /\ c.item = s /\ c.id \in waiting
        BY <2>2, <2>3, <2>5, <3>2
      <3>3. DeletionOK(new)'
        BY <2>1, <2>2, <3>1, <3>2 DEF DeletionOK
      <3> QED BY <2>1, <3>1, <3>3 DEF BatchOK
    <2> QED BY <2>4, <2>5
  <1> QED BY <1>1, <1>2

LEMMA BatchesSettled ==
  ASSUME BatchInv, CallsInv, NEW call \in calls, NEW failed \in BOOLEAN,
         batches' = {Settled(b, call, failed) : b \in batches}, calls' = calls \ {call}, sent' = sent,
         selected' = selected, told' = told, GoneStay(rows, rows'),
         failed \/ (call.verb = "delete" => rows'.text[call.item] = Gone)
  PROVE  BatchInv'
  <1>1. ASSUME NEW new \in batches' PROVE BatchOK(new)'
    <2>1. PICK b \in batches : new = Settled(b, call, failed)
      OBVIOUS
    <2> QED BY <2>1, BatchSettled DEF BatchInv
  <1> QED BY <1>1 DEF BatchInv

\* What the user does that sends nothing and begins no batch.
Quiet ==
  /\ calls' = calls /\ sent' = sent /\ batches' = batches /\ told' = told /\ selected' \subseteq Sites

Others ==
  \/ UpdatePanel \/ HandleDeletePanel \/ ClosePanel
  \/ (\E i \in Items : OpenPanel(i) \/ AskDelete(i))
  \/ (\E s \in Sites : HandleToggleSelect(s) \/ DeletedByAdmin(s))
  \/ (\E c \in Cats : OpenAddSite(c) \/ ChooseCategory(c)) \/ CancelDelete
  \/ (\E url \in Urls \cup {Lines, Empty} : TypeUrl(url) \/ PreviewAnswered(url))
  \/ TypeTitle \/ HandleClose
  \/ (\E visible \in Visible : HandleSelectAll(visible)) \/ HandleClearSelection
  \/ CheckSteps \/ FetchAnswered \/ Render \/ LayoutSaved \/ ChangedElsewhere \/ UNCHANGED vars

Sends ==
  \/ HandleSavePanel \/ (\E i \in Items : ToggleEnabled(i)) \/ ConfirmDelete \/ HandleCreateCategory
  \/ HandleSubmit \/ HandleDirectoryPick

Batches ==
  \/ HandleBatchDelete \/ (\E on \in BOOLEAN : HandleBatchSetEnabled(on))
  \/ \E b \in batches : BatchDeleted(b) \/ BatchSetEnabled(b) \/ BatchEnabled(b)

LEMMA StepsAre ==
  [Next]_vars => Others \/ Sends \/ Batches \/ \E call \in calls : Answered(call) \/ Succeeded(call)
  <1>1. PanelSteps => Others \/ Sends
    BY DEF PanelSteps, Others, Sends
  <1>2. ASSUME NEW s \in Sites, SiteSteps(s) PROVE Others \/ Sends
    <2>1. s \in Items
      BY DEF Items
    <2> QED BY <1>2, <2>1 DEF SiteSteps, HandleToggleSiteEnabled, Others, Sends
  <1>3. ASSUME NEW c \in Cats, CategorySteps(c) PROVE Others \/ Sends
    <2>1. c \in Items
      BY DEF Items
    <2> QED BY <1>3, <2>1 DEF CategorySteps, HandleToggleCategoryEnabled, Others, Sends
  <1>4. RowSteps => Others \/ Sends
    BY <1>2, <1>3 DEF RowSteps, Others, Sends
  <1>5. AddSteps => Others \/ Sends
    BY DEF AddSteps, Others, Sends
  <1>6. SelectionSteps => Others \/ Batches
    BY DEF SelectionSteps, Others, Batches
  <1>7. ServerSteps => Others \/ \E call \in calls : Answered(call) \/ Succeeded(call)
    BY DEF ServerSteps, Others
  <1>8. CheckSteps \/ UNCHANGED vars => Others
    BY DEF Others
  <1> QED BY <1>1, <1>4, <1>5, <1>6, <1>7, <1>8 DEF Next

LEMMA OthersAreQuiet ==
  ASSUME BatchInv, Others
  PROVE  Quiet
  <1> USE DEF callVars, batchVars
  <1>1. selected \subseteq Sites
    BY DEF BatchInv
  <1>2. ASSUME UpdatePanel \/ HandleDeletePanel \/ ClosePanel PROVE Quiet
    BY <1>1, <1>2 DEF UpdatePanel, HandleDeletePanel, ClosePanel, Quiet
  <1>3. ASSUME NEW i \in Items, OpenPanel(i) \/ AskDelete(i) PROVE Quiet
    BY <1>1, <1>3 DEF OpenPanel, AskDelete, Quiet
  <1>4. ASSUME NEW s \in Sites, HandleToggleSelect(s) \/ DeletedByAdmin(s) PROVE Quiet
    BY <1>1, <1>4 DEF HandleToggleSelect, DeletedByAdmin, Quiet
  <1>5. ASSUME NEW c \in Cats, OpenAddSite(c) \/ ChooseCategory(c) PROVE Quiet
    BY <1>1, <1>5 DEF OpenAddSite, ChooseCategory, Quiet
  <1>6. ASSUME NEW url, TypeUrl(url) \/ PreviewAnswered(url) PROVE Quiet
    BY <1>1, <1>6 DEF TypeUrl, PreviewAnswered, Quiet
  <1>7. ASSUME CancelDelete \/ TypeTitle \/ HandleClose PROVE Quiet
    BY <1>1, <1>7 DEF CancelDelete, TypeTitle, HandleClose, Quiet
  <1>8. ASSUME NEW visible \in Visible, HandleSelectAll(visible) PROVE Quiet
    BY <1>1, <1>8 DEF HandleSelectAll, Visible, SitesOf, Quiet
  <1>9. ASSUME HandleClearSelection PROVE Quiet
    BY <1>9 DEF HandleClearSelection, Quiet
  <1>10. ASSUME CheckSteps PROVE Quiet
    BY <1>1, <1>10 DEF CheckSteps, OpenCheck, CloseCheck, ClearResults, HandleCheck, PartChecked, Quiet
  <1>11. ASSUME FetchAnswered \/ Render \/ LayoutSaved \/ ChangedElsewhere PROVE Quiet
    BY <1>1, <1>11 DEF FetchAnswered, Render, LayoutSaved, ChangedElsewhere, Quiet
  <1>12. ASSUME UNCHANGED vars PROVE Quiet
    BY <1>1, <1>12 DEF vars, Quiet
  <1> QED BY <1>2, <1>3, <1>4, <1>5, <1>6, <1>7, <1>8, <1>9, <1>10, <1>11, <1>12 DEF Others

LEMMA SendsAreOK ==
  ASSUME FormsInv, Sends
  PROVE  CallsInv' /\ Kept /\ sent <= sent' /\ batches' = batches /\ UNCHANGED <<selected, told>>
  <1> USE DEF callVars, batchVars, cacheVars
  <1>0. CallsInv /\ AddInv /\ PanelInv /\ TargetInv
    BY DEF FormsInv
  <1>1. batches' = batches /\ UNCHANGED <<selected, told>> /\ UNCHANGED rows
    BY DEF Sends, HandleSavePanel, ToggleEnabled, ConfirmDelete, HandleCreateCategory, HandleSubmit,
       HandleDirectoryPick
  <1>2. CASE HandleSavePanel
    <2>1. panel.item \in Items /\ panel.text = Typed
      BY <1>0, <1>2 DEF HandleSavePanel, PanelInv, PanelOK, Closed
    <2>2. ChangeOK([verb |-> "rename", item |-> panel.item, text |-> panel.text])
      BY <2>1 DEF ChangeOK, Verbs, NewTexts
    <2> QED BY <1>0, <1>1, <1>2, <2>2, Sending DEF HandleSavePanel
  <1>3. ASSUME NEW i \in Items, ToggleEnabled(i) PROVE CallsInv' /\ Kept /\ sent <= sent'
    <2>2. ChangeOK([verb |-> "switch", item |-> i, text |-> Empty])
      BY DEF ChangeOK, Verbs
    <2> QED BY <1>0, <1>1, <1>3, <2>2, Sending DEF ToggleEnabled
  <1>4. CASE ConfirmDelete
    <2>2. ChangeOK([verb |-> "delete", item |-> target, text |-> Empty])
      BY <1>0, <1>4 DEF ConfirmDelete, TargetInv, ChangeOK, Verbs
    <2> QED BY <1>0, <1>1, <1>4, <2>2, Sending DEF ConfirmDelete
  <1>5. CASE HandleCreateCategory
    <2>2. ChangeOK([verb |-> "createCategory", item |-> Uncategorized, text |-> Typed])
      BY UncategorizedIsCategory DEF ChangeOK, Verbs, NewTexts
    <2> QED BY <1>0, <1>1, <1>5, <2>2, Sending DEF HandleCreateCategory
  <1>6. ASSUME add.open
        PROVE  /\ AddOK(add) /\ add.category \in Cats /\ add.category \in Items
    BY <1>0, <1>6, FormOpens DEF AddOK, Items
  <1>7. CASE HandleDirectoryPick
    <2>1. add.category \in Cats /\ add.category \in Items
      BY <1>6, <1>7 DEF HandleDirectoryPick
    <2>2. ChangeOK([verb |-> "createSite", item |-> add.category, text |-> RowText("directory")])
      BY <2>1 DEF ChangeOK, Verbs, NewTexts
    <2> QED BY <1>0, <1>1, <1>7, <2>2, Sending DEF HandleDirectoryPick
  <1>8. CASE HandleSubmit
    <2>1. AddOK(add) /\ add.category \in Cats /\ add.category \in Items
      BY <1>6, <1>8 DEF HandleSubmit
    <2>2. CASE add.url # Lines
      <3>1. PICK t : t = IF add.title = Empty THEN Guess(add.url) ELSE add.title
        OBVIOUS
      <3>2. add.url \in Urls \cup {Lines} /\ add.url # Empty
        BY <1>8, <2>1 DEF HandleSubmit, AddOK
      <3>3. t \in NewTexts
        BY <2>1, <3>1, <3>2 DEF AddOK, NewTexts, Guessed
      <3>4. ChangeOK([verb |-> "createSite", item |-> add.category, text |-> t])
        BY <2>1, <3>3 DEF ChangeOK, Verbs
      <3>5. Send("createSite", add.category, t, TRUE)
        BY <1>8, <2>2, <3>1 DEF HandleSubmit
      <3> QED BY <1>0, <1>1, <3>4, <3>5, Sending
    <2>3. CASE add.url = Lines
      <3>1. PICK f : f = [n \in 1 .. Len(Lines) |->
                            [id |-> sent + n, verb |-> "createSite", item |-> add.category,
                             text |-> Guess(Lines[n]), on |-> TRUE, closes |-> FALSE, step |-> "sent"]]
        OBVIOUS
      <3>2. Len(Lines) \in Nat /\ DOMAIN Lines = 1 .. Len(Lines) /\ Lines \in Seq(Urls)
        BY InSequence, BoundsAssumption DEF Lines
      <3>3. sent' = sent + Len(Lines) /\ calls' = calls \cup {f[n] : n \in 1 .. Len(Lines)}
        BY <1>8, <2>3, <3>1, <3>2 DEF HandleSubmit
      <3>4. \A n \in 1 .. Len(Lines) : f[n].id = sent + n
        BY <3>1
      <3>5. ASSUME NEW n \in 1 .. Len(Lines)
            PROVE  /\ f[n] = [id |-> f[n].id, verb |-> f[n].verb, item |-> f[n].item, text |-> f[n].text,
                              on |-> f[n].on, closes |-> f[n].closes, step |-> f[n].step]
                   /\ ChangeOK(f[n]) /\ f[n].step = "sent"
        <4>3. Lines[n] \in Urls
          BY <3>2
        <4>1. Guess(Lines[n]) \in NewTexts
          BY <4>3 DEF NewTexts
        <4>2. f[n] = [id |-> sent + n, verb |-> "createSite", item |-> add.category,
                      text |-> Guess(Lines[n]), on |-> TRUE, closes |-> FALSE, step |-> "sent"]
          BY <3>1
        <4> QED BY <2>1, <4>1, <4>2 DEF ChangeOK, Verbs
      <3> QED BY <1>0, <1>1, <3>2, <3>3, <3>4, <3>5, SendingMany
    <2> QED BY <2>2, <2>3
  <1> QED BY <1>1, <1>2, <1>3, <1>4, <1>5, <1>7, <1>8 DEF Sends

LEMMA SameCallsWait ==
  Kept => \A c \in calls : \E d \in calls' : d.id = c.id /\ d.verb = c.verb /\ d.item = c.item
  BY DEF Kept, SameCall

LEMMA BatchesAreOK ==
  ASSUME FormsInv, Batches, GoneStay(rows, rows')
  PROVE  CallsInv' /\ BatchInv' /\ DeletedMeansDeleted'
  <1> USE DEF callVars, cacheVars
  <1>0. CallsInv /\ BatchInv /\ PagesInv /\ DeletedMeansDeleted
    BY DEF FormsInv
  <1>1. ASSUME told' = told PROVE DeletedMeansDeleted'
    BY <1>0, <1>1 DEF DeletedMeansDeleted, GoneStay, BatchInv, Items
  <1>2. CASE HandleBatchDelete
    <2>1. PICK ids : ids = SetToSeq(selected)
      OBVIOUS
    <2>2. PICK f : f = [n \in 1 .. Len(ids) |->
                          [id |-> sent + n, verb |-> "delete", item |-> ids[n], text |-> Empty,
                           on |-> TRUE, closes |-> FALSE, step |-> "sent"]]
      OBVIOUS
    <2>3. selected \subseteq Sites /\ IsFiniteSet(selected)
      BY <1>0, BoundsAssumption, FS_Subset DEF BatchInv
    <2>4. /\ Len(ids) \in Nat /\ DOMAIN ids = 1 .. Len(ids) /\ Len(ids) = Cardinality(selected)
          /\ ids \in Seq(selected) /\ \A x \in selected : \E n \in 1 .. Len(ids) : ids[n] = x
      BY <2>1, <2>3, InSequence
    <2>5. /\ sent' = sent + Len(ids) /\ calls' = calls \cup {f[n] : n \in 1 .. Len(ids)}
          /\ batches' = batches \cup
               {[id |-> sent + 1, step |-> "deleting", ids |-> selected, waiting |-> sent + 1 .. sent',
                 failed |-> FALSE]}
          /\ UNCHANGED <<rows, selected, told>>
      BY <1>2, <2>1, <2>2, <2>4 DEF HandleBatchDelete
    <2>6. \A n \in 1 .. Len(ids) : f[n].id = sent + n /\ f[n].verb = "delete" /\ f[n].item = ids[n]
      BY <2>2
    <2>7. ASSUME NEW n \in 1 .. Len(ids)
          PROVE  /\ f[n] = [id |-> f[n].id, verb |-> f[n].verb, item |-> f[n].item, text |-> f[n].text,
                            on |-> f[n].on, closes |-> f[n].closes, step |-> f[n].step]
                 /\ ChangeOK(f[n]) /\ f[n].step = "sent"
      <3>1. ids[n] \in Items
        BY <2>3, <2>4 DEF Items
      <3>2. f[n] = [id |-> sent + n, verb |-> "delete", item |-> ids[n], text |-> Empty,
                    on |-> TRUE, closes |-> FALSE, step |-> "sent"]
        BY <2>2
      <3> QED BY <3>1, <3>2 DEF ChangeOK, Verbs
    <2>8. CallsInv'
      BY <1>0, <2>4, <2>5, <2>6, <2>7, SendingMany
    <2>9. sent \in Nat /\ sent' \in Nat /\ \A n \in 1 .. Len(ids) : sent + n \in sent + 1 .. sent'
      BY <1>0, <2>4, <2>5 DEF CallsInv
    <2>10. ASSUME NEW s \in selected
           PROVE  \E c \in calls' : c.verb = "delete" /\ c.item = s /\ c.id \in sent + 1 .. sent'
      <3>1. PICK n \in 1 .. Len(ids) : ids[n] = s
        BY <2>4
      <3>2. f[n] \in calls'
        BY <2>5
      <3> QED BY <2>6, <2>9, <3>1, <3>2
    <2>11. PICK new : new = [id |-> sent + 1, step |-> "deleting", ids |-> selected,
                             waiting |-> sent + 1 .. sent', failed |-> FALSE]
      OBVIOUS
    <2>12. /\ new.ids = selected /\ new.waiting = sent + 1 .. sent' /\ new.failed = FALSE
           /\ new = [id |-> new.id, step |-> "deleting", ids |-> new.ids, waiting |-> new.waiting,
                     failed |-> new.failed]
      BY <2>11
    <2>13. sent + 1 .. sent' \subseteq 1 .. sent' /\ sent <= sent'
      BY <2>4, <2>5, <2>9
    <2>14. BatchOK(new)'
      <3>1. DeletionOK(new)'
        BY <2>3, <2>10, <2>12, <2>13 DEF DeletionOK
      <3> QED BY <2>12, <3>1 DEF BatchOK
    <2>15. calls \subseteq calls'
      BY <2>5
    <2>16. \A b \in batches : BatchOK(b)'
      BY <1>0, <2>9, <2>13, <2>15, BatchLater DEF BatchInv
    <2>17. batches' = batches \cup {new}
      BY <2>5, <2>11
    <2>18. BatchInv'
      BY <1>0, <2>5, <2>14, <2>16, <2>17 DEF BatchInv
    <2> QED BY <1>1, <2>5, <2>8, <2>18
  <1>3. ASSUME NEW b \in batches, BatchDeleted(b) PROVE CallsInv' /\ BatchInv' /\ DeletedMeansDeleted'
    <2>1. UNCHANGED <<rows, calls, sent>> /\ selected' = {} /\ batches' = batches \ {b}
      BY <1>3 DEF BatchDeleted
    <2>2. DeletionOK(b) /\ b.waiting = {} /\ told' = IF b.failed THEN told ELSE b.ids
      BY <1>0, <1>3 DEF BatchDeleted, BatchInv, BatchOK
    <2>3. ~b.failed => \A s \in b.ids : rows.text[s] = Gone
      BY <2>2 DEF DeletionOK
    <2>4. b.ids \subseteq Sites /\ told \subseteq Sites
      BY <1>0, <2>2 DEF DeletionOK, BatchInv
    <2>5. \A d \in batches : BatchOK(d)'
      BY <1>0, <2>1, BatchLater DEF BatchInv, CallsInv
    <2>6. BatchInv'
      BY <2>1, <2>2, <2>4, <2>5 DEF BatchInv
    <2>7. DeletedMeansDeleted'
      BY <1>0, <2>1, <2>2, <2>3 DEF DeletedMeansDeleted
    <2>8. sent \in Nat
      BY <1>0 DEF CallsInv
    <2> QED BY <1>0, <2>1, <2>6, <2>7, <2>8, CallsStay
  <1>4. ASSUME NEW on \in BOOLEAN, HandleBatchSetEnabled(on) PROVE CallsInv' /\ BatchInv' /\ DeletedMeansDeleted'
    <2>1. UNCHANGED <<calls, selected, told>> /\ sent' = sent + 1 /\ sent \in Nat
      BY <1>0, <1>4 DEF HandleBatchSetEnabled, CallsInv
    <2>2. PICK new : new = [id |-> sent', step |-> "enabling", ids |-> selected, on |-> on,
                            revision |-> shown.revision]
      OBVIOUS
    <2>3. batches' = batches \cup {new}
      BY <1>4, <2>2 DEF HandleBatchSetEnabled
    <2>4. BatchOK(new)'
      <3>1. /\ new.ids = selected /\ new.on = on
            /\ new = [id |-> new.id, step |-> "enabling", ids |-> new.ids, on |-> new.on,
                      revision |-> new.revision]
        BY <2>2
      <3> QED BY <1>0, <3>1 DEF BatchOK, BatchInv
    <2>5. \A b \in batches : BatchOK(b)'
      BY <1>0, <2>1, BatchLater DEF BatchInv
    <2>6. BatchInv'
      BY <1>0, <2>1, <2>3, <2>4, <2>5 DEF BatchInv
    <2> QED BY <1>0, <1>1, <2>1, <2>6, CallsStay
  <1>5. ASSUME NEW b \in batches, BatchSetEnabled(b) \/ BatchEnabled(b)
        PROVE  CallsInv' /\ BatchInv' /\ DeletedMeansDeleted'
    <2>1. UNCHANGED <<calls, sent, told>> /\ selected' \subseteq Sites
      BY <1>0, <1>5 DEF BatchSetEnabled, BatchEnabled, BatchInv
    <2>2. PICK new : new = [id |-> b.id, step |-> "refetch"]
      OBVIOUS
    <2>3. batches' \subseteq batches \cup {new}
      BY <1>5, <2>2 DEF BatchSetEnabled, BatchEnabled
    <2>4. new = [id |-> new.id, step |-> "refetch"]
      BY <2>2
    <2>5. \A d \in batches : BatchOK(d)'
      BY <1>0, <2>1, BatchLater DEF BatchInv, CallsInv
    <2>6. BatchInv'
      BY <1>0, <2>1, <2>3, <2>4, <2>5 DEF BatchInv, BatchOK
    <2>7. sent \in Nat
      BY <1>0 DEF CallsInv
    <2> QED BY <1>0, <1>1, <2>1, <2>6, <2>7, CallsStay
  <1> QED BY <1>2, <1>3, <1>4, <1>5 DEF Batches

LEMMA AnswersAreOK ==
  ASSUME FormsInv, NEW call \in calls, Answered(call) \/ Succeeded(call), GoneStay(rows, rows')
  PROVE  CallsInv' /\ BatchInv' /\ DeletedMeansDeleted'
  <1> USE DEF cacheVars
  <1>0. CallsInv /\ BatchInv /\ PagesInv /\ DeletedMeansDeleted
    BY DEF FormsInv
  <1>1. sent' = sent /\ UNCHANGED <<selected, told>>
    BY DEF Answered, Succeeded
  <1>2. DeletedMeansDeleted'
    BY <1>0, <1>1 DEF DeletedMeansDeleted, GoneStay, BatchInv, Items
  <1>3. CallOK(call)
    BY <1>0 DEF CallsInv
  <1>4. CASE Succeeded(call)
    <2>1. calls' = calls \ {call} /\ batches' = {Settled(b, call, FALSE) : b \in batches} /\ rows' = rows
      BY <1>4 DEF Succeeded
    <2>2. call.verb = "delete" => rows'.text[call.item] = Gone
      BY <1>3, <1>4, <2>1 DEF Succeeded, CallOK
    <2>3. CallsInv'
      BY <1>0, <1>1, <2>1, CallsEnd
    <2>4. BatchInv'
      BY <1>0, <1>1, <2>1, <2>2, BatchesSettled
    <2> QED BY <1>2, <2>3, <2>4
  <1>5. CASE Answered(call) /\ Refused(call)
    <2>1. calls' = calls \ {call} /\ batches' = {Settled(b, call, TRUE) : b \in batches}
      BY <1>5 DEF Refused
    <2>3. CallsInv'
      BY <1>0, <1>1, <2>1, CallsEnd
    <2>4. BatchInv'
      BY <1>0, <1>1, <2>1, BatchesSettled
    <2> QED BY <1>2, <2>3, <2>4
  <1>6. CASE Answered(call) /\ ~Refused(call)
    <2>1. /\ Accepted(call) /\ Touched /\ rows' = Changed(call) /\ batches' = batches
          /\ calls' = (calls \ {call}) \cup {[call EXCEPT !.step = "refetch"]}
      BY <1>6 DEF Answered
    <2>2. ChangeOK(call) /\ Page(rows)
      BY <1>0, <1>3 DEF CallOK, PagesInv
    <2>3. call.verb = "delete" => rows'.text[call.item] = Gone
      BY <2>1, <2>2, ChangedPage
    <2>4. CallsInv' /\ \A c \in calls : \E d \in calls' : d.id = c.id /\ d.verb = c.verb /\ d.item = c.item
      BY <1>0, <1>1, <2>1, <2>3, CallAccepted
    <2>5. sent' \in Nat /\ sent <= sent' /\ selected' \subseteq Sites /\ told' \subseteq Sites
      BY <1>0, <1>1 DEF CallsInv, BatchInv
    <2>6. BatchInv'
      BY <1>0, <2>1, <2>4, <2>5, BatchesLater
    <2> QED BY <1>2, <2>4, <2>6
  <1> QED BY <1>4, <1>5, <1>6

LEMMA CallsNext ==
  ASSUME FormsInv, [Next]_vars
  PROVE  CallsInv' /\ BatchInv' /\ DeletedMeansDeleted'
  <1>0. CallsInv /\ BatchInv /\ PagesInv /\ DeletedMeansDeleted
    BY DEF FormsInv
  <1>1. GoneStay(rows, rows')
    BY <1>0, PagesNext
  <1>2. ASSUME told' = told PROVE DeletedMeansDeleted'
    BY <1>0, <1>1, <1>2 DEF DeletedMeansDeleted, GoneStay, BatchInv, Items
  <1>3. CASE Others
    <2>1. Quiet
      BY <1>0, <1>3, OthersAreQuiet
    <2>2. \A c \in calls : \E d \in calls' : d.id = c.id /\ d.verb = c.verb /\ d.item = c.item
      BY <2>1 DEF Quiet
    <2>3. sent' \in Nat /\ sent <= sent' /\ told' \subseteq Sites
      BY <1>0, <2>1 DEF CallsInv, BatchInv, Quiet
    <2> QED BY <1>0, <1>1, <1>2, <2>1, <2>2, <2>3, CallsStay, BatchesLater DEF Quiet
  <1>4. CASE Sends
    <2>1. CallsInv' /\ Kept /\ sent <= sent' /\ batches' = batches /\ UNCHANGED <<selected, told>>
      BY <1>4, SendsAreOK
    <2>2. sent' \in Nat /\ selected' \subseteq Sites /\ told' \subseteq Sites
      BY <1>0, <2>1 DEF CallsInv, BatchInv
    <2>3. BatchInv'
      BY <1>0, <1>1, <2>1, <2>2, SameCallsWait, BatchesLater
    <2> QED BY <1>2, <2>1, <2>3
  <1> QED BY <1>1, <1>3, <1>4, StepsAre, BatchesAreOK, AnswersAreOK

-----------------------------------------------------------------------------
(* Theorems *)

LEMMA FormsInit == Init => FormsInv
  <1> SUFFICES ASSUME Init PROVE FormsInv
    OBVIOUS
  <1>1. CallsInv /\ DeletedMeansDeleted
    BY DEF Init, CallsInv, DeletedMeansDeleted
  <1>2. BatchInv
    BY DEF Init, BatchInv
  <1>3. PanelInv
    BY DEF Init, PanelInv, PanelOK, PanelShowsItsRow, Closed
  <1>4. AddInv /\ TargetInv
    BY DEF Init, AddInv, TargetInv
  <1> QED BY <1>1, <1>2, <1>3, <1>4, PagesInit, CheckInit DEF FormsInv

LEMMA FormsStep == FormsInv /\ [Next]_vars => FormsInv'
  BY PagesNext, CallsNext, PanelNext, AddNext, CheckNext DEF FormsInv

LEMMA FormsAlways == Spec => []FormsInv
  BY FormsInit, FormsStep, PTL DEF Spec

\* Whatever answers late, and whatever other tabs do, a form sends what it shows,
\* and a page keeps its sites in categories it has (panel and dialog of
\* web/src/pages/app/links/page.tsx and web/src/components/base/AddDialogs.tsx).
THEOREM FormsSendWhatTheyShow == Spec => []FormsAreCurrent
  <1>1. FormsInv => TypeOK
    <2> SUFFICES ASSUME FormsInv PROVE TypeOK
      OBVIOUS
    <2>1. PageOK(rows) /\ PageOK(shown) /\ (fetch.step = "delivered" => PageOK(fetch.page))
      BY DEF FormsInv, PagesInv, Page, NoFetch
    <2>2. \A c \in calls : c.id \in 1 .. sent /\ c.item \in Items
      BY DEF FormsInv, CallsInv, CallOK, ChangeOK
    <2>3. panel.open => panel.item \in Items
      BY DEF FormsInv, PanelInv, PanelOK, Closed
    <2>4. target \in Items \cup {NoTarget} /\ selected \subseteq Sites /\ told \subseteq Sites
      BY DEF FormsInv, TargetInv, BatchInv
    <2> QED BY <2>1, <2>2, <2>3, <2>4 DEF TypeOK
  <1>2. FormsInv => AddFormIsCurrent
    <2> SUFFICES ASSUME FormsInv, add.open PROVE AddFormIsCurrent
      BY DEF AddFormIsCurrent
    <2>1. AddOK(add) /\ Exists(shown, add.category)
      BY FormOpens DEF FormsInv
    <2> QED BY <2>1 DEF AddOK, AddFormIsCurrent
  <1>3. FormsInv => FormsAreCurrent
    BY <1>1, <1>2 DEF FormsAreCurrent, FormsInv, PanelInv
  <1> QED BY <1>3, FormsAlways, PTL

\* The toast of a batch deletion is true of every site of the batch, whichever
\* requests are refused or lost (handleBatchDelete).
THEOREM ToastsAreTrue == Spec => []DeletedMeansDeleted
  <1>1. FormsInv => DeletedMeansDeleted
    BY DEF FormsInv
  <1> QED BY <1>1, FormsAlways, PTL

\* The results of a check are of the links it was about, in their order, for any
\* number of links and any size of the parts (handleCheck of BatchLinkChecker).
THEOREM ChecksAreComplete == Spec => []CheckIsComplete
  <1>1. FormsInv => CheckIsComplete
    BY DEF FormsInv, CheckInv, CheckIsComplete
  <1> QED BY <1>1, FormsAlways, PTL

-----------------------------------------------------------------------------
(* The layout: lists *)

\* RemoveAt leaves the others in their order.
LEMMA RemovedAt ==
  ASSUME NEW S, NEW list \in Seq(S), NEW i \in 1 .. Len(list)
  PROVE  /\ RemoveAt(list, i) \in Seq(S)
         /\ Len(RemoveAt(list, i)) = Len(list) - 1
         /\ \A j \in 1 .. Len(list) - 1 :
              RemoveAt(list, i)[j] = IF j < i THEN list[j] ELSE list[j + 1]
<1>1. PICK a \in Seq(S) : a = SubSeq(list, 1, i - 1)
  <2>1. SubSeq(list, 1, i - 1) \in Seq(S)
    OBVIOUS
  <2> QED  BY <2>1
<1>2. PICK b \in Seq(S) : b = SubSeq(list, i + 1, Len(list))
  <2>1. SubSeq(list, i + 1, Len(list)) \in Seq(S)
    OBVIOUS
  <2> QED  BY <2>1
<1>3. Len(a) = i - 1 /\ Len(b) = Len(list) - i
  BY <1>1, <1>2
<1>4. \A j \in 1 .. i - 1 : a[j] = list[j]
  BY <1>1
<1>5. \A j \in 1 .. Len(list) - i : b[j] = list[i + j]
  BY <1>2
<1>6. Len(a) + Len(b) = Len(list) - 1
  BY <1>3
<1>7. PICK r : r = a \o b
  OBVIOUS
<1>8. /\ r \in Seq(S) /\ Len(r) = Len(list) - 1
      /\ \A j \in 1 .. Len(list) - 1 : r[j] = IF j <= i - 1 THEN a[j] ELSE b[j - (i - 1)]
  <2>1. /\ r \in Seq(S) /\ Len(r) = Len(a) + Len(b)
        /\ \A j \in 1 .. Len(a) + Len(b) : r[j] = IF j <= Len(a) THEN a[j] ELSE b[j - Len(a)]
    BY <1>7, ConcatProperties
  <2> QED  BY <1>3, <1>6, <2>1
<1>9. ASSUME NEW j \in 1 .. Len(list) - 1
      PROVE  r[j] = IF j < i THEN list[j] ELSE list[j + 1]
  <2>1. CASE j < i
    <3>1. r[j] = a[j] /\ j \in 1 .. i - 1
      BY <1>8, <2>1
    <3> QED  BY <1>4, <2>1, <3>1
  <2>2. CASE j >= i
    <3>1. r[j] = b[j - (i - 1)] /\ j - (i - 1) \in 1 .. Len(list) - i
      BY <1>8, <2>2
    <3>2. b[j - (i - 1)] = list[i + (j - (i - 1))]
      BY <1>5, <3>1
    <3> QED  BY <2>2, <3>1, <3>2
  <2> QED  BY <2>1, <2>2
<1>10. RemoveAt(list, i) = r
  BY <1>1, <1>2, <1>7 DEF RemoveAt
<1> QED
  BY <1>8, <1>9, <1>10

\* InsertAt puts an element before position i.
LEMMA InsertedAt ==
  ASSUME NEW S, NEW list \in Seq(S), NEW i \in 1 .. Len(list) + 1, NEW x \in S
  PROVE  /\ InsertAt(list, i, x) \in Seq(S)
         /\ Len(InsertAt(list, i, x)) = Len(list) + 1
         /\ \A j \in 1 .. Len(list) + 1 :
              InsertAt(list, i, x)[j] =
                IF j < i THEN list[j] ELSE IF j = i THEN x ELSE list[j - 1]
<1>1. PICK a \in Seq(S) : a = SubSeq(list, 1, i - 1)
  <2>1. SubSeq(list, 1, i - 1) \in Seq(S)
    OBVIOUS
  <2> QED  BY <2>1
<1>2. PICK b \in Seq(S) : b = SubSeq(list, i, Len(list))
  <2>1. SubSeq(list, i, Len(list)) \in Seq(S)
    OBVIOUS
  <2> QED  BY <2>1
<1>3. PICK e \in Seq(S) : e = <<x>>
  <2>1. <<x>> \in Seq(S)
    OBVIOUS
  <2> QED  BY <2>1
<1>4. Len(a) = i - 1 /\ Len(e) = 1 /\ Len(b) = Len(list) - i + 1
  BY <1>1, <1>2, <1>3
<1>5. \A j \in 1 .. i - 1 : a[j] = list[j]
  BY <1>1
<1>6. e[1] = x
  BY <1>3
<1>7. \A j \in 1 .. Len(list) - i + 1 : b[j] = list[i + j - 1]
  BY <1>2
<1>8. Len(a) + Len(e) = i
  BY <1>4
<1>9. PICK c : c = a \o e
  OBVIOUS
<1>10. c \in Seq(S) /\ Len(c) = i /\ \A j \in 1 .. i : c[j] = IF j <= i - 1 THEN a[j] ELSE e[j - (i - 1)]
  <2>1. /\ c \in Seq(S) /\ Len(c) = Len(a) + Len(e)
        /\ \A j \in 1 .. Len(a) + Len(e) : c[j] = IF j <= Len(a) THEN a[j] ELSE e[j - Len(a)]
    BY <1>9, ConcatProperties
  <2> QED  BY <1>4, <1>8, <2>1
<1>11. Len(c) + Len(b) = Len(list) + 1
  BY <1>4, <1>10
<1>12. PICK r : r = c \o b
  OBVIOUS
<1>13. /\ r \in Seq(S) /\ Len(r) = Len(list) + 1
       /\ \A j \in 1 .. Len(list) + 1 : r[j] = IF j <= i THEN c[j] ELSE b[j - i]
  <2>1. \A j \in 1 .. Len(c) + Len(b) : r[j] = IF j <= Len(c) THEN c[j] ELSE b[j - Len(c)]
    BY <1>10, <1>12, ConcatProperties
  <2>2. r \in Seq(S) /\ Len(r) = Len(c) + Len(b)
    BY <1>10, <1>12, ConcatProperties
  <2>3. Len(c) = i
    BY <1>10
  <2> QED  BY <1>11, <2>1, <2>2, <2>3
<1>14. ASSUME NEW j \in 1 .. Len(list) + 1
       PROVE  r[j] = IF j < i THEN list[j] ELSE IF j = i THEN x ELSE list[j - 1]
  <2>1. CASE j < i
    <3>1. r[j] = a[j] /\ j \in 1 .. i - 1
      BY <1>10, <1>13, <2>1
    <3> QED  BY <1>5, <2>1, <3>1
  <2>2. CASE j = i
    <3>1. r[j] = c[j] /\ j \in 1 .. i
      BY <1>13, <2>2
    <3>2. c[j] = e[1]
      BY <1>10, <2>2, <3>1
    <3> QED  BY <1>6, <2>2, <3>1, <3>2
  <2>3. CASE j > i
    <3>1. r[j] = b[j - i] /\ j - i \in 1 .. Len(list) - i + 1
      BY <1>13, <2>3
    <3>2. b[j - i] = list[i + (j - i) - 1]
      BY <1>7, <3>1
    <3> QED  BY <2>3, <3>1, <3>2
  <2> QED  BY <2>1, <2>2, <2>3
<1>15. InsertAt(list, i, x) = r
  BY <1>1, <1>2, <1>3, <1>9, <1>12 DEF InsertAt
<1> QED
  BY <1>13, <1>14, <1>15

\* A list without one of its places.
LEMMA RemovedOnce ==
  ASSUME NEW S, NEW list \in Seq(S), IsInjective(list), NEW i \in 1 .. Len(list)
  PROVE  /\ RemoveAt(list, i) \in Seq(S) /\ IsInjective(RemoveAt(list, i))
         /\ ToSet(RemoveAt(list, i)) = ToSet(list) \ {list[i]}
<1>1. PICK r \in Seq(S) :
        /\ r = RemoveAt(list, i) /\ Len(r) = Len(list) - 1
        /\ \A j \in 1 .. Len(list) - 1 : r[j] = IF j < i THEN list[j] ELSE list[j + 1]
  BY RemovedAt
<1>2. IsInjective(r)
  <2> DEFINE from(j) == IF j < i THEN j ELSE j + 1
  <2>1. \A j \in 1 .. Len(r) : r[j] = list[from(j)] /\ from(j) \in 1 .. Len(list)
    BY <1>1
  <2>2. \A m, n \in 1 .. Len(list) : list[m] = list[n] => m = n
    BY DEF IsInjective
  <2>3. ASSUME NEW j \in 1 .. Len(r), NEW k \in 1 .. Len(r), r[j] = r[k]
        PROVE  j = k
    <3>1. from(j) = from(k)
      BY <2>1, <2>2, <2>3
    <3> QED  BY <1>1, <3>1
  <2> QED  BY <1>1, <2>3 DEF IsInjective
<1>3. ToSet(r) \subseteq ToSet(list) \ {list[i]}
  BY <1>1 DEF ToSet, IsInjective
<1>4. ASSUME NEW k \in 1 .. Len(list), k # i
      PROVE  list[k] \in ToSet(r)
  <2>1. CASE k < i
    <3>1. k \in DOMAIN r /\ r[k] = list[k]
      BY <1>1, <1>4, <2>1
    <3> QED  BY <3>1 DEF ToSet
  <2>2. CASE k > i
    <3>1. k - 1 \in DOMAIN r /\ r[k - 1] = list[k]
      BY <1>1, <1>4, <2>2
    <3> QED  BY <3>1 DEF ToSet
  <2> QED  BY <1>4, <2>1, <2>2
<1>5. ToSet(list) \ {list[i]} \subseteq ToSet(r)
  BY <1>4 DEF ToSet
<1> QED
  BY <1>1, <1>2, <1>3, <1>5

\* A list with one element more.
LEMMA InsertedOnce ==
  ASSUME NEW S, NEW list \in Seq(S), IsInjective(list), NEW i \in 1 .. Len(list) + 1,
         NEW x \in S, x \notin ToSet(list)
  PROVE  /\ InsertAt(list, i, x) \in Seq(S) /\ IsInjective(InsertAt(list, i, x))
         /\ ToSet(InsertAt(list, i, x)) = ToSet(list) \cup {x}
<1>1. PICK r \in Seq(S) :
        /\ r = InsertAt(list, i, x) /\ Len(r) = Len(list) + 1
        /\ \A j \in 1 .. Len(list) + 1 :
             r[j] = IF j < i THEN list[j] ELSE IF j = i THEN x ELSE list[j - 1]
  BY InsertedAt
<1>2. \A j \in 1 .. Len(list) : list[j] # x
  BY DEF ToSet
<1>3. IsInjective(r)
  <2> SUFFICES ASSUME NEW j \in 1 .. Len(list) + 1, NEW k \in 1 .. Len(list) + 1, r[j] = r[k]
               PROVE  j = k
    BY <1>1 DEF IsInjective
  <2>1. \A m, n \in 1 .. Len(list) : list[m] = list[n] => m = n
    BY DEF IsInjective
  <2> DEFINE from(m) == IF m < i THEN m ELSE m - 1
  <2>2. \A m \in 1 .. Len(list) + 1 :
          m # i => r[m] = list[from(m)] /\ from(m) \in 1 .. Len(list)
    BY <1>1
  <2>3. CASE j = i \/ k = i
    <3>1. r[i] = x
      BY <1>1
    <3> QED  BY <1>2, <2>2, <2>3, <3>1
  <2>4. CASE j # i /\ k # i
    <3>1. from(j) = from(k)
      <4> HIDE DEF from
      <4> QED  BY <2>1, <2>2, <2>4
    <3> QED  BY <2>4, <3>1
  <2> QED  BY <2>3, <2>4
<1>4. ToSet(r) \subseteq ToSet(list) \cup {x}
  BY <1>1 DEF ToSet
<1>5. ASSUME NEW k \in 1 .. Len(list)
      PROVE  list[k] \in ToSet(r)
  <2>1. CASE k < i
    <3>1. k \in DOMAIN r /\ r[k] = list[k]
      BY <1>1, <1>5, <2>1
    <3> QED  BY <3>1 DEF ToSet
  <2>2. CASE k >= i
    <3>1. k + 1 \in DOMAIN r /\ r[k + 1] = list[k]
      BY <1>1, <1>5, <2>2
    <3> QED  BY <3>1 DEF ToSet
  <2> QED  BY <1>5, <2>1, <2>2
<1>6. x \in ToSet(r)
  <2>1. i \in DOMAIN r /\ r[i] = x
    BY <1>1
  <2> QED  BY <2>1 DEF ToSet
<1>7. ToSet(list) \cup {x} \subseteq ToSet(r)
  BY <1>5, <1>6 DEF ToSet
<1> QED
  BY <1>1, <1>3, <1>4, <1>7

\* Moving an element rearranges a list.
LEMMA Moved ==
  ASSUME NEW S, NEW list \in Seq(S), IsInjective(list),
         NEW i \in 1 .. Len(list), NEW j \in 1 .. Len(list)
  PROVE  /\ ArrayMove(list, i, j) \in Seq(S) /\ IsInjective(ArrayMove(list, i, j))
         /\ ToSet(ArrayMove(list, i, j)) = ToSet(list)
<1>1. PICK r \in Seq(S) :
        /\ r = RemoveAt(list, i) /\ IsInjective(r) /\ ToSet(r) = ToSet(list) \ {list[i]}
        /\ Len(r) = Len(list) - 1
  BY RemovedOnce, RemovedAt
<1>2. j \in 1 .. Len(r) + 1 /\ list[i] \in S /\ list[i] \notin ToSet(r)
  BY <1>1
<1>3. /\ InsertAt(r, j, list[i]) \in Seq(S) /\ IsInjective(InsertAt(r, j, list[i]))
      /\ ToSet(InsertAt(r, j, list[i])) = ToSet(r) \cup {list[i]}
  BY <1>1, <1>2, InsertedOnce
<1>4. list[i] \in ToSet(list)
  BY DEF ToSet
<1> QED
  BY <1>1, <1>3, <1>4 DEF ArrayMove

-----------------------------------------------------------------------------
(* The layout: categories and their sites *)

Group == [id : CatIds, sites : Seq(SiteIds)]

CatsOK(cats) == cats \in Seq(Group) /\ NoDuplicates(cats)

\* The categories with another list of sites in one of them.
Resited(cats, i, list) == [cats EXCEPT ![i].sites = list]

LEMMA CatsAre ==
  ASSUME NEW cats, CatsOK(cats)
  PROVE  /\ cats \in Seq(Group) /\ Len(cats) \in Nat /\ DOMAIN cats = 1 .. Len(cats)
         /\ \A j \in 1 .. Len(cats) : /\ cats[j] \in Group /\ cats[j].sites \in Seq(SiteIds)
                                      /\ IsInjective(cats[j].sites)
         /\ \A j, k \in 1 .. Len(cats) :
              j # k => cats[j].id # cats[k].id /\ ToSet(cats[j].sites) \cap ToSet(cats[k].sites) = {}
<1>1. cats \in Seq(Group) /\ Len(cats) \in Nat /\ DOMAIN cats = 1 .. Len(cats)
  BY DEF CatsOK
<1>2. \A j \in 1 .. Len(cats) : cats[j] \in Group
  BY <1>1
<1>3. \A j \in 1 .. Len(cats) : cats[j].sites \in Seq(SiteIds)
  BY <1>2 DEF Group
<1>4. /\ \A j \in 1 .. Len(cats) : IsInjective(cats[j].sites)
      /\ \A j, k \in 1 .. Len(cats) :
           j # k => cats[j].id # cats[k].id /\ ToSet(cats[j].sites) \cap ToSet(cats[k].sites) = {}
  BY <1>1 DEF CatsOK, NoDuplicates
<1> QED
  BY <1>1, <1>2, <1>3, <1>4

LEMMA PlaceFound ==
  ASSUME NEW list \in Seq(SiteIds), NEW s \in ToSet(list)
  PROVE  PlaceOf(list, s) \in 1 .. Len(list) /\ list[PlaceOf(list, s)] = s
<1>1. \E j \in 1 .. Len(list) : list[j] = s
  BY DEF ToSet
<1> QED
  BY <1>1 DEF PlaceOf

LEMMA CategoryFound ==
  ASSUME NEW cats \in Seq(Group), NEW c \in IdsIn(cats)
  PROVE  IndexOf(cats, c) \in 1 .. Len(cats) /\ cats[IndexOf(cats, c)].id = c
<1>1. \E i \in 1 .. Len(cats) : cats[i].id = c
  BY DEF IdsIn
<1> QED
  BY <1>1 DEF IndexOf

LEMMA SiteFound ==
  ASSUME NEW cats \in Seq(Group), NEW s \in SitesIn(cats)
  PROVE  HomeOf(cats, s) \in 1 .. Len(cats) /\ s \in ToSet(cats[HomeOf(cats, s)].sites)
<1>1. \E i \in 1 .. Len(cats) : s \in ToSet(cats[i].sites)
  BY DEF SitesIn
<1> QED
  BY <1>1 DEF HomeOf

LEMMA SitesAreSites ==
  ASSUME NEW cats \in Seq(Group)
  PROVE  IdsIn(cats) \subseteq CatIds /\ SitesIn(cats) \subseteq SiteIds
<1>1. \A i \in 1 .. Len(cats) : cats[i] \in Group
  OBVIOUS
<1>2. \A i \in 1 .. Len(cats) : cats[i].id \in CatIds /\ cats[i].sites \in Seq(SiteIds)
  BY <1>1 DEF Group
<1>3. \A list \in Seq(SiteIds) : ToSet(list) \subseteq SiteIds
  BY DEF ToSet
<1> QED
  BY <1>2, <1>3 DEF IdsIn, SitesIn

\* The site leaves one place of the list it is in.
LEMMA WithoutIt ==
  ASSUME NEW list \in Seq(SiteIds), IsInjective(list), NEW s \in ToSet(list)
  PROVE  /\ Without(list, s) \in Seq(SiteIds) /\ IsInjective(Without(list, s))
         /\ ToSet(Without(list, s)) = ToSet(list) \ {s}
BY PlaceFound, RemovedOnce DEF Without

\* One category gets another list of sites, of which no other category has any.
LEMMA SitesReplaced ==
  ASSUME NEW cats, CatsOK(cats), NEW i \in 1 .. Len(cats),
         NEW list \in Seq(SiteIds), IsInjective(list),
         \A j \in 1 .. Len(cats) : j # i => ToSet(list) \cap ToSet(cats[j].sites) = {}
  PROVE  /\ CatsOK(Resited(cats, i, list))
         /\ Len(Resited(cats, i, list)) = Len(cats)
         /\ SitesIn(Resited(cats, i, list)) =
              (SitesIn(cats) \ ToSet(cats[i].sites)) \cup ToSet(list)
         /\ Resited(cats, i, list)[i].sites = list
         /\ \A j \in 1 .. Len(cats) : j # i => Resited(cats, i, list)[j] = cats[j]
<1>1. /\ cats \in Seq(Group) /\ Len(cats) \in Nat /\ DOMAIN cats = 1 .. Len(cats)
      /\ \A j \in 1 .. Len(cats) : cats[j] \in Group
  BY DEF CatsOK
<1>2. PICK group \in Group : group = [id |-> cats[i].id, sites |-> list]
  BY <1>1 DEF Group
<1>3. [cats[i] EXCEPT !.sites = list] = group
  BY <1>1, <1>2 DEF Group
<1>4. PICK new : new = [cats EXCEPT ![i] = group]
  OBVIOUS
<1>5. Resited(cats, i, list) = new
  BY <1>1, <1>3, <1>4 DEF Resited
<1>6. group.id = cats[i].id /\ group.sites = list
  BY <1>2
<1>7. /\ new \in Seq(Group) /\ Len(new) = Len(cats) /\ DOMAIN new = 1 .. Len(cats)
      /\ \A j \in 1 .. Len(cats) : new[j] = IF j = i THEN group ELSE cats[j]
  BY <1>1, <1>4, ExceptSeq
<1>8. \A j \in 1 .. Len(cats) : new[j].id = cats[j].id /\ IsInjective(new[j].sites)
  BY <1>1, <1>6, <1>7 DEF CatsOK, NoDuplicates
<1>9. \A j, k \in 1 .. Len(cats) :
        j # k => cats[j].id # cats[k].id /\ ToSet(cats[j].sites) \cap ToSet(cats[k].sites) = {}
  BY <1>1 DEF CatsOK, NoDuplicates
<1>10. \A j, k \in 1 .. Len(cats) : j # k => ToSet(new[j].sites) \cap ToSet(new[k].sites) = {}
  BY <1>6, <1>7, <1>9
<1>11. NoDuplicates(new)
  BY <1>7, <1>8, <1>9, <1>10 DEF NoDuplicates
<1>12. SitesIn(new) = (SitesIn(cats) \ ToSet(cats[i].sites)) \cup ToSet(list)
  <2>1. ASSUME NEW s
        PROVE  s \in SitesIn(new) <=> s \in ToSet(list) \/ (s \in SitesIn(cats) /\ s \notin ToSet(cats[i].sites))
    <3>1. s \in SitesIn(new) <=> \E j \in 1 .. Len(cats) : s \in ToSet(new[j].sites)
      BY <1>7 DEF SitesIn
    <3>2. s \in SitesIn(cats) <=> \E j \in 1 .. Len(cats) : s \in ToSet(cats[j].sites)
      BY <1>1 DEF SitesIn
    <3>3. \A j \in 1 .. Len(cats) : j # i => ~(s \in ToSet(cats[i].sites) /\ s \in ToSet(cats[j].sites))
      BY <1>9
    <3> QED  BY <1>6, <1>7, <3>1, <3>2, <3>3
  <2> QED  BY <2>1
<1> QED
  BY <1>5, <1>6, <1>7, <1>11, <1>12 DEF CatsOK

\* A drop of a site, wherever it lands, rearranges.
LEMMA DropKeeps ==
  ASSUME NEW cats, CatsOK(cats), NEW s \in SitesIn(cats),
         NEW over, over.category \in IdsIn(cats)
  PROVE  /\ CatsOK(ApplySiteDrop(cats, s, over))
         /\ SitesIn(ApplySiteDrop(cats, s, over)) = SitesIn(cats)
<1>1. /\ cats \in Seq(Group) /\ Len(cats) \in Nat /\ DOMAIN cats = 1 .. Len(cats)
      /\ \A j \in 1 .. Len(cats) : cats[j].sites \in Seq(SiteIds)
  BY CatsAre
<1>2. \A j \in 1 .. Len(cats) : IsInjective(cats[j].sites)
  BY CatsAre
<1>3. \A j, k \in 1 .. Len(cats) : j # k => ToSet(cats[j].sites) \cap ToSet(cats[k].sites) = {}
  BY CatsAre
<1>4. PICK from \in 1 .. Len(cats) : from = HomeOf(cats, s) /\ s \in ToSet(cats[from].sites)
  BY <1>1, SiteFound
<1>5. PICK to \in 1 .. Len(cats) : to = IndexOf(cats, over.category)
  BY <1>1, CategoryFound
<1>6. PICK list \in Seq(SiteIds) : list = cats[to].sites
  BY <1>1
<1>7. PICK onSite : onSite = (over.type = "site" /\ over.site \in ToSet(list))
  OBVIOUS
<1>8. PICK at : at = IF onSite THEN PlaceOf(list, over.site) ELSE Len(list) + 1
  OBVIOUS
<1>9. at \in 1 .. Len(list) + 1 /\ (onSite => at \in 1 .. Len(list))
  <2>1. CASE onSite
    <3>1. over.site \in ToSet(list)
      BY <1>7, <2>1
    <3>2. PlaceOf(list, over.site) \in 1 .. Len(list)
      BY <3>1, PlaceFound
    <3> QED  BY <1>8, <2>1, <3>2
  <2>2. CASE ~onSite
    BY <1>8, <2>2
  <2> QED  BY <2>1, <2>2
<1>10. ApplySiteDrop(cats, s, over) =
         CASE from = to /\ onSite ->
                [cats EXCEPT ![to].sites = ArrayMove(list, PlaceOf(list, s), at)]
           [] from = to /\ ~onSite -> cats
           [] OTHER ->
                [cats EXCEPT ![from].sites = Without(@, s), ![to].sites = InsertAt(@, at, s)]
  BY <1>4, <1>5, <1>6, <1>7, <1>8 DEF ApplySiteDrop
<1>11. CASE from = to /\ onSite
  <2>1. ApplySiteDrop(cats, s, over) = [cats EXCEPT ![to].sites = ArrayMove(list, PlaceOf(list, s), at)]
    BY <1>10, <1>11 DEF Resited
  <2>2. PlaceOf(list, s) \in 1 .. Len(list) /\ at \in 1 .. Len(list) /\ IsInjective(list)
    BY <1>2, <1>4, <1>6, <1>9, <1>11, PlaceFound
  <2>3. PICK new \in Seq(SiteIds) :
          new = ArrayMove(list, PlaceOf(list, s), at) /\ IsInjective(new) /\ ToSet(new) = ToSet(list)
    BY <2>2, Moved
  <2>4. \A j \in 1 .. Len(cats) : j # to => ToSet(new) \cap ToSet(cats[j].sites) = {}
    BY <1>3, <1>6, <2>3
  <2>5. /\ CatsOK(Resited(cats, to, new))
        /\ SitesIn(Resited(cats, to, new)) =
             (SitesIn(cats) \ ToSet(cats[to].sites)) \cup ToSet(new)
    BY <2>3, <2>4, SitesReplaced
  <2>6. ToSet(cats[to].sites) \subseteq SitesIn(cats)
    BY <1>1 DEF SitesIn
  <2>7. ApplySiteDrop(cats, s, over) = Resited(cats, to, new)
    BY <2>1, <2>3 DEF Resited
  <2> QED  BY <1>6, <2>3, <2>5, <2>6, <2>7
<1>12. CASE from = to /\ ~onSite
  BY <1>10, <1>12
<1>13. CASE from # to
  <2>1. ApplySiteDrop(cats, s, over) =
          [cats EXCEPT ![from].sites = Without(@, s), ![to].sites = InsertAt(@, at, s)]
    BY <1>10, <1>13
  <2>2. PICK rest \in Seq(SiteIds) :
          /\ rest = Without(cats[from].sites, s) /\ IsInjective(rest)
          /\ ToSet(rest) = ToSet(cats[from].sites) \ {s}
    BY <1>1, <1>2, <1>4, WithoutIt
  <2>3. PICK mid : mid = Resited(cats, from, rest)
    OBVIOUS
  <2>4. \A j \in 1 .. Len(cats) : j # from => ToSet(rest) \cap ToSet(cats[j].sites) = {}
    BY <1>3, <2>2
  <2>5. /\ CatsOK(mid) /\ Len(mid) = Len(cats)
        /\ SitesIn(mid) = (SitesIn(cats) \ ToSet(cats[from].sites)) \cup ToSet(rest)
        /\ mid[from].sites = rest
        /\ \A j \in 1 .. Len(cats) : j # from => mid[j] = cats[j]
    BY <2>2, <2>3, <2>4, SitesReplaced
  <2>6. s \in SiteIds /\ s \notin ToSet(list)
    BY <1>1, <1>3, <1>4, <1>6, <1>13, SitesAreSites
  <2>7. PICK new \in Seq(SiteIds) :
          /\ new = InsertAt(list, at, s) /\ IsInjective(new) /\ ToSet(new) = ToSet(list) \cup {s}
    BY <1>2, <1>6, <1>9, <2>6, InsertedOnce
  <2>8. mid[to].sites = list
    BY <1>6, <1>13, <2>5
  <2>9. ApplySiteDrop(cats, s, over) = Resited(mid, to, new)
    <3>1. [cats EXCEPT ![from].sites = Without(@, s)] = mid
      BY <2>2, <2>3 DEF Resited
    <3> QED  BY <1>1, <1>13, <2>1, <2>7, <2>8, <3>1 DEF Resited
  <2>10. \A j \in 1 .. Len(mid) : j # to => ToSet(new) \cap ToSet(mid[j].sites) = {}
    <3> SUFFICES ASSUME NEW j \in 1 .. Len(cats), j # to
                 PROVE  (ToSet(list) \cup {s}) \cap ToSet(mid[j].sites) = {}
      BY <2>5, <2>7
    <3>1. ToSet(list) \cap ToSet(cats[j].sites) = {}
      BY <1>3, <1>6
    <3>2. CASE j = from
      BY <2>2, <2>5, <3>1, <3>2
    <3>3. CASE j # from
      <4>1. s \notin ToSet(cats[j].sites)
        BY <1>3, <1>4, <3>3
      <4> QED  BY <2>5, <3>1, <3>3, <4>1
    <3> QED  BY <3>2, <3>3
  <2>11. /\ CatsOK(Resited(mid, to, new))
         /\ SitesIn(Resited(mid, to, new)) = (SitesIn(mid) \ ToSet(mid[to].sites)) \cup ToSet(new)
    <3>1. to \in 1 .. Len(mid) /\ CatsOK(mid)
      BY <2>5
    <3>2. new \in Seq(SiteIds) /\ IsInjective(new)
      BY <2>7
    <3> QED  BY <2>10, <3>1, <3>2, SitesReplaced
  <2>12. ToSet(list) \subseteq SitesIn(cats) /\ ToSet(cats[from].sites) \subseteq SitesIn(cats)
    BY <1>1, <1>6 DEF SitesIn
  <2>13. ToSet(list) \cap ToSet(cats[from].sites) = {}
    BY <1>3, <1>6, <1>13
  <2>14. SitesIn(Resited(mid, to, new)) = SitesIn(cats)
    BY <1>4, <2>2, <2>5, <2>7, <2>8, <2>11, <2>12, <2>13
  <2> QED  BY <2>9, <2>11, <2>14
<1> QED
  BY <1>11, <1>12, <1>13

\* Reordering the categories leaves each with its sites.
LEMMA ReorderKeeps ==
  ASSUME NEW cats, CatsOK(cats), NEW c \in IdsIn(cats), NEW over \in IdsIn(cats)
  PROVE  /\ CatsOK(ApplyCategoryReorder(cats, c, over))
         /\ SitesIn(ApplyCategoryReorder(cats, c, over)) = SitesIn(cats)
<1>1. /\ cats \in Seq(Group) /\ DOMAIN cats = 1 .. Len(cats)
  BY DEF CatsOK
<1>2. IsInjective(cats)
  BY DEF CatsOK, NoDuplicates, IsInjective
<1>3. PICK i \in 1 .. Len(cats), j \in 1 .. Len(cats) : i = IndexOf(cats, c) /\ j = IndexOf(cats, over)
  BY <1>1, CategoryFound
<1>4. PICK new \in Seq(Group) :
        new = ArrayMove(cats, i, j) /\ IsInjective(new) /\ ToSet(new) = ToSet(cats)
  BY <1>1, <1>2, Moved
<1>5. \A k \in DOMAIN new : \E l \in DOMAIN cats : new[k] = cats[l]
  BY <1>4 DEF ToSet
<1>6. \A l \in DOMAIN cats : \E k \in DOMAIN new : new[k] = cats[l]
  BY <1>4 DEF ToSet
<1>7. SitesIn(new) = SitesIn(cats)
  BY <1>5, <1>6 DEF SitesIn
<1>8. \A l, m \in DOMAIN cats :
        cats[l] # cats[m] =>
          cats[l].id # cats[m].id /\ ToSet(cats[l].sites) \cap ToSet(cats[m].sites) = {}
  BY DEF CatsOK, NoDuplicates
<1>9. \A k, n \in DOMAIN new : k # n => new[k] # new[n]
  BY <1>4 DEF IsInjective
<1>10. \A k, n \in DOMAIN new :
         k # n => new[k].id # new[n].id /\ ToSet(new[k].sites) \cap ToSet(new[n].sites) = {}
  <2> SUFFICES ASSUME NEW k \in DOMAIN new, NEW n \in DOMAIN new, k # n
               PROVE  new[k].id # new[n].id /\ ToSet(new[k].sites) \cap ToSet(new[n].sites) = {}
    OBVIOUS
  <2>1. PICK l \in DOMAIN cats : new[k] = cats[l]
    BY <1>5
  <2>2. PICK m \in DOMAIN cats : new[n] = cats[m]
    BY <1>5
  <2>3. cats[l] # cats[m]
    BY <1>9, <2>1, <2>2
  <2> QED  BY <1>8, <2>1, <2>2, <2>3
<1>11. \A k \in DOMAIN new : IsInjective(new[k].sites)
  BY <1>5 DEF CatsOK, NoDuplicates
<1>12. NoDuplicates(new)
  BY <1>10, <1>11 DEF NoDuplicates
<1> QED
  BY <1>3, <1>4, <1>7, <1>12 DEF CatsOK, ApplyCategoryReorder

\* A new site goes to the end of its category.
LEMMA InsertKeeps ==
  ASSUME NEW cats, CatsOK(cats), NEW c \in IdsIn(cats), NEW s \in SiteIds \ SitesIn(cats)
  PROVE  CatsOK(Insert(cats, c, s))
<1>1. /\ cats \in Seq(Group) /\ Len(cats) \in Nat /\ DOMAIN cats = 1 .. Len(cats)
      /\ \A j \in 1 .. Len(cats) : cats[j].sites \in Seq(SiteIds) /\ IsInjective(cats[j].sites)
  BY CatsAre
<1>2. PICK i \in 1 .. Len(cats) : i = IndexOf(cats, c)
  BY <1>1, CategoryFound
<1>3. PICK list \in Seq(SiteIds) : list = cats[i].sites /\ IsInjective(list)
  BY <1>1
<1>4. \A j \in 1 .. Len(cats) : s \notin ToSet(cats[j].sites)
  BY <1>1 DEF SitesIn
<1>5. PICK new \in Seq(SiteIds) :
        /\ new = Append(list, s) /\ Len(new) = Len(list) + 1
        /\ \A j \in 1 .. Len(list) : new[j] = list[j]
        /\ new[Len(list) + 1] = s
  BY AppendProperties
<1>6. \A j \in 1 .. Len(list) : list[j] # s
  BY <1>3, <1>4 DEF ToSet
<1>7. IsInjective(new)
  <2>1. \A m, n \in 1 .. Len(list) : list[m] = list[n] => m = n
    BY <1>3 DEF IsInjective
  <2>2. ASSUME NEW m \in 1 .. Len(list) + 1, NEW n \in 1 .. Len(list) + 1, new[m] = new[n]
        PROVE  m = n
    BY <1>5, <1>6, <2>1, <2>2
  <2> QED  BY <1>5, <2>2 DEF IsInjective
<1>8. ToSet(new) \subseteq ToSet(list) \cup {s}
  BY <1>5 DEF ToSet
<1>9. \A j \in 1 .. Len(cats) : j # i => ToSet(new) \cap ToSet(cats[j].sites) = {}
  <2>1. \A j \in 1 .. Len(cats) : j # i => ToSet(list) \cap ToSet(cats[j].sites) = {}
    BY <1>3, CatsAre
  <2> QED  BY <1>4, <1>8, <2>1
<1>10. CatsOK(Resited(cats, i, new))
  BY <1>7, <1>9, SitesReplaced
<1>11. Insert(cats, c, s) = Resited(cats, i, new)
  BY <1>2, <1>3, <1>5 DEF Insert, Resited
<1> QED
  BY <1>10, <1>11

LEMMA DeleteKeeps ==
  ASSUME NEW cats, CatsOK(cats), NEW s \in SitesIn(cats)
  PROVE  CatsOK(Delete(cats, s))
<1>1. /\ cats \in Seq(Group) /\ Len(cats) \in Nat /\ DOMAIN cats = 1 .. Len(cats)
      /\ \A j \in 1 .. Len(cats) : cats[j].sites \in Seq(SiteIds) /\ IsInjective(cats[j].sites)
  BY CatsAre
<1>2. PICK i \in 1 .. Len(cats) : i = HomeOf(cats, s) /\ s \in ToSet(cats[i].sites)
  BY <1>1, SiteFound
<1>3. PICK rest \in Seq(SiteIds) :
        /\ rest = Without(cats[i].sites, s) /\ IsInjective(rest)
        /\ ToSet(rest) = ToSet(cats[i].sites) \ {s}
  <2>1. cats[i].sites \in Seq(SiteIds) /\ IsInjective(cats[i].sites)
    BY <1>1
  <2> QED  BY <1>2, <2>1, WithoutIt
<1>4. \A j \in 1 .. Len(cats) : j # i => ToSet(rest) \cap ToSet(cats[j].sites) = {}
  <2>1. \A j \in 1 .. Len(cats) : j # i => ToSet(cats[i].sites) \cap ToSet(cats[j].sites) = {}
    BY CatsAre
  <2> QED  BY <1>3, <2>1
<1>5. CatsOK(Resited(cats, i, rest))
  BY <1>3, <1>4, SitesReplaced
<1>6. Delete(cats, s) = Resited(cats, i, rest)
  BY <1>2, <1>3 DEF Delete, Resited
<1> QED
  BY <1>5, <1>6

-----------------------------------------------------------------------------
(* The invariant of the layout *)

LayoutPage(p) ==
  /\ p = [revision |-> p.revision, look |-> p.look, cats |-> p.cats]
  /\ p.revision \in 0 .. MaxChanges /\ p.look \in Templates
  /\ CatsOK(p.cats)

\* No page the editor has loaded is ahead of the draft d.
LoadedPage(p, d) == LayoutPage(p) /\ p.revision <= d.revision

LoadsOK(f, d) ==
  \/ f = [step |-> "none"]
  \/ f = [step |-> "asked"]
  \/ f = [step |-> "delivered", page |-> f.page] /\ LoadedPage(f.page, d)

Save(mine, again, last, step, page, revision) ==
  [mine |-> mine, again |-> again, last |-> last, step |-> step, page |-> page,
   revision |-> revision]

\* Between its two requests a save that still has the current revision has the
\* order of the draft d; a call that was left has a page to go on with.
SaveOK(sv, d) ==
  /\ sv = Save(sv.mine, sv.again, sv.last, sv.step, sv.page, sv.revision)
  /\ sv.mine \in BOOLEAN /\ sv.again \in BOOLEAN
  /\ sv.again /\ ~sv.mine => LayoutPage(sv.last)
  /\ LayoutPage(sv.page)
  /\ sv.revision \in 0 .. MaxChanges /\ sv.revision <= d.revision
  /\ sv.step = "settings" /\ sv.revision = d.revision => d.cats = sv.page.cats

LoadsInv == LayoutPage(draft) /\ LoadedPage(rendered, draft) /\ LoadsOK(refetch, draft)
CopyInv == local = [revision |-> -1] \/ LayoutPage(local)
SavesInv == \A sv \in saves : SaveOK(sv, draft)
DisplayInv == state \in {"idle", "dirty", "saving", "saved", "error"} /\ UnsavedIsShown

LayoutInv == LoadsInv /\ CopyInv /\ SavesInv /\ DisplayInv

\* A page of the first revision is one that can be loaded.
LEMMA LayoutInitInv == LayoutInit => LayoutInv
<1> SUFFICES ASSUME LayoutInit PROVE LayoutInv
  OBVIOUS
<1>1. LayoutPage(OpenedPage)
  BY OpenedPageAssumption, LayoutBoundsAssumption DEF LayoutPage, CatsOK, Group
<1>2. OpenedPage.revision <= OpenedPage.revision
  BY <1>1 DEF LayoutPage
<1> QED
  BY <1>1, <1>2 DEF LayoutInit, LayoutInv, LoadsInv, CopyInv, SavesInv, DisplayInv, LoadedPage,
    LoadsOK, NoRefetch, NoCopy, UnsavedIsShown

LEMMA ShownIsPage ==
  ASSUME LoadsInv, CopyInv
  PROVE  LayoutPage(Shown)
BY DEF LoadsInv, CopyInv, LoadedPage, Shown, NoCopy

\* Another order or another look of a page.
LEMMA PageChanged ==
  ASSUME NEW p, LayoutPage(p)
  PROVE  /\ \A cats : CatsOK(cats) =>
              /\ LayoutPage([p EXCEPT !.cats = cats]) /\ [p EXCEPT !.cats = cats].cats = cats
         /\ \A look \in Templates :
              /\ LayoutPage([p EXCEPT !.look = look]) /\ [p EXCEPT !.look = look].cats = p.cats
<1>1. PICK r, l, c : p = [revision |-> r, look |-> l, cats |-> c]
  BY DEF LayoutPage
<1>2. r \in 0 .. MaxChanges /\ l \in Templates /\ CatsOK(c)
  BY <1>1 DEF LayoutPage
<1>3. ASSUME NEW cats, CatsOK(cats)
      PROVE  LayoutPage([p EXCEPT !.cats = cats]) /\ [p EXCEPT !.cats = cats].cats = cats
  <2>1. [p EXCEPT !.cats = cats] = [revision |-> r, look |-> l, cats |-> cats]
    BY <1>1
  <2> QED  BY <1>2, <1>3, <2>1 DEF LayoutPage
<1>4. ASSUME NEW look \in Templates
      PROVE  LayoutPage([p EXCEPT !.look = look]) /\ [p EXCEPT !.look = look].cats = p.cats
  <2>1. [p EXCEPT !.look = look] = [revision |-> r, look |-> look, cats |-> c]
    BY <1>1
  <2> QED  BY <1>1, <1>2, <2>1 DEF LayoutPage
<1> QED  BY <1>3, <1>4

\* What was loaded and sent before a change of the draft is behind it.
LEMMA LoadedEarlier ==
  ASSUME LoadsInv, SavesInv, NEW d, LayoutPage(d), d.revision = draft.revision + 1
  PROVE  /\ LoadedPage(rendered, d) /\ LoadsOK(refetch, d)
         /\ \A sv \in saves : SaveOK(sv, d)
<1>1. draft.revision \in Nat /\ LoadedPage(rendered, draft) /\ LoadsOK(refetch, draft)
  BY LayoutBoundsAssumption DEF LoadsInv, LayoutPage
<1>2. \A p : LoadedPage(p, draft) => LoadedPage(p, d)
  BY <1>1, LayoutBoundsAssumption DEF LoadedPage, LayoutPage
<1>3. LoadsOK(refetch, d)
  BY <1>1, <1>2 DEF LoadsOK
<1>4. ASSUME NEW sv \in saves
      PROVE  SaveOK(sv, d)
  <2>1. SaveOK(sv, draft)
    BY DEF SavesInv
  <2>2. sv.revision <= d.revision /\ sv.revision # d.revision
    <3>1. sv.revision \in Int /\ sv.revision <= draft.revision
      BY <2>1, LayoutBoundsAssumption DEF SaveOK
    <3> QED  BY <1>1, <3>1
  <2> QED  BY <2>1, <2>2 DEF SaveOK
<1> QED
  BY <1>1, <1>2, <1>3, <1>4

-----------------------------------------------------------------------------
(* The layout: saves *)

\* Saves are records; this is what must be true of one.
LEMMA SaveIs ==
  ASSUME NEW d, NEW m \in BOOLEAN, NEW a \in BOOLEAN, NEW l, NEW s, NEW p, NEW r \in 0 .. MaxChanges,
         a /\ ~m => LayoutPage(l), LayoutPage(p), r <= d.revision,
         s = "settings" /\ r = d.revision => d.cats = p.cats
  PROVE  SaveOK(Save(m, a, l, s, p, r), d) /\ Save(m, a, l, s, p, r).mine = m
<1>1. PICK sv : sv = Save(m, a, l, s, p, r)
  OBVIOUS
<1>2. sv.mine = m /\ sv.again = a /\ sv.last = l /\ sv.step = s /\ sv.page = p /\ sv.revision = r
  BY <1>1 DEF Save
<1> QED
  BY <1>1, <1>2 DEF SaveOK

\* What becomes of a save: it is asked to run again, is left by its editor and
\* has page p to go on with, has made its requests, or is about to make the second.
AskedAgain(sv) == [sv EXCEPT !.again = @ \/ sv.mine]
LeftWith(sv, p) == [sv EXCEPT !.mine = FALSE, !.last = IF sv.again THEN p ELSE NoCopy]
Refetching(sv) == [sv EXCEPT !.step = "refetch"]
Second(sv, r) == [sv EXCEPT !.step = "settings", !.revision = r]

\* A save that is asked to run again, left, or has come a step further.
LEMMA SaveChanged ==
  ASSUME NEW d, NEW sv, SaveOK(sv, d)
  PROVE  /\ SaveOK(AskedAgain(sv), d) /\ AskedAgain(sv).mine = sv.mine
         /\ \A p : LayoutPage(p) => SaveOK(LeftWith(sv, p), d)
         /\ SaveOK(Refetching(sv), d) /\ Refetching(sv).mine = sv.mine
         /\ \A e, r : r \in 0 .. MaxChanges /\ e.revision = r /\ e.cats = sv.page.cats =>
              /\ SaveOK(Second(sv, r), e) /\ Second(sv, r).mine = sv.mine
<1>1. PICK m, a, l, s, p, r : sv = Save(m, a, l, s, p, r)
  BY DEF SaveOK
<1>2. sv.mine = m /\ sv.again = a /\ sv.last = l /\ sv.step = s /\ sv.page = p /\ sv.revision = r
  BY <1>1 DEF Save
<1>3. /\ m \in BOOLEAN /\ a \in BOOLEAN
      /\ a /\ ~m => LayoutPage(l)
      /\ LayoutPage(p)
      /\ r \in 0 .. MaxChanges /\ r <= d.revision
      /\ s = "settings" /\ r = d.revision => d.cats = p.cats
  BY <1>2 DEF SaveOK
<1>4. \A x : /\ [sv EXCEPT !.again = x] = Save(m, x, l, s, p, r)
             /\ [sv EXCEPT !.mine = x] = Save(x, a, l, s, p, r)
             /\ [sv EXCEPT !.step = x] = Save(m, a, l, x, p, r)
  BY <1>1 DEF Save
<1>5. SaveOK(AskedAgain(sv), d) /\ AskedAgain(sv).mine = sv.mine
  <2>1. AskedAgain(sv) = Save(m, a \/ m, l, s, p, r)
    BY <1>2, <1>4 DEF AskedAgain
  <2>2. (a \/ m) \in BOOLEAN /\ ((a \/ m) /\ ~m => LayoutPage(l))
    BY <1>3
  <2>3. SaveOK(Save(m, a \/ m, l, s, p, r), d) /\ Save(m, a \/ m, l, s, p, r).mine = m
    BY <1>3, <2>2, SaveIs
  <2> QED  BY <1>2, <2>1, <2>3
<1>6. ASSUME NEW q, LayoutPage(q)
      PROVE  SaveOK(LeftWith(sv, q), d)
  <2>1. PICK x : x = IF a THEN q ELSE NoCopy
    OBVIOUS
  <2>2. LeftWith(sv, q) = [[sv EXCEPT !.mine = FALSE] EXCEPT !.last = x]
    BY <1>2, <2>1 DEF LeftWith
  <2>3. [Save(FALSE, a, l, s, p, r) EXCEPT !.last = x] = Save(FALSE, a, x, s, p, r)
    <3>1. PICK no : no = FALSE
      OBVIOUS
    <3>2. [Save(no, a, l, s, p, r) EXCEPT !.last = x] = Save(no, a, x, s, p, r)
      BY DEF Save
    <3> QED  BY <3>1, <3>2
  <2>4. SaveOK(Save(FALSE, a, x, s, p, r), d)
    BY <1>3, <1>6, <2>1, SaveIs
  <2> QED  BY <1>4, <2>2, <2>3, <2>4
<1>7. SaveOK(Refetching(sv), d) /\ Refetching(sv).mine = sv.mine
  <2>1. SaveOK(Save(m, a, l, "refetch", p, r), d) /\ Save(m, a, l, "refetch", p, r).mine = m
    BY <1>3, SaveIs
  <2> QED  BY <1>2, <1>4, <2>1 DEF Refetching
<1>8. ASSUME NEW e, NEW x \in 0 .. MaxChanges, e.revision = x, e.cats = sv.page.cats
      PROVE  SaveOK(Second(sv, x), e) /\ Second(sv, x).mine = sv.mine
  <2>1. Second(sv, x) = [[sv EXCEPT !.step = "settings"] EXCEPT !.revision = x]
    BY DEF Second
  <2>2. [Save(m, a, l, "settings", p, r) EXCEPT !.revision = x] = Save(m, a, l, "settings", p, x)
    BY DEF Save
  <2>3. x <= e.revision /\ e.cats = p.cats
    BY <1>2, <1>8, LayoutBoundsAssumption
  <2>4. SaveOK(Save(m, a, l, "settings", p, x), e) /\ Save(m, a, l, "settings", p, x).mine = m
    BY <1>3, <2>3, SaveIs
  <2>5. [sv EXCEPT !.step = "settings"] = Save(m, a, l, "settings", p, r)
    BY <1>4
  <2>6. Second(sv, x) = Save(m, a, l, "settings", p, x)
    BY <2>1, <2>2, <2>5
  <2> QED  BY <1>2, <2>4, <2>6
<1> QED
  BY <1>5, <1>6, <1>7, <1>8

\* A call that begins.
LEMMA CallBegins ==
  ASSUME NEW d, LoadedPage(rendered, d), NEW p, LayoutPage(p), NEW m \in BOOLEAN
  PROVE  /\ SaveOK([Call(p) EXCEPT !.mine = m], d) /\ [Call(p) EXCEPT !.mine = m].mine = m
         /\ SaveOK(Call(p), d) /\ Call(p).mine
<1>1. rendered.revision \in 0 .. MaxChanges /\ rendered.revision <= d.revision
  BY DEF LoadedPage, LayoutPage
<1>2. PICK r \in 0 .. MaxChanges : r = rendered.revision
  BY <1>1
<1>3. Call(p) = Save(TRUE, FALSE, NoCopy, "order", p, r)
  BY <1>2 DEF Call, Save
<1>4. [Save(TRUE, FALSE, NoCopy, "order", p, r) EXCEPT !.mine = m] =
        Save(m, FALSE, NoCopy, "order", p, r)
  <2>1. PICK no, yes : no = FALSE /\ yes = TRUE
    OBVIOUS
  <2>2. [Save(yes, no, NoCopy, "order", p, r) EXCEPT !.mine = m] = Save(m, no, NoCopy, "order", p, r)
    BY DEF Save
  <2> QED  BY <2>1, <2>2
<1>5. \A b \in BOOLEAN : /\ SaveOK(Save(b, FALSE, NoCopy, "order", p, r), d)
                         /\ Save(b, FALSE, NoCopy, "order", p, r).mine = b
  <2> SUFFICES ASSUME NEW b \in BOOLEAN
               PROVE  /\ SaveOK(Save(b, FALSE, NoCopy, "order", p, r), d)
                      /\ Save(b, FALSE, NoCopy, "order", p, r).mine = b
    OBVIOUS
  <2>1. PICK no \in BOOLEAN : no = FALSE /\ (no /\ ~b => LayoutPage(NoCopy))
    OBVIOUS
  <2>2. PICK s : s = "order" /\ (s = "settings" /\ r = d.revision => d.cats = p.cats)
    OBVIOUS
  <2>3. SaveOK(Save(b, no, NoCopy, s, p, r), d) /\ Save(b, no, NoCopy, s, p, r).mine = b
    BY <1>1, <1>2, <2>1, <2>2, SaveIs
  <2> QED  BY <2>1, <2>2, <2>3
<1> QED
  BY <1>3, <1>4, <1>5

\* A call begins, or the one under way is asked to run again.
LEMMA PersistKeeps ==
  ASSUME LayoutInv, Persist, UNCHANGED <<draft, rendered, refetch, local>>
  PROVE  LayoutInv'
<1>1. LayoutPage(Shown) /\ LoadedPage(rendered, draft)
  BY ShownIsPage DEF LayoutInv, LoadsInv
<1>2. \A sv \in saves : SaveOK(sv, draft)
  BY DEF LayoutInv, SavesInv
<1>3. CASE Running # {}
  <2>1. saves' = {AskedAgain(sv) : sv \in saves} /\ state' = state
    BY <1>3 DEF Persist, AskedAgain
  <2>2. \A c \in saves' : SaveOK(c, draft)
    BY <1>2, <2>1, SaveChanged
  <2>3. Running' # {}
    <3>1. PICK sv \in saves : sv.mine
      BY <1>3 DEF Running
    <3>2. AskedAgain(sv).mine
      BY <1>2, <3>1, SaveChanged
    <3> QED  BY <2>1, <3>1, <3>2 DEF Running
  <2>4. DisplayInv'
    BY <2>1, <2>3 DEF LayoutInv, DisplayInv, UnsavedIsShown, NoCopy
  <2>5. LoadsInv' /\ CopyInv' /\ SavesInv'
    BY <2>2 DEF LayoutInv, LoadsInv, CopyInv, SavesInv
  <2> QED  BY <2>4, <2>5 DEF LayoutInv
<1>4. CASE Running = {}
  <2>1. saves' = saves \cup {Call(Shown)} /\ state' = "saving"
    BY <1>4 DEF Persist
  <2>2. SaveOK(Call(Shown), draft) /\ Call(Shown).mine
    BY <1>1, CallBegins
  <2>3. \A c \in saves' : SaveOK(c, draft)
    BY <1>2, <2>1, <2>2
  <2>4. Running' # {}
    BY <2>1, <2>2 DEF Running
  <2>5. DisplayInv'
    BY <2>1, <2>4 DEF DisplayInv, UnsavedIsShown
  <2>6. LoadsInv' /\ CopyInv' /\ SavesInv'
    BY <2>3 DEF LayoutInv, LoadsInv, CopyInv, SavesInv
  <2> QED  BY <2>5, <2>6 DEF LayoutInv
<1> QED
  BY <1>3, <1>4

\* A call that ends has gone, or goes on as another call.
LEMMA EndedKeeps ==
  ASSUME LayoutInv, NEW sv \in saves, Ended(sv, saves \ {sv}),
         NEW d, LayoutPage(d), LoadedPage(rendered, d), \A c \in saves : SaveOK(c, d)
  PROVE  /\ \A c \in saves' : SaveOK(c, d)
         /\ sv.again /\ sv.mine => state' = "saving" /\ Running' # {}
         /\ sv.again /\ ~sv.mine => state' = state
         /\ ~sv.mine /\ Running # {} => Running' # {}
<1>1. SaveOK(sv, d) /\ LayoutPage(Shown)
  BY ShownIsPage DEF LayoutInv
<1>2. sv.mine \in BOOLEAN /\ sv.again \in BOOLEAN
  BY <1>1 DEF SaveOK
<1>3. ~sv.mine /\ Running # {} /\ saves \ {sv} \subseteq saves' => Running' # {}
  BY DEF Running
<1>4. CASE sv.again
  <2>1. PICK p : p = IF sv.mine THEN Shown ELSE sv.last
    OBVIOUS
  <2>2. LayoutPage(p)
    BY <1>1, <1>4, <2>1 DEF SaveOK
  <2>3. /\ saves' = (saves \ {sv}) \cup {[Call(p) EXCEPT !.mine = sv.mine]}
        /\ state' = IF sv.mine THEN "saving" ELSE state
    BY <1>4, <2>1 DEF Ended
  <2>4. /\ SaveOK([Call(p) EXCEPT !.mine = sv.mine], d)
        /\ [Call(p) EXCEPT !.mine = sv.mine].mine = sv.mine
    BY <1>2, <2>2, CallBegins
  <2>5. sv.mine => Running' # {}
    BY <2>3, <2>4 DEF Running
  <2> QED  BY <1>3, <2>3, <2>4, <2>5
<1>5. CASE ~sv.again
  BY <1>3, <1>5 DEF Ended
<1> QED
  BY <1>4, <1>5

-----------------------------------------------------------------------------
(* The layout: steps *)

\* A draft that was saved to is one revision further.
LEMMA DraftSaved ==
  ASSUME LayoutInv, WithinChanges
  PROVE  /\ draft.revision + 1 \in 0 .. MaxChanges
         /\ \A cats : CatsOK(cats) =>
              /\ LayoutPage([draft EXCEPT !.cats = cats, !.revision = @ + 1])
              /\ [draft EXCEPT !.cats = cats, !.revision = @ + 1].revision = draft.revision + 1
              /\ [draft EXCEPT !.cats = cats, !.revision = @ + 1].cats = cats
              /\ [draft EXCEPT !.cats = cats, !.revision = @ + 1].look = draft.look
         /\ \A look \in Templates :
              /\ LayoutPage([draft EXCEPT !.look = look, !.revision = @ + 1])
              /\ [draft EXCEPT !.look = look, !.revision = @ + 1].revision = draft.revision + 1
              /\ [draft EXCEPT !.look = look, !.revision = @ + 1].cats = draft.cats
              /\ [draft EXCEPT !.look = look, !.revision = @ + 1].look = look
<1>1. LayoutPage(draft)
  BY DEF LayoutInv, LoadsInv
<1>2. PICK d : d = draft
  OBVIOUS
<1>3. PICK r, l, c : d = [revision |-> r, look |-> l, cats |-> c]
  BY <1>1, <1>2 DEF LayoutPage
<1>4. r \in 0 .. MaxChanges /\ l \in Templates /\ CatsOK(c) /\ d.revision = r
  BY <1>1, <1>2, <1>3 DEF LayoutPage
<1>5. r + 1 \in 0 .. MaxChanges
  BY <1>2, <1>4, LayoutBoundsAssumption DEF WithinChanges
<1>6. ASSUME NEW cats, CatsOK(cats)
      PROVE  /\ LayoutPage([d EXCEPT !.cats = cats, !.revision = @ + 1])
             /\ [d EXCEPT !.cats = cats, !.revision = @ + 1].revision = d.revision + 1
             /\ [d EXCEPT !.cats = cats, !.revision = @ + 1].cats = cats
             /\ [d EXCEPT !.cats = cats, !.revision = @ + 1].look = d.look
  <2>1. [d EXCEPT !.cats = cats, !.revision = @ + 1] =
          [revision |-> r + 1, look |-> l, cats |-> cats]
    <3>1. PICK n : n = r + 1
      OBVIOUS
    <3>2. [d EXCEPT !.cats = cats] = [revision |-> r, look |-> l, cats |-> cats]
      BY <1>3
    <3>3. PICK e : e = [revision |-> r, look |-> l, cats |-> cats]
      OBVIOUS
    <3>5. [e EXCEPT !.revision = n] = [revision |-> n, look |-> l, cats |-> cats]
      BY <3>3
    <3>4. [d EXCEPT !.cats = cats, !.revision = @ + 1] =
            [[d EXCEPT !.cats = cats] EXCEPT !.revision = n]
      BY <1>4, <3>1
    <3> QED  BY <3>1, <3>2, <3>3, <3>4, <3>5
  <2> QED  BY <1>3, <1>4, <1>5, <1>6, <2>1 DEF LayoutPage
<1>7. ASSUME NEW look \in Templates
      PROVE  /\ LayoutPage([d EXCEPT !.look = look, !.revision = @ + 1])
             /\ [d EXCEPT !.look = look, !.revision = @ + 1].revision = d.revision + 1
             /\ [d EXCEPT !.look = look, !.revision = @ + 1].cats = d.cats
             /\ [d EXCEPT !.look = look, !.revision = @ + 1].look = look
  <2>1. [d EXCEPT !.look = look, !.revision = @ + 1] =
          [revision |-> r + 1, look |-> look, cats |-> c]
    <3>1. PICK n : n = r + 1
      OBVIOUS
    <3>2. [d EXCEPT !.look = look] = [revision |-> r, look |-> look, cats |-> c]
      BY <1>3
    <3>3. PICK e : e = [revision |-> r, look |-> look, cats |-> c]
      OBVIOUS
    <3>5. [e EXCEPT !.revision = n] = [revision |-> n, look |-> look, cats |-> c]
      BY <3>3
    <3>4. [d EXCEPT !.look = look, !.revision = @ + 1] =
            [[d EXCEPT !.look = look] EXCEPT !.revision = n]
      BY <1>4, <3>1
    <3> QED  BY <3>1, <3>2, <3>3, <3>4, <3>5
  <2> QED  BY <1>3, <1>4, <1>5, <2>1 DEF LayoutPage
<1> QED
  BY <1>2, <1>4, <1>5, <1>6, <1>7

\* A call that failed, whatever became of its request.
LEMMA FailedKeeps ==
  ASSUME LayoutInv, NEW sv \in saves, SaveFailed(sv), LayoutPage(draft'),
         LoadedPage(rendered, draft'), LoadsOK(refetch, draft'), \A c \in saves : SaveOK(c, draft')
  PROVE  LayoutInv'
<1>1. Ended(sv, saves \ {sv}) /\ UNCHANGED <<rendered, refetch, local>>
  BY DEF SaveFailed
<1>2. PICK d : d = draft'
  OBVIOUS
<1>3. /\ \A c \in saves' : SaveOK(c, draft')
      /\ sv.again /\ sv.mine => state' = "saving" /\ Running' # {}
      /\ sv.again /\ ~sv.mine => state' = state
      /\ ~sv.mine /\ Running # {} => Running' # {}
  BY <1>1, <1>2, EndedKeeps
<1>4. ~sv.again => state' = IF sv.mine THEN "error" ELSE state
  BY DEF SaveFailed
<1>5. DisplayInv'
  <2>1. /\ state \in {"idle", "dirty", "saving", "saved", "error"}
        /\ local # NoCopy => state \in {"dirty", "saving", "error"}
        /\ state = "saving" => Running # {}
    BY DEF LayoutInv, DisplayInv, UnsavedIsShown
  <2>2. \/ state' = "saving" /\ Running' # {}
        \/ state' = "error"
        \/ state' = state /\ (Running # {} => Running' # {})
    BY <1>3, <1>4
  <2> QED  BY <1>1, <2>1, <2>2 DEF DisplayInv, UnsavedIsShown, NoCopy
<1>6. LoadsInv' /\ CopyInv' /\ SavesInv'
  BY <1>1, <1>3 DEF LayoutInv, LoadsInv, CopyInv, SavesInv
<1> QED
  BY <1>5, <1>6 DEF LayoutInv

\* A save that has come a step further.
LEMMA SaveGoesOn ==
  ASSUME LayoutInv, NEW sv \in saves, NEW new, saves' = (saves \ {sv}) \cup {new},
         new.mine = sv.mine, SaveOK(new, draft'), LayoutPage(draft'),
         LoadedPage(rendered, draft'), LoadsOK(refetch', draft'), \A c \in saves : SaveOK(c, draft'),
         UNCHANGED <<rendered, local, state>>
  PROVE  LayoutInv'
<1>1. \A c \in saves' : SaveOK(c, draft')
  OBVIOUS
<1>2. Running # {} => Running' # {}
  BY DEF Running
<1>3. DisplayInv'
  BY <1>2 DEF LayoutInv, DisplayInv, UnsavedIsShown, NoCopy
<1>4. LoadsInv' /\ CopyInv' /\ SavesInv'
  BY <1>1 DEF LayoutInv, LoadsInv, CopyInv, SavesInv
<1> QED
  BY <1>3, <1>4 DEF LayoutInv

LEMMA SaveOrderKeeps ==
  ASSUME LayoutInv, NEW sv \in saves, SaveOrder(sv)
  PROVE  LayoutInv'
<1>1. /\ LayoutPage(draft) /\ LoadedPage(rendered, draft) /\ LoadsOK(refetch, draft)
      /\ \A c \in saves : SaveOK(c, draft)
  BY DEF LayoutInv, LoadsInv, SavesInv
<1>2. CASE SaveFailed(sv) /\ UNCHANGED draft
  BY <1>1, <1>2, FailedKeeps
<1>3. CASE /\ WithinChanges
           /\ draft' = [draft EXCEPT !.cats = sv.page.cats, !.revision = @ + 1]
  <2>1. CatsOK(sv.page.cats)
    BY <1>1 DEF SaveOK, LayoutPage
  <2>2. PICK d : d = [draft EXCEPT !.cats = sv.page.cats, !.revision = @ + 1]
    OBVIOUS
  <2>3. /\ LayoutPage(d) /\ d.revision = draft.revision + 1 /\ d.cats = sv.page.cats
        /\ d.revision \in 0 .. MaxChanges
    BY <1>3, <2>1, <2>2, DraftSaved
  <2>4. draft' = d
    BY <1>3, <2>2
  <2>5. /\ LoadedPage(rendered, d) /\ LoadsOK(refetch, d)
        /\ \A c \in saves : SaveOK(c, d)
    BY <2>3, LoadedEarlier DEF LayoutInv
  <2>6. CASE SaveFailed(sv)
    BY <2>3, <2>4, <2>5, <2>6, FailedKeeps
  <2>7. CASE /\ saves' = (saves \ {sv}) \cup {AfterOrder(sv)}
             /\ UNCHANGED <<rendered, refetch, editorVars>>
    <3>1. SaveOK(AfterOrder(sv), d) /\ AfterOrder(sv).mine = sv.mine
      <4>1. PICK r \in 0 .. MaxChanges : r = draft.revision + 1 /\ d.revision = r
        BY <2>3
      <4>2. SaveOK(Second(sv, r), d) /\ Second(sv, r).mine = sv.mine
        BY <1>1, <2>3, <4>1, SaveChanged
      <4> QED  BY <4>1, <4>2 DEF AfterOrder, Second
    <3>2. UNCHANGED <<rendered, refetch, local, state>>
      BY <2>7 DEF editorVars
    <3> QED  BY <2>3, <2>4, <2>5, <2>7, <3>1, <3>2, SaveGoesOn
  <2> QED  BY <1>2, <1>3, <2>6, <2>7 DEF SaveOrder
<1> QED
  BY <1>2, <1>3 DEF SaveOrder

LEMMA SaveSettingsKeeps ==
  ASSUME LayoutInv, NEW sv \in saves, SaveSettings(sv)
  PROVE  LayoutInv'
<1>1. /\ LayoutPage(draft) /\ LoadedPage(rendered, draft) /\ LoadsOK(refetch, draft)
      /\ \A c \in saves : SaveOK(c, draft)
  BY DEF LayoutInv, LoadsInv, SavesInv
<1>2. CASE SaveFailed(sv) /\ UNCHANGED draft
  BY <1>1, <1>2, FailedKeeps
<1>3. CASE /\ WithinChanges
           /\ draft' = [draft EXCEPT !.look = sv.page.look, !.revision = @ + 1]
  <2>1. sv.page.look \in Templates
    BY <1>1 DEF SaveOK, LayoutPage
  <2>2. PICK d : d = [draft EXCEPT !.look = sv.page.look, !.revision = @ + 1]
    OBVIOUS
  <2>3. LayoutPage(d) /\ d.revision = draft.revision + 1
    BY <1>3, <2>1, <2>2, DraftSaved
  <2>4. draft' = d
    BY <1>3, <2>2
  <2>5. /\ LoadedPage(rendered, d) /\ LoadsOK(refetch, d)
        /\ \A c \in saves : SaveOK(c, d)
    BY <2>3, LoadedEarlier DEF LayoutInv
  <2>6. CASE SaveFailed(sv)
    BY <2>3, <2>4, <2>5, <2>6, FailedKeeps
  <2>7. CASE /\ saves' = (saves \ {sv}) \cup {[sv EXCEPT !.step = "refetch"]}
             /\ InvalidatePage
             /\ UNCHANGED <<rendered, editorVars>>
    <3>1. PICK new : new = Refetching(sv) /\ SaveOK(new, d) /\ new.mine = sv.mine
      BY <2>5, SaveChanged
    <3>2. UNCHANGED <<rendered, local, state>> /\ LoadsOK(refetch', d)
      BY <2>7 DEF editorVars, InvalidatePage, LoadsOK
    <3>3. saves' = (saves \ {sv}) \cup {new}
      BY <2>7, <3>1 DEF Refetching
    <3> QED  BY <2>3, <2>4, <2>5, <3>1, <3>2, <3>3, SaveGoesOn
  <2> QED  BY <1>2, <1>3, <2>6, <2>7 DEF SaveSettings
<1> QED
  BY <1>2, <1>3 DEF SaveSettings, SettingsAccepted

LEMMA SaveSucceededKeeps ==
  ASSUME LayoutInv, NEW sv \in saves, SaveSucceeded(sv)
  PROVE  LayoutInv'
<1>1. /\ LayoutPage(draft) /\ LoadedPage(rendered, draft)
      /\ \A c \in saves : SaveOK(c, draft)
  BY DEF LayoutInv, LoadsInv, SavesInv
<1>2. Ended(sv, saves \ {sv}) /\ UNCHANGED <<draft, rendered, refetch>>
  BY DEF SaveSucceeded
<1>3. /\ \A c \in saves' : SaveOK(c, draft)
      /\ sv.again /\ sv.mine => state' = "saving" /\ Running' # {}
      /\ sv.again /\ ~sv.mine => state' = state
      /\ ~sv.mine /\ Running # {} => Running' # {}
  BY <1>1, <1>2, EndedKeeps
<1>4. /\ ~sv.again => state' = IF sv.mine THEN "saved" ELSE state
      /\ local' = IF sv.mine THEN NoCopy ELSE local
  BY DEF SaveSucceeded
<1>5. DisplayInv'
  <2>1. /\ state \in {"idle", "dirty", "saving", "saved", "error"}
        /\ local # NoCopy => state \in {"dirty", "saving", "error"}
        /\ state = "saving" => Running # {}
    BY DEF LayoutInv, DisplayInv, UnsavedIsShown
  <2>2. \/ state' = "saving" /\ Running' # {}
        \/ state' = "saved" /\ local' = NoCopy
        \/ state' = state /\ local' = local /\ (Running # {} => Running' # {})
    BY <1>3, <1>4
  <2> QED  BY <2>1, <2>2 DEF DisplayInv, UnsavedIsShown, NoCopy
<1>6. LoadsInv' /\ CopyInv' /\ SavesInv'
  BY <1>2, <1>3, <1>4 DEF LayoutInv, LoadsInv, CopyInv, SavesInv, NoCopy
<1> QED
  BY <1>5, <1>6 DEF LayoutInv

\* The order a drag leaves is one of the same sites.
LEMMA DroppedKeeps ==
  ASSUME LayoutPage(Shown), NEW over \in Targets(Shown.cats)
  PROVE  /\ CatsOK(Dropped(over)) /\ SitesIn(Dropped(over)) = SitesIn(Shown.cats)
         /\ over.category \in IdsIn(Shown.cats)
<1>1. CatsOK(Shown.cats)
  BY DEF LayoutPage
<1>2. over.category \in IdsIn(Shown.cats)
  BY DEF Targets, SiteTargets, CategoryTargets, IdsIn
<1>3. PICK kind, c, s :
        /\ kind = drag.kind /\ c = drag.category /\ s = drag.site
  OBVIOUS
<1>4. \/ Dropped(over) = ApplyCategoryReorder(Shown.cats, c, over.category)
           /\ c \in IdsIn(Shown.cats)
      \/ Dropped(over) = ApplySiteDrop(Shown.cats, s, over) /\ s \in SitesIn(Shown.cats)
      \/ Dropped(over) = Shown.cats
  BY <1>3 DEF Dropped
<1>5. PICK cats : cats = Shown.cats
  OBVIOUS
<1> QED
  BY <1>1, <1>2, <1>4, <1>5, DropKeeps, ReorderKeeps

\* What the hand does: it lays out the copy, which then is unsaved, or leaves it.
LEMMA LayLeaves ==
  ASSUME LayoutInv, Lay
  PROVE  /\ \/ local' = local /\ state' \in {state, "dirty"}
            \/ LayoutPage(local') /\ state' = "dirty" /\ SitesIn(local'.cats) = SitesIn(Shown.cats)
         /\ UNCHANGED <<draft, rendered, refetch, saves>>
<1>1. LayoutPage(Shown)
  BY ShownIsPage DEF LayoutInv
<1>2. PICK p : p = Shown
  OBVIOUS
<1>3. /\ \A cats : CatsOK(cats) =>
           /\ LayoutPage([p EXCEPT !.cats = cats]) /\ [p EXCEPT !.cats = cats].cats = cats
      /\ \A look \in Templates :
           /\ LayoutPage([p EXCEPT !.look = look]) /\ [p EXCEPT !.look = look].cats = p.cats
  BY <1>1, <1>2, PageChanged
<1>4. CASE DragStart \/ ClearDragChrome
  BY <1>4 DEF DragStart, ClearDragChrome
<1>5. CASE DragOver
  <2>1. PICK over \in Targets(p.cats) : local' = [p EXCEPT !.cats = ApplySiteDrop(p.cats, drag.site, over)]
    BY <1>2, <1>5 DEF DragOver
  <2>2. PICK s : s = drag.site /\ s \in SitesIn(p.cats)
    BY <1>2, <1>5 DEF DragOver
  <2>3. over.category \in IdsIn(p.cats) /\ CatsOK(p.cats)
    BY <1>1, <1>2 DEF Targets, SiteTargets, CategoryTargets, IdsIn, LayoutPage
  <2>4. PICK cats : /\ cats = ApplySiteDrop(p.cats, s, over)
                    /\ CatsOK(cats) /\ SitesIn(cats) = SitesIn(p.cats)
    BY <2>2, <2>3, DropKeeps
  <2>5. local' = [p EXCEPT !.cats = cats]
    BY <2>1, <2>2, <2>4
  <2>6. LayoutPage(local') /\ local'.cats = cats
    BY <1>3, <2>4, <2>5
  <2> QED  BY <1>2, <1>5, <2>4, <2>6 DEF DragOver, MarkLayoutDirty
<1>6. CASE DragEnd
  <2>1. PICK cats \in {p.cats} \cup {Dropped(over) : over \in Targets(p.cats)} :
          local' = IF cats # p.cats THEN [p EXCEPT !.cats = cats] ELSE local
    BY <1>2, <1>6 DEF DragEnd
  <2>2. UNCHANGED <<draft, rendered, refetch, saves>> /\ state' \in {state, "dirty"}
        /\ (local' # local => state' = "dirty")
    BY <1>6 DEF DragEnd, MarkLayoutDirty
  <2>3. CASE cats = p.cats
    BY <2>1, <2>2, <2>3
  <2>4. CASE cats # p.cats
    <3>1. PICK over \in Targets(p.cats) : cats = Dropped(over)
      BY <2>1, <2>4
    <3>2. CatsOK(cats) /\ SitesIn(cats) = SitesIn(p.cats)
      BY <1>1, <1>2, <3>1, DroppedKeeps
    <3>3. local' = [p EXCEPT !.cats = cats]
      BY <2>1, <2>4
    <3>4. LayoutPage(local') /\ local'.cats = cats
      BY <1>3, <3>2, <3>3
    <3> QED  BY <1>2, <2>2, <3>2, <3>4
  <2> QED  BY <2>3, <2>4
<1>7. CASE \E look \in Templates : SetLayout(look)
  <2>1. PICK look \in Templates : SetLayout(look)
    BY <1>7
  <2>2. local' = [p EXCEPT !.look = look]
    BY <1>2, <2>1 DEF SetLayout, Relaid
  <2>3. LayoutPage(local') /\ local'.cats = p.cats
    BY <1>3, <2>2
  <2> QED  BY <1>2, <2>1, <2>3 DEF SetLayout, Relaid, MarkLayoutDirty
<1> QED
  BY <1>4, <1>5, <1>6, <1>7 DEF Lay

LEMMA LayKeeps ==
  ASSUME LayoutInv, Lay
  PROVE  LayoutInv'
<1>1. /\ \/ local' = local /\ state' \in {state, "dirty"}
         \/ LayoutPage(local') /\ state' = "dirty"
      /\ UNCHANGED <<draft, rendered, refetch, saves>>
  BY LayLeaves
<1>2. LoadsInv' /\ CopyInv' /\ SavesInv'
  BY <1>1 DEF LayoutInv, LoadsInv, CopyInv, SavesInv
<1>3. DisplayInv'
  BY <1>1 DEF LayoutInv, DisplayInv, UnsavedIsShown, Running, NoCopy
<1> QED
  BY <1>2, <1>3 DEF LayoutInv

\* The page is fetched or rendered, or rows of the draft come and go.
LEMMA LoadKeeps ==
  ASSUME LayoutInv, RefetchAnswered \/ RenderPage \/ EditRows
  PROVE  LayoutInv'
<1>1. /\ LayoutPage(draft) /\ LoadedPage(rendered, draft) /\ LoadsOK(refetch, draft)
      /\ \A c \in saves : SaveOK(c, draft)
  BY DEF LayoutInv, LoadsInv, SavesInv
<1>2. UNCHANGED <<saves, local, state>>
  BY DEF RefetchAnswered, RenderPage, EditRows, editorVars
<1>3. CopyInv' /\ DisplayInv'
  BY <1>2 DEF LayoutInv, CopyInv, DisplayInv, UnsavedIsShown, Running, NoCopy
<1>4. CASE RefetchAnswered
  <2>1. LoadedPage(draft, draft)
    BY <1>1, LayoutBoundsAssumption DEF LoadedPage, LayoutPage
  <2>2. UNCHANGED <<draft, rendered>> /\ refetch' \in {[step |-> "delivered", page |-> draft], NoRefetch}
    BY <1>4 DEF RefetchAnswered
  <2>3. LoadsOK(refetch', draft)
    <3>1. CASE refetch' = NoRefetch
      BY <3>1 DEF LoadsOK, NoRefetch
    <3>2. CASE refetch' = [step |-> "delivered", page |-> draft]
      <4>1. PICK f : f = refetch'
        OBVIOUS
      <4>2. f = [step |-> "delivered", page |-> f.page] /\ f.page = draft
        BY <3>2, <4>1
      <4> QED  BY <2>1, <4>1, <4>2 DEF LoadsOK
    <3> QED  BY <2>2, <3>1, <3>2
  <2>4. LoadsInv' /\ SavesInv'
    BY <1>1, <1>2, <2>2, <2>3 DEF LoadsInv, SavesInv
  <2> QED  BY <1>3, <2>4 DEF LayoutInv
<1>5. CASE RenderPage
  <2>1. /\ refetch.step = "delivered" /\ rendered' = refetch.page /\ refetch' = NoRefetch
        /\ draft' = draft
    BY <1>5 DEF RenderPage
  <2>2. LoadedPage(refetch.page, draft)
    BY <1>1, <2>1 DEF LoadsOK
  <2>3. LoadsOK(refetch', draft)
    BY <2>1 DEF LoadsOK, NoRefetch
  <2>4. LoadsInv' /\ SavesInv'
    BY <1>1, <1>2, <2>1, <2>2, <2>3 DEF LoadsInv, SavesInv
  <2> QED  BY <1>3, <2>4 DEF LayoutInv
<1>6. CASE EditRows
  <2>1. CatsOK(draft.cats) /\ WithinChanges
    BY <1>1, <1>6 DEF LayoutPage, EditRows
  <2>2. PICK cats : draft' = [draft EXCEPT !.cats = cats, !.revision = @ + 1] /\ CatsOK(cats)
    <3>1. CASE \E s \in SiteIds \ SitesIn(draft.cats), c \in IdsIn(draft.cats) :
                 draft' = [draft EXCEPT !.cats = Insert(@, c, s), !.revision = @ + 1]
      <4>1. PICK s \in SiteIds \ SitesIn(draft.cats), c \in IdsIn(draft.cats) :
              draft' = [draft EXCEPT !.cats = Insert(@, c, s), !.revision = @ + 1]
        BY <3>1
      <4>2. CatsOK(Insert(draft.cats, c, s))
        BY <2>1, InsertKeeps
      <4> QED  BY <4>1, <4>2
    <3>2. CASE \E s \in SitesIn(draft.cats) :
                 draft' = [draft EXCEPT !.cats = Delete(@, s), !.revision = @ + 1]
      <4>1. PICK s \in SitesIn(draft.cats) :
              draft' = [draft EXCEPT !.cats = Delete(@, s), !.revision = @ + 1]
        BY <3>2
      <4>2. CatsOK(Delete(draft.cats, s))
        BY <2>1, DeleteKeeps
      <4> QED  BY <4>1, <4>2
    <3> QED  BY <1>6, <3>1, <3>2 DEF EditRows
  <2>3. PICK d : d = [draft EXCEPT !.cats = cats, !.revision = @ + 1]
    OBVIOUS
  <2>4. LayoutPage(d) /\ d.revision = draft.revision + 1 /\ draft' = d
    BY <2>1, <2>2, <2>3, DraftSaved
  <2>5. LoadedPage(rendered, d) /\ LoadsOK(refetch, d) /\ \A sv \in saves : SaveOK(sv, d)
    BY <2>4, LoadedEarlier DEF LayoutInv
  <2>6. LoadsOK(refetch', d) /\ rendered' = rendered
    <3>1. rendered' = rendered /\ (refetch' = [step |-> "asked"] \/ refetch' = refetch)
      BY <1>6 DEF EditRows, InvalidatePage
    <3> QED  BY <2>5, <3>1 DEF LoadsOK
  <2>7. LoadsInv' /\ SavesInv'
    BY <1>2, <2>4, <2>5, <2>6 DEF LoadsInv, SavesInv
  <2> QED  BY <1>3, <2>7 DEF LayoutInv
<1> QED
  BY <1>4, <1>5, <1>6

\* The editor is left: its copy goes, its calls go on.
LEMMA LeaveKeeps ==
  ASSUME LayoutInv, Leave
  PROVE  LayoutInv'
<1>1. /\ LayoutPage(draft) /\ LoadedPage(rendered, draft) /\ LoadsOK(refetch, draft)
      /\ \A c \in saves : SaveOK(c, draft)
      /\ LayoutPage(Shown)
  BY ShownIsPage DEF LayoutInv, LoadsInv, SavesInv
<1>2. saves' = {IF sv.mine THEN LeftWith(sv, Shown) ELSE sv : sv \in saves}
  BY DEF Leave, LeftWith
<1>3. \A sv \in saves' : SaveOK(sv, draft)
  BY <1>1, <1>2, SaveChanged
<1>4. UNCHANGED <<draft, rendered>> /\ LoadsOK(refetch', draft) /\ local' = NoCopy /\ state' = "idle"
  BY <1>1 DEF Leave, InvalidatePage, LoadsOK
<1>5. LoadsInv' /\ CopyInv' /\ SavesInv'
  BY <1>1, <1>3, <1>4 DEF LoadsInv, CopyInv, SavesInv, NoCopy
<1>6. DisplayInv'
  BY <1>4 DEF DisplayInv, UnsavedIsShown, NoCopy
<1> QED
  BY <1>5, <1>6 DEF LayoutInv

LEMMA LayoutStep ==
  ASSUME LayoutInv, [LayoutNext]_layoutVars
  PROVE  LayoutInv'
<1>1. CASE Lay
  BY <1>1, LayKeeps
<1>2. CASE TimerFires \/ HandleSaveLayout
  BY <1>2, PersistKeeps DEF TimerFires, HandleSaveLayout
<1>3. CASE Answer
  BY <1>3, SaveOrderKeeps, SaveSettingsKeeps, SaveSucceededKeeps DEF Answer
<1>4. CASE RefetchAnswered \/ RenderPage \/ EditRows
  BY <1>4, LoadKeeps
<1>5. CASE Leave
  BY <1>5, LeaveKeeps
<1>6. CASE UNCHANGED layoutVars
  <2>1. LoadsInv' /\ CopyInv' /\ SavesInv'
    BY <1>6 DEF layoutVars, LayoutInv, LoadsInv, CopyInv, SavesInv
  <2>2. DisplayInv'
    BY <1>6 DEF layoutVars, LayoutInv, DisplayInv, UnsavedIsShown, Running, NoCopy
  <2> QED  BY <2>1, <2>2 DEF LayoutInv
<1> QED
  BY <1>1, <1>2, <1>3, <1>4, <1>5, <1>6 DEF LayoutNext

THEOREM LayoutInvariant == LayoutSpec => []LayoutInv
BY LayoutInitInv, LayoutStep, PTL DEF LayoutSpec

LEMMA SoundPage ==
  ASSUME NEW p, LayoutPage(p)
  PROVE  PageIsSound(p)
BY SitesAreSites DEF LayoutPage, PageIsSound, CatsOK

\* Every page, of the server, of the cache, of the copy and of every save, lists each
\* of its sites once, and the editor says so while its copy is not saved
\* (web/src/pages/app/links/page.tsx:150).
THEOREM EditorTellsTheTruth == LayoutSpec => []EditorIsSound
<1>1. ASSUME LayoutInv PROVE EditorIsSound
  <2>1. LayoutPage(draft) /\ LayoutPage(rendered) /\ (local # NoCopy => LayoutPage(local))
    BY <1>1 DEF LayoutInv, LoadsInv, CopyInv, LoadedPage, NoCopy
  <2>2. PageIsSound(draft) /\ PageIsSound(rendered) /\ (local # NoCopy => PageIsSound(local))
    BY <2>1, SoundPage
  <2>3. \A sv \in saves : LayoutPage(sv.page) /\ sv.revision \in 0 .. MaxChanges
    BY <1>1 DEF LayoutInv, SavesInv, SaveOK
  <2>4. \A sv \in saves : PageIsSound(sv.page)
    BY <2>3, SoundPage
  <2>5. refetch.step \in {"none", "asked", "delivered"}
    BY <1>1 DEF LayoutInv, LoadsInv, LoadsOK
  <2> QED  BY <1>1, <2>2, <2>3, <2>4, <2>5 DEF EditorIsSound, LayoutTypeOK, LayoutInv, DisplayInv
<1> QED
  BY <1>1, LayoutInvariant, PTL

\* Whatever a drag crosses, the copy holds the sites that were shown
\* (web/src/pages/app/links/page.tsx:652-765).
THEOREM DragsRearrange == LayoutSpec => DragsKeepSites
<1>1. ASSUME LayoutInv, [LayoutNext]_layoutVars, local' # local, local' # NoCopy
      PROVE  SitesIn(local'.cats) = SitesIn(Shown.cats)
  <2>1. CASE Lay
    BY <1>1, <2>1, LayLeaves
  <2>2. CASE TimerFires \/ HandleSaveLayout \/ RefetchAnswered \/ RenderPage \/ EditRows
             \/ UNCHANGED layoutVars
    BY <1>1, <2>2 DEF TimerFires, HandleSaveLayout, RefetchAnswered, RenderPage, EditRows,
      editorVars, layoutVars
  <2>3. CASE Answer
    <3>1. PICK sv \in saves : SaveOrder(sv) \/ SaveSettings(sv) \/ SaveSucceeded(sv)
      BY <2>3 DEF Answer
    <3>2. local' = local \/ local' = NoCopy
      BY <3>1 DEF SaveOrder, SaveSettings, SaveSucceeded, SaveFailed, editorVars
    <3> QED  BY <1>1, <3>2
  <2>4. CASE Leave
    BY <1>1, <2>4 DEF Leave
  <2> QED  BY <1>1, <2>1, <2>2, <2>3, <2>4 DEF LayoutNext
<1>2. LayoutInv /\ [LayoutNext]_layoutVars =>
        [local' # local /\ local' # NoCopy => SitesIn(local'.cats) = SitesIn(Shown.cats)]_layoutVars
  BY <1>1
<1> QED
  BY <1>2, LayoutInvariant, PTL DEF LayoutSpec, DragsKeepSites

\* The look of a save lands only on the order it sent just before
\* (web/src/hooks/useQueries.ts:135-156).
THEOREM HalvesLandTogether == LayoutSpec => HalvesBelongTogether
<1>1. ASSUME LayoutInv, [LayoutNext]_layoutVars, draft'.look # draft.look
      PROVE  \E sv \in saves : draft'.look = sv.page.look /\ draft'.cats = sv.page.cats
  <2>1. LayoutPage(draft) /\ \A sv \in saves : SaveOK(sv, draft)
    BY <1>1 DEF LayoutInv, LoadsInv, SavesInv
  <2>2. CASE Answer
    <3>1. PICK sv \in saves : SaveOrder(sv) \/ SaveSettings(sv) \/ SaveSucceeded(sv)
      BY <2>2 DEF Answer
    <3>2. CASE SaveSettings(sv)
      <4>1. /\ sv.step = "settings" /\ sv.revision = draft.revision /\ WithinChanges
            /\ draft' = [draft EXCEPT !.look = sv.page.look, !.revision = @ + 1]
        BY <1>1, <3>2 DEF SaveSettings, SettingsAccepted
      <4>2. draft.cats = sv.page.cats /\ sv.page.look \in Templates
        BY <2>1, <4>1 DEF SaveOK, LayoutPage
      <4>3. PICK look \in Templates : look = sv.page.look
        BY <4>2
      <4>4. draft' = [draft EXCEPT !.look = look, !.revision = @ + 1]
        BY <4>1, <4>3
      <4>6. /\ [draft EXCEPT !.look = look, !.revision = @ + 1].cats = draft.cats
            /\ [draft EXCEPT !.look = look, !.revision = @ + 1].look = look
        BY <1>1, <4>1, DraftSaved
      <4>5. draft'.cats = draft.cats /\ draft'.look = look
        BY <4>4, <4>6
      <4> QED  BY <4>2, <4>3, <4>5
    <3>3. CASE SaveOrder(sv)
      <4>1. draft' = draft
            \/ (WithinChanges /\ draft' = [draft EXCEPT !.cats = sv.page.cats, !.revision = @ + 1])
        BY <3>3 DEF SaveOrder
      <4>2. CatsOK(sv.page.cats)
        BY <2>1 DEF SaveOK, LayoutPage
      <4>3. PICK cats : cats = sv.page.cats /\ CatsOK(cats)
        BY <4>2
      <4>4. draft' = draft
            \/ (WithinChanges /\ draft' = [draft EXCEPT !.cats = cats, !.revision = @ + 1])
        BY <4>1, <4>3
      <4>6. ASSUME WithinChanges
            PROVE  [draft EXCEPT !.cats = cats, !.revision = @ + 1].look = draft.look
        BY <1>1, <4>3, <4>6, DraftSaved
      <4>5. draft'.look = draft.look
        BY <4>4, <4>6
      <4> QED  BY <1>1, <4>5
    <3>4. CASE SaveSucceeded(sv)
      BY <1>1, <3>4 DEF SaveSucceeded
    <3> QED  BY <3>1, <3>2, <3>3, <3>4
  <2>3. CASE EditRows
    <3>1. \E cats : draft' = [draft EXCEPT !.cats = cats, !.revision = @ + 1]
      BY <2>3 DEF EditRows
    <3>2. draft'.look = draft.look
      BY <2>1, <3>1 DEF LayoutPage
    <3> QED  BY <1>1, <3>2
  <2>4. CASE Lay
    BY <1>1, <2>4, LayLeaves
  <2>5. CASE TimerFires \/ HandleSaveLayout \/ RefetchAnswered \/ RenderPage \/ Leave
             \/ UNCHANGED layoutVars
    BY <1>1, <2>5 DEF TimerFires, HandleSaveLayout, RefetchAnswered, RenderPage, Leave, layoutVars
  <2> QED  BY <1>1, <2>2, <2>3, <2>4, <2>5 DEF LayoutNext
<1>2. LayoutInv /\ [LayoutNext]_layoutVars =>
        [draft'.look # draft.look =>
           \E sv \in saves : draft'.look = sv.page.look /\ draft'.cats = sv.page.cats]_layoutVars
  BY <1>1
<1> QED
  BY <1>2, LayoutInvariant, PTL DEF LayoutSpec, HalvesBelongTogether
=============================================================================
