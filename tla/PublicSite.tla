----------------------------- MODULE PublicSite -----------------------------
(***************************************************************************)
(* What the publishing subsystem promises a visitor, with nothing of how   *)
(* drafts, settings or requests get there.  Pages issue editions; each is  *)
(* issued once, under one slug, from one revision of the page's draft.  A  *)
(* page is off the air or shows the edition it issued last.                *)
(***************************************************************************)
EXTENDS Integers, Sequences

CONSTANTS Pages,      \* navigation pages
          Slugs,      \* public addresses
          Revisions   \* revisions of a draft, natural numbers

VARIABLES editions,   \* every edition ever issued, in order
          shown       \* shown[p]: number of the edition p shows, 0 off the air

vars == <<editions, shown>>

Init ==
  /\ editions = << >>
  /\ shown = [p \in Pages |-> 0]

OnAir(p) == shown[p] # 0

\* A fresh edition replaces whatever the page showed.  Nobody else may be on
\* the air under its slug, and it never goes back behind an earlier edition.
Issue(p, s, r) ==
  /\ \A q \in Pages \ {p} : OnAir(q) => editions[shown[q]].slug # s
  /\ \A i \in 1 .. Len(editions) : editions[i].page = p => editions[i].revision <= r
  /\ editions' = Append(editions, [page |-> p, slug |-> s, revision |-> r])
  /\ shown' = [shown EXCEPT ![p] = Len(editions) + 1]

TakeDown(p) ==
  /\ shown' = [shown EXCEPT ![p] = 0]
  /\ UNCHANGED editions

Next ==
  \E p \in Pages :
    \/ TakeDown(p)
    \/ \E s \in Slugs, r \in Revisions : Issue(p, s, r)

Spec == Init /\ [][Next]_vars
=============================================================================
