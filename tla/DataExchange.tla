---------------------------- MODULE DataExchange ----------------------------
(***************************************************************************)
(* Importing a file of links into a draft (internal/dataexchange).  A      *)
(* preview parses the file and stores it under a token; a commit names the *)
(* token, the sites it wants, a mode, the revision it saw and a key.  The  *)
(* commit is one transaction: it imports all it was asked to, consumes the *)
(* token and stores its answer under the key, or it changes nothing.       *)
(*                                                                         *)
(* A repeated request finds its answer and changes nothing either, so of   *)
(* the record of a key only its presence is kept.                          *)
(***************************************************************************)
EXTENDS DraftContent, Sequences

CONSTANTS
  File,     \* its sites: the name of their category, address, enabled
  Tokens,   \* previews of it
  Keys      \* values of Idempotency-Key

ASSUME FileAssumption ==
  File \in Seq([name : Names, url : Urls, enabled : BOOLEAN])

VARIABLES
  previews,  \* previews[t]: "none", "stored", "expired" or "consumed"
  answered,  \* keys with an answer not older than 24 hours
  landed     \* landed[t]: imports made from the preview

importVars == <<previews, answered, landed>>
vars == <<draftVars, importVars>>

-----------------------------------------------------------------------------

Preview(t) ==
  /\ previews[t] = "none"
  /\ previews' = [previews EXCEPT ![t] = "stored"]
  /\ UNCHANGED <<draftVars, answered, landed>>

\* After 15 minutes; the row is deleted by a later preview.
ExpirePreview(t) ==
  /\ previews[t] = "stored"
  /\ previews' = [previews EXCEPT ![t] = "expired"]
  /\ UNCHANGED <<draftVars, answered, landed>>

\* After 24 hours the next commit with the key deletes its record.
ForgetAnswer(k) ==
  /\ k \in answered
  /\ answered' = answered \ {k}
  /\ UNCHANGED <<draftVars, previews, landed>>

-----------------------------------------------------------------------------
(* The import itself: one chosen site after the other, on the rows replace *)
(* mode leaves.  New rows have unused ids; orders never tie, so which ones *)
(* does not matter.                                                        *)

Start(mode) ==
  [ok |-> TRUE,
   categories |-> IF mode = "replace" THEN Restrict(categories, {Uncategorized}) ELSE categories,
   sites |-> IF mode = "replace" THEN Restrict(sites, {}) ELSE sites]

Named(table, n) == {c \in DOMAIN table : table[c].name = n}

Refused(acc) == [acc EXCEPT !.ok = FALSE]

\* The category of that name, created if there is none and room for it.
WithCategory(acc, n) ==
  IF Named(acc.categories, n) # {} THEN acc
  ELSE LET unused == CategoryIds \ (DOMAIN acc.categories \cup DOMAIN categories)
       IN IF unused = {} \/ Cardinality(DOMAIN acc.categories) >= MaxCategories
            THEN Refused(acc)
            ELSE [acc EXCEPT !.categories = With(@, Min(unused),
                    [name |-> n, order |-> NextOrder(@, DOMAIN @)])]

\* Mutant: the orders of new sites start at 0.
WithSiteFromZero(acc, item) ==
  LET unused == SiteIds \ (DOMAIN acc.sites \cup DOMAIN sites)
      c == CHOOSE d \in Named(acc.categories, item.name) : TRUE
      inside == {s \in DOMAIN acc.sites \ DOMAIN sites : acc.sites[s].category = c}
  IN IF ~acc.ok \/ unused = {} \/ Cardinality(DOMAIN acc.sites) >= MaxSites
       THEN Refused(acc)
       ELSE [acc EXCEPT !.sites = With(@, Min(unused),
               [category |-> c, url |-> item.url,
                order |-> NextOrder(@, inside), enabled |-> item.enabled])]

WithSite(acc, item) ==
  LET unused == SiteIds \ (DOMAIN acc.sites \cup DOMAIN sites)
      c == CHOOSE d \in Named(acc.categories, item.name) : TRUE
      inside == {s \in DOMAIN acc.sites : acc.sites[s].category = c}
  IN IF ~acc.ok \/ unused = {} \/ Cardinality(DOMAIN acc.sites) >= MaxSites
       THEN Refused(acc)
       ELSE [acc EXCEPT !.sites = With(@, Min(unused),
               [category |-> c, url |-> item.url,
                order |-> NextOrder(@, inside), enabled |-> item.enabled])]

OnPage(table, u) == \E s \in DOMAIN table : table[s].url = u

\* Mutant: the category is created before the duplicate is noticed.
ImportedCategoryFirst(acc, item) ==
  IF ~acc.ok THEN acc
  ELSE IF OnPage(acc.sites, item.url) THEN WithCategory(acc, item.name)
  ELSE WithSite(WithCategory(acc, item.name), item)

\* Addresses already on the page are skipped.
Imported(acc, item) ==
  IF ~acc.ok \/ OnPage(acc.sites, item.url) THEN acc
  ELSE WithSite(WithCategory(acc, item.name), item)

\* The request lists the sites it wants in any order, each at most once; sites
\* with an invalid address are skipped as if it did not.
Requests == UNION {Injection(1 .. n, DOMAIN File) : n \in 0 .. Len(File)}

Outcome(mode, picked) ==
  LET after[n \in 0 .. Len(picked)] ==
        IF n = 0 THEN Start(mode) ELSE Imported(after[n - 1], File[picked[n]])
  IN after[Len(picked)]

\* Mutant: the preview is left to its expiry.
NotConsumed(t) == previews

Consumed(t) == [previews EXCEPT ![t] = "consumed"]

\* Mutant: only new sites count as a change.
AdvancesWithSites(mode, after) == DOMAIN after.sites # DOMAIN sites

\* An import that adds nothing advances the revision only in replace mode.
Advances(mode, after) == mode = "replace" \/ DOMAIN after.sites # DOMAIN sites

Commit(c, k, t, mode, picked) ==
  LET after == Outcome(mode, picked) IN
  /\ k \notin answered
  /\ Current(c)
  /\ previews[t] = "stored"
  /\ after.ok
  /\ categories' = after.categories
  /\ sites' = after.sites
  /\ IF Advances(mode, after) THEN Touch ELSE UNCHANGED revision
  /\ previews' = Consumed(t)
  /\ answered' = answered \cup {k}
  /\ landed' = [landed EXCEPT ![t] = @ + 1]
  /\ UNCHANGED <<page, clientVars, clearing>>

-----------------------------------------------------------------------------

Init ==
  /\ DraftInit
  /\ previews = [t \in Tokens |-> "none"]
  /\ answered = {}
  /\ landed = [t \in Tokens |-> 0]

\* The page of imports: a chosen file is checked ...
HandlePreview == \E t \in Tokens : Preview(t)

\* ... and what the user picked of it committed, in either mode, with the
\* revision of the page on the screen and a key that a repeated request keeps.
HandleCommit ==
  \E c \in Clients, k \in Keys, t \in Tokens, mode \in {"merge", "replace"}, picked \in Requests :
    Commit(c, k, t, mode, picked)

Import ==
  \/ HandlePreview \/ HandleCommit
  \/ \E t \in Tokens : ExpirePreview(t)
  \/ \E k \in Keys : ForgetAnswer(k)

\* Layouts are left out: an import meets them only through the revision, as it
\* meets any other edit.
Next ==
  \/ Import
  \/ LoadsAndEdits /\ UNCHANGED importVars
  \/ (ReadForClearing \/ ClearBackground) /\ UNCHANGED importVars

Spec == Init /\ [][Next]_vars

-----------------------------------------------------------------------------
(* Properties                                                              *)

TypeOK ==
  /\ DraftTypeOK
  /\ previews \in [Tokens -> {"none", "stored", "expired", "consumed"}]
  /\ answered \subseteq Keys
  /\ landed \in [Tokens -> Nat]

\* Edits and imports, in any order, leave rows of the right types within the
\* limits, each site in a category of the page, and no two orders equal.
TablesAreSound == TypeOK /\ OrdersDiffer /\ LimitsHold

\* A file is imported once from its preview, whatever is repeated, under
\* whatever key, after the key is forgotten too (requirements.md:86).
ImportedOnce == \A t \in Tokens : landed[t] <= 1

\* What the page had that an import in this mode keeps.
KeptSites(mode) == IF mode = "replace" THEN {} ELSE DOMAIN sites
KeptCategories(mode) == IF mode = "replace" THEN {Uncategorized} ELSE DOMAIN categories

\* An import does what its mode says, all of it.  Rows it keeps are untouched;
\* afterwards the page has just the addresses kept and those chosen, and the only
\* new categories are those a new site needed.
DoesWhatItSays(mode, picked) ==
  LET keptUrls == {sites[s].url : s \in KeptSites(mode)}
      new == DOMAIN sites' \ KeptSites(mode)
  IN /\ \A s \in KeptSites(mode) : s \in DOMAIN sites' /\ sites'[s] = sites[s]
     /\ \A d \in KeptCategories(mode) : d \in DOMAIN categories' /\ categories'[d] = categories[d]
     /\ {sites'[s].url : s \in new} = {File[i].url : i \in Range(picked)} \ keptUrls
     /\ DOMAIN categories' \ KeptCategories(mode) \subseteq {sites'[s].category : s \in new}

ImportDoesWhatItSays ==
  [][landed' # landed =>
       \A c \in Clients, k \in Keys, t \in Tokens, mode \in {"merge", "replace"}, picked \in Requests :
         Commit(c, k, t, mode, picked) => DoesWhatItSays(mode, picked)]_vars
=============================================================================
