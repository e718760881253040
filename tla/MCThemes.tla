----------------------------- MODULE MCThemes -----------------------------
(* The instance of each run is in its configuration.                       *)
EXTENDS Themes, TLC

CONSTANTS o1, o2, s1, s2, c1, c2, r1, r2

MCShipped == {"slate"}
MCBuiltins == {"slate", "mono"}
MCSymmetry ==
  Permutations(Owners) \cup Permutations(Slugs)
    \cup Permutations(Contents) \cup Permutations(Rows)
=============================================================================
