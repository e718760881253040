--------------------------- MODULE MCPublication ---------------------------
(* A personal page that may register, or not yet, under a slug the system   *)
(* page can take meanwhile; two browser sessions with overlapping requests. *)
EXTENDS Publication, TLC

CONSTANTS p1, sys, c1, c2, alice, home

MCPersonal == {p1}
MCSlugs == {alice, home}
MCClients == {c1, c2}
MCDefaultSlug == p1 :> alice @@ sys :> home
MCSymmetry == Permutations(MCClients)
=============================================================================
