--------------------------- MODULE MCLayoutEditor ---------------------------
(* Two categories, two sites, and two looks.                               *)
EXTENDS LayoutEditor, TLC

CONSTANTS c1, c2, s1, s2, k1, k2

MCOpenedPage ==
  [revision |-> 0, look |-> k1,
   cats |-> <<[id |-> c1, sites |-> <<s1, s2>>], [id |-> c2, sites |-> <<>>]>>]
=============================================================================
