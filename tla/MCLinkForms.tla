---------------------------- MODULE MCLinkForms ----------------------------
(* Two categories and room for none; two sites and room for a third.       *)
EXTENDS LinkForms, TLC

CONSTANTS c1, c2, s1, s2, s3, u1, u2

MCFirstRows ==
  [revision |-> 0,
   text |-> [i \in Items |-> IF i = s3 THEN Unborn ELSE RowText(i)],
   home |-> [s \in Sites |-> IF s = s1 THEN c1 ELSE c2],
   on |-> [i \in Items |-> TRUE]]
=============================================================================
