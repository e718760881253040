------------------------------ MODULE MCNames ------------------------------
(***************************************************************************)
(* Two users, a label that is reviewed and one that is not, one custom     *)
(* domain, and a budget of requests, reviews and acts of the other user.   *)
(***************************************************************************)
EXTENDS Names

CONSTANTS nav, links, custom, none

MCLabels == {nav, links}
MCShortLabels == {nav}
MCHosts == {custom}
=============================================================================
