----------------------------- MODULE MCAccounts -----------------------------
(***************************************************************************)
(* A member, two who would register on an invitation for one, and two      *)
(* browsers.                                                               *)
(***************************************************************************)
EXTENDS Accounts, TLC

CONSTANTS ann, bob, cid, laptop, phone

MCUsers == {ann, bob, cid}
MCMembers == {ann}
MCBrowsers == {laptop, phone}
MCSymmetry == Permutations({bob, cid}) \cup Permutations(MCBrowsers)
=============================================================================
