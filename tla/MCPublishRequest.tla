-------------------------- MODULE MCPublishRequest --------------------------
(* Three requests under two keys, for two revisions of the draft. *)
EXTENDS PublishRequest, TLC

CONSTANTS h1, h2, h3, k1, k2

MCHandlers == {h1, h2, h3}
MCKeys == {k1, k2}
MCBodies == {0, 1}
MCSymmetry == Permutations(MCHandlers) \cup Permutations(MCKeys)
=============================================================================
