---------------------------- MODULE MCRoundTrip ----------------------------
(* Two images over three layers, at most two of them in a target.          *)
EXTENDS RoundTrip, TLC

CONSTANTS i1, i2, a, b, c

MCImages  == {i1, i2}
MCDigests == {a, b, c}
MCSymmetry == Permutations(MCImages) \cup Permutations(MCDigests)
=============================================================================
