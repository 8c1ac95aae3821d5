---------------------------- MODULE MCPublication ----------------------------
(* Two publishers and the three kinds of releases.                          *)
EXTENDS Publication, TLC

CONSTANTS p1, p2, shot, pre, given

MCPublisher == {p1, p2}
MCSymmetry == Permutations(MCPublisher)
=============================================================================
