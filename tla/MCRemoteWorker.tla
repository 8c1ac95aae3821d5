---------------------------- MODULE MCRemoteWorker ----------------------------
(* One job, served by two overlapping calls.                                *)
EXTENDS RemoteWorker, TLC

CONSTANTS c1, c2, d1, d2

MCCaller == {c1, c2}
MCDoc == {d1, d2}
MCSymmetry == Permutations(MCCaller) \cup Permutations(MCDoc)
=============================================================================
