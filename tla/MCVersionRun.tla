----------------------------- MODULE MCVersionRun -----------------------------
(* Two runs and an operator; one pinned file of the checkpoint and one that *)
(* is only in the inventory, which is the weights.                          *)
EXTENDS VersionRun, TLC

CONSTANTS w1, w2, x

MCChecks == <<[kind |-> "pin", file |-> "manifest"],
              [kind |-> "tree", file |-> "weights"]>>

(* The run manifest of one training is of its weights.                      *)
MCCites == {<<1, 1>>, <<2, 2>>}
MCLinks == {<<1, 2>>}

Interchangeable == Permutations(Runner)
=============================================================================
