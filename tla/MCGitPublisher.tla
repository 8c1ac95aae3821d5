---------------------------- MODULE MCGitPublisher ----------------------------
(* One path of the task and one of others; two contents.                      *)
EXTENDS GitPublisher
===============================================================================
