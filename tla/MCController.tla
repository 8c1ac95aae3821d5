----------------------------- MODULE MCController -----------------------------
(* A small workflow: a local task, the remote model task that depends on    *)
(* it, and a local task after both.                                         *)
EXTENDS Controller

MCRemoteTasks == {2}
MCDependsOn == <<{}, {1}, {}>>
MCMaxAttempts == <<1, 3, 1>>
=============================================================================
