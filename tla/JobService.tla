------------------------------ MODULE JobService ------------------------------
(***************************************************************************)
(* What the remote worker promises to the controller about one job.  A job  *)
(* only goes forward, and an answer is no better than the job: "succeeded"  *)
(* and evidence are given for a job that was carried out, while "running"   *)
(* and "failed" may be wrong about a job that has been started.             *)
(***************************************************************************)
EXTENDS Naturals

CONSTANT Caller

VARIABLES
    stage,      \* how far the job is
    answer      \* what each caller was told last, "none" while it is asked

vars == <<stage, answer>>

Stages == <<"absent", "installed", "started", "done">>

(* The answers that are justified at each stage.                            *)
Justified(s) ==
    {"none", "error"}
    \cup (IF s # "absent" THEN {"installed", "pending", "running"} ELSE {})
    \cup (IF s \in {"started", "done"} THEN {"launched", "failed"} ELSE {})
    \cup (IF s = "done" THEN {"succeeded", "evidence"} ELSE {})

Init == stage = "absent" /\ answer = [c \in Caller |-> "none"]

Advance ==
    \E i \in 1 .. 3 : stage = Stages[i] /\ stage' = Stages[i + 1]

Tell(c) ==
    \E a \in Justified(stage') : answer' = [answer EXCEPT ![c] = a]

Next ==
    /\ Advance \/ UNCHANGED stage
    /\ (\E c \in Caller : Tell(c)) \/ UNCHANGED answer

Spec == Init /\ [][Next]_vars
=============================================================================
