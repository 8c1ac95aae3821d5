------------------------------- MODULE Workflow -------------------------------
(***************************************************************************)
(* What the workflow promises to whoever reads its state file, with nothing *)
(* of how a task is carried out: tasks run strictly one after the other in  *)
(* the order of the configuration, a task that succeeded stays so, one      *)
(* exhausted task fails the whole workflow in the same save, and a          *)
(* workflow that completed, failed or was stopped never moves again.        *)
(***************************************************************************)
EXTENDS Naturals

CONSTANT NumTasks

VARIABLES
    wf,         \* status of the workflow
    status      \* status of each task

vars == <<wf, status>>

Task == 1 .. NumTasks

Init == wf = "active" /\ status = [t \in Task |-> "pending"]

(* Only the first task that has not succeeded may move.                     *)
Current(t) ==
    /\ wf = "active"
    /\ status[t] # "succeeded"
    /\ \A s \in Task : s < t => status[s] = "succeeded"

Start(t) ==
    /\ Current(t)
    /\ status' = [status EXCEPT ![t] = "running"]
    /\ UNCHANGED wf

Retry(t) ==
    /\ Current(t)
    /\ status[t] = "running"
    /\ status' = [status EXCEPT ![t] = "pending"]
    /\ UNCHANGED wf

Succeed(t) ==
    /\ Current(t)
    /\ status[t] = "running"
    /\ status' = [status EXCEPT ![t] = "succeeded"]
    /\ UNCHANGED wf

GiveUp(t) ==
    /\ Current(t)
    /\ status[t] = "running"
    /\ status' = [status EXCEPT ![t] = "failed"]
    /\ wf' = "failed"

Complete ==
    /\ wf = "active"
    /\ \A t \in Task : status[t] = "succeeded"
    /\ wf' = "complete"
    /\ UNCHANGED status

Stop ==
    /\ wf = "active"
    /\ wf' = "stopped"
    /\ status' = [t \in Task |->
                    IF status[t] \in {"pending", "running"} THEN "stopped"
                                                            ELSE status[t]]

Next == Complete \/ Stop
        \/ \E t \in Task : Start(t) \/ Retry(t) \/ Succeed(t) \/ GiveUp(t)

Spec == Init /\ [][Next]_vars
=============================================================================
