------------------------------ MODULE Controller ------------------------------
(***************************************************************************)
(* The durable workflow controller of shadowcrafter.automation: one tick    *)
(* (AutomationController.run_once) advances one task by one phase and saves *)
(* every transition in the state file.  The controller process may die, or  *)
(* an exception may escape run_once, between any two of its effects: a      *)
(* save, the launch of a remote job, a publication, a Git push.  The next   *)
(* tick then starts again from the state file alone.                        *)
(*                                                                          *)
(* wf and task are the state file.  pc and cur are the memory of the tick   *)
(* that holds the controller lock.  The other variables are what lives      *)
(* outside the controller: the STOP file, the Git repository, the remote    *)
(* jobs, the model hub and the clock.                                       *)
(***************************************************************************)
EXTENDS Naturals, Sequences, FiniteSets

CONSTANTS
    NumTasks,           \* tasks of the frozen configuration, in their order
    RemoteTasks,        \* those of kind remote_model; the others are local
    DependsOn,          \* depends_on of each task
    MaxAttempts,        \* budget.max_attempts of each task
    MaxInterruptions,   \* bound: ticks that die, or raise, after a save
    MaxHead             \* bound: revisions of the local Git repository

Task == 1 .. NumTasks

ASSUME TasksAssumption ==
    /\ NumTasks \in Nat \ {0}
    /\ RemoteTasks \subseteq Task
    /\ \A s, t \in RemoteTasks : s = t

ASSUME DependsAssumption ==
    /\ DependsOn \in [Task -> SUBSET Task]
    /\ \A t \in Task : \A d \in DependsOn[t] : d < t

ASSUME BudgetAssumption == MaxAttempts \in [Task -> Nat \ {0}]

ASSUME BoundsAssumption == MaxInterruptions \in Nat /\ MaxHead \in Nat \ {0}

VARIABLES
    wf,             \* WorkflowState.status
    task,           \* WorkflowState.tasks
    pc,             \* where the current tick is; "idle" when no tick runs
    cur,            \* the task the current tick advances
    stop,           \* the STOP file exists
    head,           \* HEAD of the local Git repository
    jobs,           \* launched remote jobs, by what became of them
    hub,            \* releases on the main branch of the model repository
    parent,         \* hub commit frozen in the local release manifest
    pushed,         \* tasks whose commit reached the private remote branch
    overdue,        \* remote tasks past budget.max_runtime_seconds
    interruptions   \* ticks that died so far

persistent == <<wf, task>>
outside == <<stop, head, jobs, hub, parent, pushed, overdue>>
vars == <<wf, task, pc, cur, stop, head, jobs, hub, parent, pushed, overdue,
          interruptions>>

-----------------------------------------------------------------------------
WorkflowStatus == {"active", "complete", "failed", "stopped"}
TaskStatus == {"pending", "running", "succeeded", "failed", "stopped"}
Phase == {"start", "poll", "finalize", "publish", "commit"}
Location == {"idle", "local", "localDone", "start", "launched", "publish",
             "published", "commit", "committed", "return"}

(* A run id is <task id>-a<attempt>-<revision>; attempt 0 stands for None.  *)
RunId == [task : Nat, attempt : Nat, revision : Nat]
NoRun == [task |-> 0, attempt |-> 0, revision |-> 0]

TaskState == [status : TaskStatus, attempts : Nat, phase : Phase,
              source : Nat,        \* source_revision, 0 for None
              handle : RunId,      \* remote_handle.job_id
              published : RunId]   \* run behind published_commit

FreshTask == [status |-> "pending", attempts |-> 0, phase |-> "start",
              source |-> 0, handle |-> NoRun, published |-> NoRun]

Launched == jobs.running \cup jobs.succeeded \cup jobs.failed

(* The RUN_ID that _context renders into a command.                         *)
RunIdOf(t) == [task |-> t,
               attempt |-> IF task[t].attempts = 0 THEN 1 ELSE task[t].attempts,
               revision |-> task[t].source]

Eligible(t) ==
    /\ task[t].status # "succeeded"
    /\ \A d \in DependsOn[t] : task[d].status = "succeeded"

(* Faulty: any eligible task, not the first one.                            *)
IsNextUnordered(t) == Eligible(t)

(* The task a tick advances, and the one dry_run reports.                   *)
IsNext(t) == Eligible(t) /\ \A s \in Task : s < t => ~Eligible(s)

-----------------------------------------------------------------------------
Init ==
    /\ wf = "active"
    /\ task = [t \in Task |-> FreshTask]
    /\ pc = "idle"
    /\ cur = 0
    /\ stop = FALSE
    /\ head = 1
    /\ jobs = [running |-> {}, succeeded |-> {}, failed |-> {}]
    /\ hub = <<>>
    /\ parent = [t \in Task |-> 0]
    /\ pushed = {}
    /\ overdue = {}
    /\ interruptions = 0

Goto(location) == pc' = location /\ cur' = cur

(* A tick whose task is t, holding the lock and past the early returns.     *)
Tick(t) ==
    /\ pc = "idle"
    /\ wf = "active"
    /\ ~stop
    /\ IsNext(t)
    /\ cur' = t

Save(t, saved) == task' = [task EXCEPT ![t] = saved]

(* Faulty: the budget check is off by one.                                  *)
TerminalLate(t) == task[t].attempts > MaxAttempts[t]

(* The failure handlers of _advance_local and _start_remote: the attempt    *)
(* was counted when the task was marked running.                            *)
Terminal(t) == task[t].attempts >= MaxAttempts[t]

(* Faulty: the workflow status is not saved with the exhausted task.        *)
SaveFailedAttemptAlone(t) ==
    /\ Save(t, [task[t] EXCEPT
                  !.status = IF Terminal(t) THEN "failed" ELSE "pending",
                  !.phase = "start", !.source = 0, !.handle = NoRun])
    /\ UNCHANGED wf

SaveFailedAttempt(t) ==
    /\ Save(t, [task[t] EXCEPT
                  !.status = IF Terminal(t) THEN "failed" ELSE "pending",
                  !.phase = "start", !.source = 0, !.handle = NoRun])
    /\ wf' = IF Terminal(t) THEN "failed" ELSE wf

(* Faulty: the failed attempt is not counted.                               *)
MarkFailureUncounted(t, retryRemote) ==
    LET terminal == task[t].attempts >= MaxAttempts[t]
    IN /\ Save(t, IF terminal
                  THEN [task[t] EXCEPT !.status = "failed"]
                  ELSE IF retryRemote
                  THEN [task[t] EXCEPT !.status = "pending", !.phase = "start",
                                       !.handle = NoRun, !.source = 0]
                  ELSE task[t])
       /\ wf' = IF terminal THEN "failed" ELSE wf
       /\ overdue' = IF retryRemote /\ ~terminal THEN overdue \ {t} ELSE overdue

(* Faulty: a retry keeps the handle of the failed job.                      *)
MarkFailureKeepsHandle(t, retryRemote) ==
    LET attempts == task[t].attempts + (IF task[t].phase = "start" THEN 0 ELSE 1)
        terminal == attempts >= MaxAttempts[t]
        counted == [task[t] EXCEPT !.attempts = attempts]
    IN /\ Save(t, IF terminal
                  THEN [counted EXCEPT !.status = "failed"]
                  ELSE IF retryRemote
                  THEN [counted EXCEPT !.status = "pending", !.phase = "start"]
                  ELSE [counted EXCEPT !.status = "running"])
       /\ wf' = IF terminal THEN "failed" ELSE wf
       /\ overdue' = IF retryRemote /\ ~terminal THEN overdue \ {t} ELSE overdue

(* _mark_failure                                                            *)
MarkFailure(t, retryRemote) ==
    LET attempts == task[t].attempts + (IF task[t].phase = "start" THEN 0 ELSE 1)
        terminal == attempts >= MaxAttempts[t]
        counted == [task[t] EXCEPT !.attempts = attempts]
    IN /\ Save(t, IF terminal
                  THEN [counted EXCEPT !.status = "failed"]
                  ELSE IF retryRemote
                  THEN [counted EXCEPT !.status = "pending", !.phase = "start",
                                       !.handle = NoRun, !.source = 0]
                  ELSE [counted EXCEPT !.status = "running"])
       /\ wf' = IF terminal THEN "failed" ELSE wf
       /\ overdue' = IF retryRemote /\ ~terminal THEN overdue \ {t} ELSE overdue

-----------------------------------------------------------------------------
(* Early returns of run_once                                                *)

TickSettled ==
    /\ pc = "idle"
    /\ \/ wf \in {"complete", "failed"}
       \/ wf = "stopped" /\ ~stop
    /\ UNCHANGED vars

Halted(status) == IF status \in {"pending", "running"} THEN "stopped" ELSE status

(* Faulty: the STOP file is looked at before the settled statuses.          *)
TickStopFirst ==
    /\ pc = "idle"
    /\ stop
    /\ wf' = "stopped"
    /\ task' = [t \in Task |-> [task[t] EXCEPT !.status = Halted(@)]]
    /\ UNCHANGED <<pc, cur, outside, interruptions>>

TickStop ==
    /\ pc = "idle"
    /\ stop
    /\ wf \in {"active", "stopped"}
    /\ wf' = "stopped"
    /\ task' = [t \in Task |-> [task[t] EXCEPT !.status = Halted(@)]]
    /\ UNCHANGED <<pc, cur, outside, interruptions>>

TickNoTask ==
    /\ pc = "idle"
    /\ wf = "active"
    /\ ~stop
    /\ \A t \in Task : ~Eligible(t)
    /\ pc' = "return"
    /\ UNCHANGED <<persistent, cur, outside, interruptions>>

(* The last lines of a tick: the workflow is complete once every task is.   *)
Return ==
    /\ pc = "return"
    /\ pc' = "idle"
    /\ cur' = 0
    /\ wf' = IF \A t \in Task : task[t].status = "succeeded" THEN "complete" ELSE wf
    /\ UNCHANGED <<task, outside, interruptions>>

-----------------------------------------------------------------------------
(* Local tasks                                                              *)

AdvanceLocal(t) ==
    /\ Tick(t)
    /\ t \notin RemoteTasks
    /\ Save(t, [task[t] EXCEPT !.status = "running", !.attempts = @ + 1])
    /\ pc' = "local"
    /\ UNCHANGED <<wf, outside, interruptions>>

(* commit_and_push: the head moves only when something was staged.          *)
CommitAndPush(t) ==
    /\ pushed' = pushed \cup {t}
    /\ head' \in {head} \cup {h \in 1 .. MaxHead : h = head + 1}

LocalCommands ==
    /\ pc = "local"
    /\ CommitAndPush(cur)
    /\ Goto("localDone")
    /\ UNCHANGED <<persistent, stop, jobs, hub, parent, overdue, interruptions>>

(* Faulty: success is saved before the commit is pushed.                    *)
LocalSucceedsEarly ==
    /\ pc \in {"local", "localDone"}
    /\ Save(cur, [task[cur] EXCEPT !.status = "succeeded"])
    /\ Goto("return")
    /\ UNCHANGED <<wf, outside, interruptions>>

LocalSucceeds ==
    /\ pc = "localDone"
    /\ Save(cur, [task[cur] EXCEPT !.status = "succeeded"])
    /\ Goto("return")
    /\ UNCHANGED <<wf, outside, interruptions>>

LocalFails ==
    /\ pc \in {"local", "localDone"}
    /\ SaveFailedAttempt(cur)
    /\ Goto("return")
    /\ UNCHANGED <<outside, interruptions>>

-----------------------------------------------------------------------------
(* Remote tasks: start                                                      *)

(* Faulty: the attempt is not counted when the task starts.                 *)
StartRemoteUncounted(t) ==
    /\ Tick(t)
    /\ t \in RemoteTasks
    /\ task[t].status = "pending" \/ task[t].phase = "start"
    /\ Save(t, [task[t] EXCEPT !.status = "running", !.phase = "start",
                               !.source = head])
    /\ overdue' = overdue \ {t}
    /\ pc' = "start"
    /\ UNCHANGED <<wf, stop, head, jobs, hub, parent, pushed, interruptions>>

StartRemote(t) ==
    /\ Tick(t)
    /\ t \in RemoteTasks
    /\ task[t].status = "pending" \/ task[t].phase = "start"
    /\ Save(t, [task[t] EXCEPT !.status = "running", !.attempts = @ + 1,
                               !.phase = "start", !.source = head])
    /\ overdue' = overdue \ {t}
    /\ pc' = "start"
    /\ UNCHANGED <<wf, stop, head, jobs, hub, parent, pushed, interruptions>>

(* install_and_launch: the job exists from here on, saved or not.           *)
Launch ==
    /\ pc = "start"
    /\ jobs' = [jobs EXCEPT !.running = @ \cup {RunIdOf(cur)}]
    /\ Goto("launched")
    /\ UNCHANGED <<persistent, stop, head, hub, parent, pushed, overdue,
                   interruptions>>

SaveHandle ==
    /\ pc = "launched"
    /\ Save(cur, [task[cur] EXCEPT !.phase = "poll", !.handle = RunIdOf(cur)])
    /\ Goto("return")
    /\ UNCHANGED <<wf, outside, interruptions>>

(* Deployment, installation or launch failed, or the launch reply was lost. *)
StartFails ==
    /\ pc \in {"start", "launched"}
    /\ SaveFailedAttempt(cur)
    /\ Goto("return")
    /\ UNCHANGED <<outside, interruptions>>

-----------------------------------------------------------------------------
(* Remote tasks: the phases after the launch                                *)

TickPhase(t, phase) ==
    /\ Tick(t)
    /\ t \in RemoteTasks
    /\ task[t].status # "pending"
    /\ task[t].phase = phase

OutOfTime(t) ==
    /\ \E phase \in Phase \ {"start"} : TickPhase(t, phase)
    /\ t \in overdue
    /\ MarkFailure(t, FALSE)
    /\ pc' = "return"
    /\ UNCHANGED <<stop, head, jobs, hub, parent, pushed, interruptions>>

(* The job still runs, or the status call or the evidence fetch raised: the *)
(* state file is not touched either way.                                    *)
PollKeeps(t) ==
    /\ TickPhase(t, "poll")
    /\ t \notin overdue
    /\ pc' = "return"
    /\ UNCHANGED <<persistent, outside, interruptions>>

(* The worker reports a failure.  Its verdict may be wrong (a live job can   *)
(* look dead to it), so nothing is asked of the job.                        *)
PollFailed(t) ==
    /\ TickPhase(t, "poll")
    /\ t \notin overdue
    /\ MarkFailure(t, TRUE)
    /\ pc' = "return"
    /\ UNCHANGED <<stop, head, jobs, hub, parent, pushed, interruptions>>

(* Faulty: anything the worker does not call failed is taken as success.    *)
PollSucceededUnchecked(t) ==
    /\ TickPhase(t, "poll")
    /\ t \notin overdue
    /\ task[t].handle \in Launched
    /\ Save(t, [task[t] EXCEPT !.phase = "finalize"])
    /\ pc' = "return"
    /\ UNCHANGED <<wf, outside, interruptions>>

PollSucceeded(t) ==
    /\ TickPhase(t, "poll")
    /\ t \notin overdue
    /\ task[t].handle \in jobs.succeeded
    /\ Save(t, [task[t] EXCEPT !.phase = "finalize"])
    /\ pc' = "return"
    /\ UNCHANGED <<wf, outside, interruptions>>

(* The finalize commands write the release manifest, which freezes the      *)
(* commit the publication must find on the hub.                             *)
FinalizeSucceeds(t) ==
    /\ TickPhase(t, "finalize")
    /\ t \notin overdue
    /\ parent' = [parent EXCEPT ![t] = Len(hub)]
    /\ Save(t, [task[t] EXCEPT !.phase = "publish"])
    /\ pc' = "return"
    /\ UNCHANGED <<wf, stop, head, jobs, hub, pushed, overdue, interruptions>>

FinalizeFails(t) ==
    /\ TickPhase(t, "finalize")
    /\ t \notin overdue
    /\ MarkFailure(t, FALSE)
    /\ pc' = "return"
    /\ UNCHANGED <<stop, head, jobs, hub, parent, pushed, interruptions>>

Publish(t) ==
    /\ TickPhase(t, "publish")
    /\ t \notin overdue
    /\ pc' = "publish"
    /\ UNCHANGED <<persistent, outside, interruptions>>

(* The publish command: a compare-and-swap on the hub branch.               *)
HubAccepts ==
    /\ pc = "publish"
    /\ parent[cur] = Len(hub)
    /\ hub' = Append(hub, [task |-> cur, run |-> RunIdOf(cur)])
    /\ Goto("published")
    /\ UNCHANGED <<persistent, stop, head, jobs, parent, pushed, overdue,
                   interruptions>>

(* Faulty: a phase is saved that no later tick knows.                       *)
SavePublicationUnknownPhase ==
    /\ pc = "published"
    /\ Save(cur, [task[cur] EXCEPT !.phase = "committed",
                                   !.published = hub[Len(hub)].run])
    /\ Goto("return")
    /\ UNCHANGED <<wf, outside, interruptions>>

SavePublication ==
    /\ pc = "published"
    /\ Save(cur, [task[cur] EXCEPT !.phase = "commit",
                                   !.published = hub[Len(hub)].run])
    /\ Goto("return")
    /\ UNCHANGED <<wf, outside, interruptions>>

(* Faulty: a failed publication restarts the remote task.                   *)
PublishFailsRestarting ==
    /\ pc \in {"publish", "published"}
    /\ MarkFailure(cur, TRUE)
    /\ Goto("return")
    /\ UNCHANGED <<stop, head, jobs, hub, parent, pushed, interruptions>>

(* The command failed, or its receipt did not verify or could not be kept.  *)
PublishFails ==
    /\ pc \in {"publish", "published"}
    /\ MarkFailure(cur, FALSE)
    /\ Goto("return")
    /\ UNCHANGED <<stop, head, jobs, hub, parent, pushed, interruptions>>

Commit(t) ==
    /\ TickPhase(t, "commit")
    /\ t \notin overdue
    /\ pc' = "commit"
    /\ UNCHANGED <<persistent, outside, interruptions>>

CommitReaches ==
    /\ pc = "commit"
    /\ CommitAndPush(cur)
    /\ Goto("committed")
    /\ UNCHANGED <<persistent, stop, jobs, hub, parent, overdue, interruptions>>

CommitSucceeds ==
    /\ pc = "committed"
    /\ Save(cur, [task[cur] EXCEPT !.status = "succeeded"])
    /\ Goto("return")
    /\ UNCHANGED <<wf, outside, interruptions>>

CommitFails ==
    /\ pc \in {"commit", "committed"}
    /\ MarkFailure(cur, FALSE)
    /\ Goto("return")
    /\ UNCHANGED <<stop, head, jobs, hub, parent, pushed, interruptions>>

-----------------------------------------------------------------------------
(* The controller dies, or an exception that no handler catches ends the    *)
(* tick: the lock is released and only the state file survives.             *)
Interrupt ==
    /\ pc # "idle"
    /\ interruptions < MaxInterruptions
    /\ interruptions' = interruptions + 1
    /\ pc' = "idle"
    /\ cur' = 0
    /\ UNCHANGED <<persistent, outside>>

(* What happens around the controller.                                      *)
OperatorStops ==
    /\ stop' = ~stop
    /\ UNCHANGED <<persistent, pc, cur, head, jobs, hub, parent, pushed, overdue,
                   interruptions>>

OperatorCommits ==
    /\ head < MaxHead
    /\ head' = head + 1
    /\ UNCHANGED <<persistent, pc, cur, stop, jobs, hub, parent, pushed, overdue,
                   interruptions>>

JobEnds(r) ==
    /\ r \in jobs.running
    /\ \/ jobs' = [jobs EXCEPT !.running = @ \ {r}, !.succeeded = @ \cup {r}]
       \/ jobs' = [jobs EXCEPT !.running = @ \ {r}, !.failed = @ \cup {r}]
    /\ UNCHANGED <<persistent, pc, cur, stop, head, hub, parent, pushed, overdue,
                   interruptions>>

BudgetExpires(t) ==
    /\ t \in RemoteTasks \ overdue
    /\ task[t].status = "running"
    /\ overdue' = overdue \cup {t}
    /\ UNCHANGED <<persistent, pc, cur, stop, head, jobs, hub, parent, pushed,
                   interruptions>>

-----------------------------------------------------------------------------
LocalStep == (\E t \in Task : AdvanceLocal(t)) \/ LocalCommands \/ LocalSucceeds
             \/ LocalFails

RemoteStep ==
    \/ \E t \in Task :
         \/ StartRemote(t) \/ OutOfTime(t)
         \/ PollKeeps(t) \/ PollFailed(t) \/ PollSucceeded(t)
         \/ FinalizeSucceeds(t) \/ FinalizeFails(t)
         \/ Publish(t) \/ Commit(t)
    \/ Launch \/ SaveHandle \/ StartFails
    \/ HubAccepts \/ SavePublication \/ PublishFails
    \/ CommitReaches \/ CommitSucceeds \/ CommitFails

ControllerStep == TickStop \/ TickNoTask \/ Return \/ LocalStep \/ RemoteStep

Expire == \E t \in Task : BudgetExpires(t)

Environment == OperatorStops \/ OperatorCommits \/ Expire
               \/ \E r \in jobs.running : JobEnds(r)

Next == ControllerStep \/ TickSettled \/ Interrupt \/ Environment

Spec == Init /\ [][Next]_vars

(* launchd starts a tick again and again, and time passes.                  *)
FairSpec == Spec /\ WF_vars(ControllerStep) /\ WF_vars(Expire)
-----------------------------------------------------------------------------
(* Properties                                                               *)

(* Every variable has its type.                                             *)
TypeOK ==
    /\ wf \in WorkflowStatus
    /\ task \in [Task -> TaskState]
    /\ pc \in Location
    /\ cur \in Task \cup {0}
    /\ stop \in BOOLEAN
    /\ head \in Nat \ {0}
    /\ jobs \in [running : SUBSET RunId, succeeded : SUBSET RunId,
                 failed : SUBSET RunId]
    /\ hub \in Seq([task : Task, run : RunId])
    /\ parent \in [Task -> Nat]
    /\ pushed \subseteq Task
    /\ overdue \subseteq Task
    /\ interruptions \in Nat

(* A run id is launched once: whatever ticks died before, the id that       *)
(* _start_remote is about to install and launch names no earlier job, so a  *)
(* retry never lands in the directory of a job that already ran.            *)
FreshRunId == pc = "start" => RunIdOf(cur) \notin Launched

(* The handle a later tick polls names a job of this task that was really   *)
(* launched, at the source revision the task recorded (the helper of that   *)
(* revision is the one status and read-evidence are sent to).  It is the    *)
(* newest of the jobs launched for the task: the evidence of an orphan that *)
(* a lost reply left behind is never taken for the evidence of its retry.   *)
HandleIsLaunched ==
    \A t \in Task :
        IF task[t].phase = "start"
        THEN task[t].handle = NoRun
        ELSE /\ task[t].handle \in Launched
             /\ task[t].handle.task = t
             /\ task[t].handle.revision = task[t].source
             /\ \A r \in Launched : r.task = t => r.attempt <= task[t].handle.attempt

(* Every attempt is one more than the saved count, so a task can exceed its *)
(* max_attempts only by the ticks that died after counting one and by the   *)
(* second count _mark_failure takes for a phase after the launch.           *)
AttemptsBounded ==
    \A t \in Task : task[t].attempts <= MaxAttempts[t] + 1 + interruptions

(* A task publishes at most once, although publication and the save that    *)
(* records it are two steps: no path leads from a publication back to the   *)
(* finalize phase that would freeze the new hub commit as parent.           *)
OneReleasePerTask ==
    \A i, j \in DOMAIN hub : hub[i].task = hub[j].task => i = j

(* A release on the hub belongs to a task whose job succeeded and whose     *)
(* evidence was fetched; the handle survives in the state file so that the  *)
(* release can be traced, whatever happens after the publication.           *)
ReleaseHasSucceededJob ==
    \A i \in DOMAIN hub :
        LET t == hub[i].task
        IN /\ task[t].handle \in jobs.succeeded
           /\ task[t].phase \in {"publish", "commit"}

(* SUCCEEDED in the state file is never ahead of the world: the commit of a *)
(* succeeded task is on the private branch, and a remote task that          *)
(* succeeded has its release on the hub, recorded under the same run.       *)
SucceededIsReal ==
    \A t \in Task :
        task[t].status = "succeeded" =>
            /\ t \in pushed
            /\ t \in RemoteTasks =>
                 \E i \in DOMAIN hub :
                     hub[i].task = t /\ hub[i].run = task[t].published

(* The workflow status and the task statuses of one state file agree.       *)
StatusesAgree ==
    /\ wf = "complete" => \A t \in Task : task[t].status = "succeeded"
    /\ wf = "failed" <=> \E t \in Task : task[t].status = "failed"
    /\ wf = "stopped" => \A t \in Task : task[t].status \in {"succeeded", "stopped"}
    /\ wf = "active" => \A t \in Task : task[t].status # "stopped"

(* The controller implements the abstract workflow: through every crash,    *)
(* retry and lost reply the state file moves only as Workflow allows.       *)
Abstract == INSTANCE Workflow WITH status <- [t \in Task |-> task[t].status]
ImplementsWorkflow == Abstract!Spec

(* When ticks keep coming and time passes, the workflow settles: neither a  *)
(* job that never ends nor a phase that always fails keeps it active.       *)
Settles == <>(wf # "active")

(* Every release the hub accepted ends up in the state file of a settled    *)
(* workflow ("persist every transition").                                   *)
ReleasesAreRecorded ==
    wf \in {"complete", "failed"} =>
        \A i \in DOMAIN hub : task[hub[i].task].published = hub[i].run

(* A release can be traced to the run that produced it: the RUN_ID its      *)
(* publish command was given is the job id of the run.                      *)
ReleaseTracesToRun ==
    \A i \in DOMAIN hub : hub[i].run = task[hub[i].task].handle

-----------------------------------------------------------------------------
(* The inductive invariant behind the safety properties                     *)

(* Where a tick is, and what it still knows to be true of its task.         *)
TickInv ==
    /\ pc = "idle" => cur = 0
    /\ pc = "return" => wf \in {"active", "failed"}
    /\ pc \notin {"idle", "return"} =>
         /\ cur \in Task
         /\ wf = "active"
         /\ task[cur].status = "running"
         /\ task[cur].attempts > 0
         /\ cur \in RemoteTasks <=> pc \notin {"local", "localDone"}
    /\ pc \in {"start", "launched"} => task[cur].phase = "start"
    /\ pc \in {"localDone", "committed"} => cur \in pushed
    /\ pc = "launched" => RunIdOf(cur) \in Launched
    /\ pc \in {"publish", "published"} => task[cur].phase = "publish"
    /\ pc = "published" =>
         hub # <<>> /\ hub[Len(hub)] = [task |-> cur, run |-> RunIdOf(cur)]
    /\ pc \in {"commit", "committed"} => task[cur].phase = "commit"

(* No task is touched before all the earlier ones have succeeded.           *)
InOrder ==
    \A t \in Task :
        task[t].status \in {"running", "succeeded", "failed"} =>
            \A s \in Task : s < t => task[s].status = "succeeded"

(* Launched jobs carry the attempts their task has saved.                   *)
JobsInv ==
    /\ \A r \in Launched :
         /\ r.task \in RemoteTasks
         /\ r.attempt > 0 /\ r.attempt <= task[r.task].attempts
         /\ pc = "start" /\ cur = r.task => r.attempt < task[r.task].attempts
    /\ \A t \in Task :
         /\ task[t].phase # "start" =>
              t \in RemoteTasks /\ task[t].status # "pending"
         /\ task[t].phase \in {"finalize", "publish", "commit"} =>
              task[t].handle \in jobs.succeeded

(* How many attempts each situation of a task can have used.                *)
AttemptsInv ==
    \A t \in Task :
        /\ task[t].attempts <= MaxAttempts[t] + interruptions + 1
        /\ task[t].status = "pending" => task[t].attempts < MaxAttempts[t]
        /\ task[t].status = "running" =>
             /\ task[t].attempts <= MaxAttempts[t] + interruptions
             /\ \/ task[t].attempts < MaxAttempts[t] + interruptions
                \/ task[t].phase # "start"
                \/ cur = t /\ pc \notin {"idle", "return"}

(* Where the releases of a task leave its phase and its manifest.           *)
HubInv ==
    /\ \A i \in DOMAIN hub :
         /\ hub[i].task \in RemoteTasks
         /\ parent[hub[i].task] < i
         /\ task[hub[i].task].phase \in {"publish", "commit"}
    /\ \A t \in Task :
         /\ parent[t] <= Len(hub)
         /\ task[t].phase = "commit" =>
              \E i \in DOMAIN hub : hub[i].task = t /\ hub[i].run = task[t].published
         /\ task[t].status = "succeeded" =>
              t \in pushed /\ (t \in RemoteTasks => task[t].phase = "commit")

IInv ==
    /\ TypeOK
    /\ TickInv
    /\ InOrder
    /\ HandleIsLaunched
    /\ JobsInv
    /\ AttemptsInv
    /\ HubInv
    /\ OneReleasePerTask
    /\ StatusesAgree
=============================================================================
