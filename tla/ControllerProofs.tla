--------------------------- MODULE ControllerProofs ---------------------------
(***************************************************************************)
(* Every state the controller can reach satisfies the inductive invariant   *)
(* IInv of Controller, for every workflow, budget and bound, and with it    *)
(* the safety properties the model checker checks on a small instance.      *)
(***************************************************************************)
EXTENDS Controller, TLAPS, WellFoundedInduction, SequenceTheorems

-----------------------------------------------------------------------------
(* Numbers and types                                                        *)

(* The least-number principle, for sets.                                    *)
LEMMA LeastElement ==
    ASSUME NEW S \in SUBSET Nat, S # {}
    PROVE  \E m \in S : \A n \in S : m <= n
<1> DEFINE R == {ss \in Nat \X Nat : ss[1] < ss[2]}
<1>1. IsWellFoundedOn(R, Nat)
  BY NatLessThanWellFounded DEF OpToRel
<1>2. PICK m \in S : \A n \in S : <<n, m>> \notin R
  BY <1>1, WFMin
<1>3. ASSUME NEW n \in S PROVE m <= n
  <2>1. ~(n < m)
    BY <1>2
  <2> QED
    BY <2>1
<1> QED
  BY <1>3

LEMMA ConstantsType ==
    /\ NumTasks \in Nat
    /\ Task \subseteq Nat
    /\ RemoteTasks \subseteq Task
    /\ MaxAttempts \in [Task -> Nat]
    /\ \A t \in Task : MaxAttempts[t] > 0
  BY TasksAssumption, BudgetAssumption DEF Task

LEMMA TaskType ==
    ASSUME TypeOK, NEW t \in Task
    PROVE  /\ task[t] \in TaskState
           /\ task[t].status \in TaskStatus
           /\ task[t].attempts \in Nat
           /\ task[t].phase \in Phase
           /\ task[t].source \in Nat
           /\ task[t].handle \in RunId
           /\ task[t].published \in RunId
  BY DEF TypeOK, TaskState

LEMMA HubType ==
    ASSUME TypeOK
    PROVE  /\ Len(hub) \in Nat
           /\ DOMAIN hub = 1 .. Len(hub)
           /\ \A i \in DOMAIN hub : /\ hub[i] \in [task : Task, run : RunId]
                                    /\ hub[i].task \in Task
                                    /\ hub[i].run \in RunId
<1>1. hub \in Seq([task : Task, run : RunId])
  BY DEF TypeOK
<1>2. Len(hub) \in Nat /\ DOMAIN hub = 1 .. Len(hub)
  BY <1>1, LenProperties
<1>3. ASSUME NEW i \in DOMAIN hub PROVE hub[i] \in [task : Task, run : RunId]
  BY <1>1, <1>2, ElementOfSeq
<1> QED
  BY <1>2, <1>3

(* The task a tick may advance is the first that has not succeeded: its     *)
(* depends_on adds nothing to the order of the configuration.               *)
Current(t) ==
    /\ t \in Task
    /\ task[t].status # "succeeded"
    /\ \A s \in Task : s < t => task[s].status = "succeeded"

LEMMA NextIsCurrent ==
    ASSUME NEW t \in Task, IsNext(t)
    PROVE  Current(t)
<1>1. task[t].status # "succeeded"
  BY DEF IsNext, Eligible
<1> DEFINE S == {s \in Task : s < t /\ task[s].status # "succeeded"}
<1>2. ASSUME S # {} PROVE FALSE
  <2>1. PICK m \in S : \A n \in S : m <= n
    BY <1>2, ConstantsType, LeastElement
  <2>2. ASSUME NEW d \in DependsOn[m] PROVE task[d].status = "succeeded"
    <3>1. d \in Task /\ d < m
      BY <2>1, <2>2, DependsAssumption
    <3>2. d \in Nat /\ m \in Nat /\ t \in Nat
      BY <3>1, <2>1, ConstantsType
    <3> QED
      BY <2>1, <3>1, <3>2
  <2>3. Eligible(m)
    BY <2>1, <2>2 DEF Eligible
  <2> QED
    BY <2>1, <2>3 DEF IsNext
<1> QED
  BY <1>1, <1>2 DEF Current

-----------------------------------------------------------------------------
(* What one save of the current task preserves                              *)

(* The state file after t was saved as saved.                               *)
SavedAs(t, saved) ==
    /\ saved \in TaskState
    /\ task' \in [Task -> TaskState]
    /\ task'[t] = saved
    /\ \A s \in Task : s # t => task'[s] = task[s]

LEMMA SaveIsSavedAs ==
    ASSUME TypeOK, NEW t \in Task, NEW saved \in TaskState, Save(t, saved)
    PROVE  SavedAs(t, saved)
  BY DEF Save, TypeOK, SavedAs

LEMMA SaveInOrder ==
    ASSUME InOrder, NEW t, Current(t), NEW saved, SavedAs(t, saved)
    PROVE  InOrder'
<1> SUFFICES ASSUME NEW u \in Task, NEW s \in Task, s < u,
                    task'[u].status \in {"running", "succeeded", "failed"}
             PROVE  task'[s].status = "succeeded"
  BY DEF InOrder
<1>1. CASE u = t
  BY <1>1, ConstantsType DEF Current, SavedAs
<1>2. CASE u # t
  <2>1. task[s].status = "succeeded"
    BY <1>2 DEF SavedAs, InOrder
  <2> QED
    BY <2>1 DEF Current, SavedAs
<1> QED
  BY <1>1, <1>2

LEMMA SaveStatuses ==
    ASSUME StatusesAgree, NEW t, Current(t), NEW saved, SavedAs(t, saved),
           wf = "active", wf' \in {"active", "failed"},
           saved.status # "stopped",
           wf' = "failed" <=> saved.status = "failed"
    PROVE  StatusesAgree'
<1>1. \A s \in Task : task[s].status \notin {"failed", "stopped"}
  BY DEF StatusesAgree
<1> QED
  BY <1>1 DEF StatusesAgree, SavedAs, Current

(* The handle is cleared on the way back to start, and otherwise kept.      *)
LEMMA SaveHandleIsLaunched ==
    ASSUME HandleIsLaunched, NEW t \in Task, NEW saved, SavedAs(t, saved),
           jobs' = jobs,
           \/ saved.phase = "start" /\ saved.handle = NoRun
           \/ /\ saved.phase # "start"
              /\ task[t].phase # "start"
              /\ saved.handle = task[t].handle
              /\ saved.source = task[t].source
    PROVE  HandleIsLaunched'
<1>1. Launched' = Launched
  BY DEF Launched
<1> QED
  BY <1>1 DEF HandleIsLaunched, SavedAs

(* No job appears, no count goes back, and a phase after the poll is        *)
(* entered with the handle of a job that succeeded.                         *)
LEMMA SaveJobsInv ==
    ASSUME TypeOK, JobsInv, NEW t \in Task, NEW saved, SavedAs(t, saved),
           jobs' = jobs,
           saved.attempts >= task[t].attempts,
           pc' = "start" => cur' = t /\ saved.attempts > task[t].attempts,
           saved.phase # "start" => t \in RemoteTasks /\ saved.status # "pending",
           saved.phase \in {"finalize", "publish", "commit"} =>
               saved.handle \in jobs.succeeded
    PROVE  JobsInv'
<1>1. Launched' = Launched
  BY DEF Launched
<1>2. Launched \subseteq RunId
  BY DEF Launched, TypeOK
<1>3. saved.attempts \in Nat /\ task[t].attempts \in Nat
  BY TaskType DEF SavedAs, TaskState
<1>4. ASSUME NEW r \in Launched
      PROVE  /\ r.task \in RemoteTasks
             /\ r.attempt > 0
             /\ r.attempt <= task'[r.task].attempts
             /\ pc' = "start" /\ cur' = r.task => r.attempt < task'[r.task].attempts
  <2>1. r.task \in RemoteTasks /\ r.task \in Task /\ r.attempt \in Nat
        /\ r.attempt > 0 /\ r.attempt <= task[r.task].attempts
    BY <1>2, ConstantsType DEF JobsInv, RunId
  <2>2. CASE r.task = t
    BY <1>3, <2>1, <2>2 DEF SavedAs
  <2>3. CASE r.task # t
    BY <2>1, <2>3 DEF SavedAs
  <2> QED
    BY <2>2, <2>3
<1>5. ASSUME NEW s \in Task
      PROVE  /\ task'[s].phase # "start" =>
                  s \in RemoteTasks /\ task'[s].status # "pending"
             /\ task'[s].phase \in {"finalize", "publish", "commit"} =>
                  task'[s].handle \in jobs.succeeded
  BY DEF SavedAs, JobsInv
<1> QED
  BY <1>1, <1>4, <1>5 DEF JobsInv

LEMMA SaveAttemptsInv ==
    ASSUME AttemptsInv, NEW t \in Task, NEW saved, SavedAs(t, saved),
           interruptions' = interruptions,
           pc \in {"idle", "return"} \/ cur = t,
           saved.attempts <= MaxAttempts[t] + interruptions + 1,
           saved.status = "pending" => saved.attempts < MaxAttempts[t],
           saved.status = "running" =>
               /\ saved.attempts <= MaxAttempts[t] + interruptions
               /\ \/ saved.attempts < MaxAttempts[t] + interruptions
                  \/ saved.phase # "start"
                  \/ cur' = t /\ pc' \notin {"idle", "return"}
    PROVE  AttemptsInv'
<1> SUFFICES ASSUME NEW u \in Task
             PROVE  /\ task'[u].attempts <= MaxAttempts[u] + interruptions + 1
                    /\ task'[u].status = "pending" => task'[u].attempts < MaxAttempts[u]
                    /\ task'[u].status = "running" =>
                         /\ task'[u].attempts <= MaxAttempts[u] + interruptions
                         /\ \/ task'[u].attempts < MaxAttempts[u] + interruptions
                            \/ task'[u].phase # "start"
                            \/ cur' = u /\ pc' \notin {"idle", "return"}
  BY DEF AttemptsInv
<1>1. CASE u = t
  BY <1>1 DEF SavedAs
<1>2. CASE u # t
  BY <1>2 DEF SavedAs, AttemptsInv
<1> QED
  BY <1>1, <1>2

(* The hub is untouched; a task with a release keeps to the phases after    *)
(* it, and succeeds only from the last one.                                 *)
LEMMA SaveHubInv ==
    ASSUME TypeOK, HubInv, NEW t \in Task, NEW saved, SavedAs(t, saved),
           hub' = hub, parent' = parent, pushed' = pushed,
           (\E i \in DOMAIN hub : hub[i].task = t) =>
               saved.phase \in {"publish", "commit"},
           saved.phase = "commit" =>
               \E i \in DOMAIN hub : hub[i].task = t /\ hub[i].run = saved.published,
           saved.status = "succeeded" =>
               t \in pushed /\ (t \in RemoteTasks => saved.phase = "commit")
    PROVE  HubInv'
<1>1. ASSUME NEW i \in DOMAIN hub
      PROVE  task'[hub[i].task].phase \in {"publish", "commit"}
  BY HubType DEF SavedAs, HubInv
<1>2. ASSUME NEW s \in Task
      PROVE  /\ task'[s].phase = "commit" =>
                  \E i \in DOMAIN hub : hub[i].task = s /\ hub[i].run = task'[s].published
             /\ task'[s].status = "succeeded" =>
                  s \in pushed /\ (s \in RemoteTasks => task'[s].phase = "commit")
  BY DEF SavedAs, HubInv
<1> QED
  BY <1>1, <1>2 DEF HubInv

(* A save that ends a tick: the conditions of the lemmas above together.    *)
LEMMA ReturnSaveInv ==
    ASSUME IInv, NEW t, Current(t), NEW saved, SavedAs(t, saved),
           wf = "active", wf' \in {"active", "failed"},
           pc = "idle" \/ cur = t, pc' = "return", cur' = t,
           UNCHANGED <<stop, head, jobs, hub, parent, pushed, interruptions>>,
           overdue' \subseteq Task,
           saved.status # "stopped",
           wf' = "failed" <=> saved.status = "failed",
           \/ saved.phase = "start" /\ saved.handle = NoRun
           \/ /\ saved.phase # "start"
              /\ task[t].phase # "start"
              /\ saved.handle = task[t].handle
              /\ saved.source = task[t].source,
           saved.attempts >= task[t].attempts,
           saved.phase # "start" => t \in RemoteTasks /\ saved.status # "pending",
           saved.phase \in {"finalize", "publish", "commit"} =>
               saved.handle \in jobs.succeeded,
           saved.attempts <= MaxAttempts[t] + interruptions + 1,
           saved.status = "pending" => saved.attempts < MaxAttempts[t],
           saved.status = "running" =>
               /\ saved.attempts <= MaxAttempts[t] + interruptions
               /\ \/ saved.attempts < MaxAttempts[t] + interruptions
                  \/ saved.phase # "start",
           (\E i \in DOMAIN hub : hub[i].task = t) =>
               saved.phase \in {"publish", "commit"},
           saved.phase = "commit" =>
               \E i \in DOMAIN hub : hub[i].task = t /\ hub[i].run = saved.published,
           saved.status = "succeeded" =>
               t \in pushed /\ (t \in RemoteTasks => saved.phase = "commit")
    PROVE  IInv'
<1>0. t \in Task
  BY DEF Current
<1>1. TypeOK'
  BY <1>0 DEF IInv, TypeOK, SavedAs, WorkflowStatus, Location
<1>2. TickInv'
  BY DEF TickInv
<1>3. InOrder'
  BY SaveInOrder DEF IInv
<1>4. HandleIsLaunched'
  BY <1>0, SaveHandleIsLaunched DEF IInv
<1>5. JobsInv'
  BY <1>0, SaveJobsInv DEF IInv
<1>6. AttemptsInv'
  BY <1>0, SaveAttemptsInv DEF IInv
<1>7. HubInv'
  BY <1>0, SaveHubInv DEF IInv
<1>8. OneReleasePerTask'
  BY DEF IInv, OneReleasePerTask
<1>9. StatusesAgree'
  BY SaveStatuses DEF IInv
<1> QED
  BY <1>1, <1>2, <1>3, <1>4, <1>5, <1>6, <1>7, <1>8, <1>9 DEF IInv

(* A task in the middle of a tick is the current task.                      *)
LEMMA BusyIsCurrent ==
    ASSUME IInv, pc \notin {"idle", "return"}
    PROVE  /\ Current(cur)
           /\ cur \in Task
           /\ wf = "active"
           /\ task[cur].status = "running"
           /\ task[cur].attempts > 0
           /\ task[cur].attempts <= MaxAttempts[cur] + interruptions
<1>1. cur \in Task /\ wf = "active" /\ task[cur].status = "running"
      /\ task[cur].attempts > 0
  BY DEF IInv, TickInv
<1> QED
  BY <1>1 DEF IInv, InOrder, Current, AttemptsInv

(* An active workflow has no failed or stopped task.                        *)
LEMMA ActiveTasks ==
    ASSUME IInv, wf = "active", NEW t \in Task
    PROVE  task[t].status \in {"pending", "running", "succeeded"}
<1>1. task[t].status \in TaskStatus
  BY TaskType DEF IInv
<1> QED
  BY <1>1 DEF IInv, StatusesAgree, TaskStatus

LEMMA TickIsCurrent ==
    ASSUME IInv, NEW t \in Task, Tick(t)
    PROVE  /\ Current(t)
           /\ wf = "active"
           /\ pc = "idle"
           /\ cur' = t
           /\ task[t].status \in {"pending", "running"}
<1>1. Current(t) /\ wf = "active" /\ pc = "idle" /\ cur' = t
  BY NextIsCurrent DEF Tick
<1> QED
  BY <1>1, ActiveTasks DEF Current

-----------------------------------------------------------------------------
(* The saves of a failure                                                   *)

LEMMA SaveFailedAttemptFields ==
    ASSUME TypeOK, NEW t \in Task, SaveFailedAttempt(t)
    PROVE  \E saved :
             /\ SavedAs(t, saved)
             /\ saved.status = IF Terminal(t) THEN "failed" ELSE "pending"
             /\ saved.phase = "start"
             /\ saved.handle = NoRun
             /\ saved.attempts = task[t].attempts
             /\ wf' = IF Terminal(t) THEN "failed" ELSE wf
<1> DEFINE saved == [task[t] EXCEPT
                       !.status = IF Terminal(t) THEN "failed" ELSE "pending",
                       !.phase = "start", !.source = 0, !.handle = NoRun]
<1>1. /\ saved \in TaskState
      /\ saved.status = IF Terminal(t) THEN "failed" ELSE "pending"
      /\ saved.phase = "start"
      /\ saved.handle = NoRun
      /\ saved.attempts = task[t].attempts
  BY TaskType DEF TaskState, TaskStatus, Phase, NoRun, RunId
<1>2. Save(t, saved) /\ wf' = IF Terminal(t) THEN "failed" ELSE wf
  BY DEF SaveFailedAttempt
<1> HIDE DEF saved
<1> QED
  BY <1>1, <1>2, SaveIsSavedAs

LEMMA FailedAttemptInv ==
    ASSUME IInv, pc \in {"local", "localDone", "start", "launched"},
           SaveFailedAttempt(cur), Goto("return"), UNCHANGED outside,
           UNCHANGED interruptions
    PROVE  IInv'
<1>1. /\ Current(cur) /\ cur \in Task /\ wf = "active"
      /\ task[cur].attempts <= MaxAttempts[cur] + interruptions
  BY BusyIsCurrent
<1>2. PICK saved :
             /\ SavedAs(cur, saved)
             /\ saved.status = IF Terminal(cur) THEN "failed" ELSE "pending"
             /\ saved.phase = "start"
             /\ saved.handle = NoRun
             /\ saved.attempts = task[cur].attempts
             /\ wf' = IF Terminal(cur) THEN "failed" ELSE wf
  BY <1>1, SaveFailedAttemptFields DEF IInv
<1>3. task[cur].attempts \in Nat /\ MaxAttempts[cur] \in Nat /\ interruptions \in Nat
  BY <1>1, TaskType, ConstantsType DEF IInv, TypeOK
<1>4. saved.status = "pending" => saved.attempts < MaxAttempts[cur]
  BY <1>2, <1>3 DEF Terminal
<1>5. task[cur].phase = "start"
  BY <1>1 DEF IInv, TickInv, JobsInv
<1>6. ~\E i \in DOMAIN hub : hub[i].task = cur
  BY <1>5 DEF IInv, HubInv
<1>7. /\ pc' = "return" /\ cur' = cur
      /\ UNCHANGED <<stop, head, jobs, hub, parent, pushed, interruptions>>
      /\ overdue' \subseteq Task
  BY DEF Goto, outside, IInv, TypeOK
<1>8. /\ saved.attempts <= MaxAttempts[cur] + interruptions + 1
      /\ saved.attempts >= task[cur].attempts
  BY <1>1, <1>2, <1>3
<1>9. /\ wf' \in {"active", "failed"}
      /\ saved.status \in {"failed", "pending"}
      /\ wf' = "failed" <=> saved.status = "failed"
  BY <1>1, <1>2
<1> QED
  BY <1>1, <1>2, <1>4, <1>6, <1>7, <1>8, <1>9, ReturnSaveInv

LEMMA MarkFailureFields ==
    ASSUME TypeOK, NEW t \in Task, NEW retryRemote \in BOOLEAN,
           task[t].phase # "start", MarkFailure(t, retryRemote)
    PROVE  \E saved :
             /\ SavedAs(t, saved)
             /\ saved.attempts = task[t].attempts + 1
             /\ saved.published = task[t].published
             /\ \/ /\ saved.attempts >= MaxAttempts[t]
                   /\ saved.status = "failed"
                   /\ wf' = "failed"
                   /\ saved.phase = task[t].phase
                   /\ saved.handle = task[t].handle
                   /\ saved.source = task[t].source
                \/ /\ saved.attempts < MaxAttempts[t]
                   /\ retryRemote
                   /\ saved.status = "pending"
                   /\ wf' = wf
                   /\ saved.phase = "start"
                   /\ saved.handle = NoRun
                \/ /\ saved.attempts < MaxAttempts[t]
                   /\ ~retryRemote
                   /\ saved.status = "running"
                   /\ wf' = wf
                   /\ saved.phase = task[t].phase
                   /\ saved.handle = task[t].handle
                   /\ saved.source = task[t].source
<1> DEFINE attempts == task[t].attempts + 1
           counted == [task[t] EXCEPT !.attempts = attempts]
           failed == [counted EXCEPT !.status = "failed"]
           again == [counted EXCEPT !.status = "pending", !.phase = "start",
                                    !.handle = NoRun, !.source = 0]
           same == [counted EXCEPT !.status = "running"]
           terminal == attempts >= MaxAttempts[t]
           saved == IF terminal THEN failed ELSE IF retryRemote THEN again ELSE same
<1>1. Save(t, saved) /\ wf' = IF terminal THEN "failed" ELSE wf
  <2>1. task[t].attempts + (IF task[t].phase = "start" THEN 0 ELSE 1) = attempts
    OBVIOUS
  <2> QED
    BY <2>1 DEF MarkFailure
<1>2. attempts \in Nat /\ MaxAttempts[t] \in Nat
  BY TaskType, ConstantsType
<1>3. /\ counted \in TaskState
      /\ counted.attempts = attempts
      /\ counted.published = task[t].published
      /\ counted.phase = task[t].phase
      /\ counted.handle = task[t].handle
      /\ counted.source = task[t].source
  BY <1>2, TaskType DEF TaskState
<1> HIDE DEF counted, attempts
<1>4. /\ failed \in TaskState
      /\ failed.status = "failed"
      /\ failed.attempts = attempts
      /\ failed.published = task[t].published
      /\ failed.phase = task[t].phase
      /\ failed.handle = task[t].handle
      /\ failed.source = task[t].source
  BY <1>3 DEF TaskState, TaskStatus
<1>5. /\ same \in TaskState
      /\ same.status = "running"
      /\ same.attempts = attempts
      /\ same.published = task[t].published
      /\ same.phase = task[t].phase
      /\ same.handle = task[t].handle
      /\ same.source = task[t].source
  BY <1>3 DEF TaskState, TaskStatus
<1>6. /\ again \in TaskState
      /\ again.status = "pending"
      /\ again.attempts = attempts
      /\ again.published = task[t].published
      /\ again.phase = "start"
      /\ again.handle = NoRun
  BY <1>3 DEF TaskState, TaskStatus, Phase, NoRun, RunId
<1> HIDE DEF failed, same, again
<1>7. SavedAs(t, saved)
  BY <1>1, <1>4, <1>5, <1>6, SaveIsSavedAs
<1>8. CASE terminal
  BY <1>1, <1>4, <1>7, <1>8 DEF attempts
<1>9. CASE ~terminal /\ retryRemote
  BY <1>1, <1>2, <1>6, <1>7, <1>9 DEF attempts
<1>10. CASE ~terminal /\ ~retryRemote
  BY <1>1, <1>2, <1>5, <1>7, <1>10 DEF attempts
<1> QED
  BY <1>8, <1>9, <1>10

LEMMA MarkFailureInv ==
    ASSUME IInv, NEW t, Current(t), t \in RemoteTasks, wf = "active",
           task[t].status = "running", task[t].phase # "start",
           NEW retryRemote \in BOOLEAN, retryRemote => task[t].phase = "poll",
           MarkFailure(t, retryRemote),
           pc = "idle" \/ cur = t, pc' = "return", cur' = t,
           UNCHANGED <<stop, head, jobs, hub, parent, pushed, interruptions>>
    PROVE  IInv'
<1>1. t \in Task
  BY DEF Current
<1>2. PICK saved :
             /\ SavedAs(t, saved)
             /\ saved.attempts = task[t].attempts + 1
             /\ saved.published = task[t].published
             /\ \/ /\ saved.attempts >= MaxAttempts[t]
                   /\ saved.status = "failed"
                   /\ wf' = "failed"
                   /\ saved.phase = task[t].phase
                   /\ saved.handle = task[t].handle
                   /\ saved.source = task[t].source
                \/ /\ saved.attempts < MaxAttempts[t]
                   /\ retryRemote
                   /\ saved.status = "pending"
                   /\ wf' = wf
                   /\ saved.phase = "start"
                   /\ saved.handle = NoRun
                \/ /\ saved.attempts < MaxAttempts[t]
                   /\ ~retryRemote
                   /\ saved.status = "running"
                   /\ wf' = wf
                   /\ saved.phase = task[t].phase
                   /\ saved.handle = task[t].handle
                   /\ saved.source = task[t].source
  BY <1>1, MarkFailureFields DEF IInv
<1>3. task[t].attempts \in Nat /\ MaxAttempts[t] \in Nat /\ interruptions \in Nat
  BY <1>1, TaskType, ConstantsType DEF IInv, TypeOK
<1>4. task[t].attempts <= MaxAttempts[t] + interruptions
  BY <1>1 DEF IInv, AttemptsInv
<1>5. overdue' \subseteq Task
  BY DEF MarkFailure, IInv, TypeOK
<1>6. /\ wf' \in {"active", "failed"}
      /\ saved.status \in {"failed", "pending", "running"}
      /\ wf' = "failed" <=> saved.status = "failed"
  BY <1>2
<1>7. /\ saved.attempts >= task[t].attempts
      /\ saved.attempts <= MaxAttempts[t] + interruptions + 1
      /\ saved.status = "pending" => saved.attempts < MaxAttempts[t]
      /\ saved.status = "running" =>
           /\ saved.attempts <= MaxAttempts[t] + interruptions
           /\ saved.attempts < MaxAttempts[t] + interruptions
  BY <1>2, <1>3, <1>4
<1>8. \/ saved.phase = "start" /\ saved.handle = NoRun
      \/ /\ saved.phase # "start"
         /\ saved.handle = task[t].handle
         /\ saved.source = task[t].source
  BY <1>2
<1>9. saved.phase \in {"finalize", "publish", "commit"} =>
         saved.handle \in jobs.succeeded
  BY <1>1, <1>2 DEF IInv, JobsInv
<1>10. /\ (\E i \in DOMAIN hub : hub[i].task = t) =>
             saved.phase \in {"publish", "commit"}
       /\ saved.phase = "commit" =>
             \E i \in DOMAIN hub : hub[i].task = t /\ hub[i].run = saved.published
  BY <1>1, <1>2 DEF IInv, HubInv
<1> QED
  BY <1>1, <1>2, <1>5, <1>6, <1>7, <1>8, <1>9, <1>10, ReturnSaveInv

-----------------------------------------------------------------------------
(* The phases of a remote task                                              *)

LEMMA PhaseIsCurrent ==
    ASSUME IInv, NEW t \in Task, NEW phase, phase # "start", TickPhase(t, phase)
    PROVE  /\ Current(t)
           /\ t \in RemoteTasks
           /\ wf = "active"
           /\ pc = "idle"
           /\ cur' = t
           /\ task[t].status = "running"
           /\ task[t].phase = phase
  BY TickIsCurrent DEF TickPhase

LEMMA OutOfTimeInv ==
    ASSUME IInv, NEW t \in Task, OutOfTime(t)
    PROVE  IInv'
<1>1. PICK phase \in Phase \ {"start"} : TickPhase(t, phase)
  BY DEF OutOfTime
<1> QED
  BY <1>1, PhaseIsCurrent, MarkFailureInv DEF OutOfTime

LEMMA PollFailedInv ==
    ASSUME IInv, NEW t \in Task, PollFailed(t)
    PROVE  IInv'
<1>1. TickPhase(t, "poll")
  BY DEF PollFailed
<1>2. /\ Current(t) /\ t \in RemoteTasks /\ wf = "active" /\ pc = "idle"
      /\ cur' = t /\ task[t].status = "running" /\ task[t].phase = "poll"
  BY <1>1, PhaseIsCurrent
<1> QED
  BY <1>2, MarkFailureInv DEF PollFailed

LEMMA FinalizeFailsInv ==
    ASSUME IInv, NEW t \in Task, FinalizeFails(t)
    PROVE  IInv'
<1>1. TickPhase(t, "finalize")
  BY DEF FinalizeFails
<1>2. /\ Current(t) /\ t \in RemoteTasks /\ wf = "active" /\ pc = "idle"
      /\ cur' = t /\ task[t].status = "running" /\ task[t].phase = "finalize"
  BY <1>1, PhaseIsCurrent
<1> QED
  BY <1>2, MarkFailureInv DEF FinalizeFails

LEMMA PublishFailsInv ==
    ASSUME IInv, PublishFails
    PROVE  IInv'
<1>1. cur \in RemoteTasks /\ task[cur].phase = "publish" /\ pc \notin {"idle", "return"}
  BY DEF PublishFails, IInv, TickInv
<1> QED
  BY <1>1, BusyIsCurrent, MarkFailureInv DEF PublishFails, Goto

LEMMA CommitFailsInv ==
    ASSUME IInv, CommitFails
    PROVE  IInv'
<1>1. cur \in RemoteTasks /\ task[cur].phase = "commit" /\ pc \notin {"idle", "return"}
  BY DEF CommitFails, IInv, TickInv
<1> QED
  BY <1>1, BusyIsCurrent, MarkFailureInv DEF CommitFails, Goto

LEMMA PollSucceededInv ==
    ASSUME IInv, NEW t \in Task, PollSucceeded(t)
    PROVE  IInv'
<1> DEFINE saved == [task[t] EXCEPT !.phase = "finalize"]
<1>1. TickPhase(t, "poll") /\ task[t].handle \in jobs.succeeded /\ Save(t, saved)
      /\ pc' = "return" /\ UNCHANGED wf
      /\ UNCHANGED <<stop, head, jobs, hub, parent, pushed, overdue, interruptions>>
  BY DEF PollSucceeded, outside
<1>2. /\ Current(t) /\ t \in RemoteTasks /\ wf = "active" /\ pc = "idle"
      /\ cur' = t /\ task[t].status = "running" /\ task[t].phase = "poll"
  BY <1>1, PhaseIsCurrent
<1>3. /\ saved \in TaskState
      /\ saved.status = task[t].status
      /\ saved.attempts = task[t].attempts
      /\ saved.phase = "finalize"
      /\ saved.handle = task[t].handle
      /\ saved.source = task[t].source
  BY TaskType DEF IInv, TaskState, Phase
<1> HIDE DEF saved
<1>4. SavedAs(t, saved)
  BY <1>1, <1>3, SaveIsSavedAs DEF IInv
<1>5. /\ task[t].attempts \in Nat /\ MaxAttempts[t] \in Nat /\ interruptions \in Nat
      /\ task[t].attempts <= MaxAttempts[t] + interruptions
  BY <1>2, TaskType, ConstantsType DEF IInv, TypeOK, AttemptsInv
<1>6. /\ saved.attempts >= task[t].attempts
      /\ saved.attempts <= MaxAttempts[t] + interruptions
      /\ saved.attempts <= MaxAttempts[t] + interruptions + 1
  BY <1>3, <1>5
<1>7. ~\E i \in DOMAIN hub : hub[i].task = t
  BY <1>2 DEF IInv, HubInv
<1>8. overdue' \subseteq Task
  BY <1>1 DEF IInv, TypeOK
<1> QED
  BY <1>1, <1>2, <1>3, <1>4, <1>6, <1>7, <1>8, ReturnSaveInv

(* The manifest of a task changes only while the task has no release.       *)
LEMMA FinalizeSucceedsInv ==
    ASSUME IInv, NEW t \in Task, FinalizeSucceeds(t)
    PROVE  IInv'
<1> DEFINE saved == [task[t] EXCEPT !.phase = "publish"]
<1>1. /\ TickPhase(t, "finalize") /\ Save(t, saved) /\ pc' = "return"
      /\ parent' = [parent EXCEPT ![t] = Len(hub)]
      /\ UNCHANGED <<wf, stop, head, jobs, hub, pushed, overdue, interruptions>>
  BY DEF FinalizeSucceeds
<1>2. /\ Current(t) /\ t \in RemoteTasks /\ wf = "active" /\ pc = "idle"
      /\ cur' = t /\ task[t].status = "running" /\ task[t].phase = "finalize"
  BY <1>1, PhaseIsCurrent
<1>3. /\ saved \in TaskState
      /\ saved.status = task[t].status
      /\ saved.attempts = task[t].attempts
      /\ saved.phase = "publish"
      /\ saved.handle = task[t].handle
      /\ saved.source = task[t].source
  BY TaskType DEF IInv, TaskState, Phase
<1> HIDE DEF saved
<1>4. SavedAs(t, saved)
  BY <1>1, <1>3, SaveIsSavedAs DEF IInv
<1>5. task[t].attempts \in Nat /\ saved.attempts >= task[t].attempts
  BY <1>3, TaskType DEF IInv
<1>6. task[t].handle \in jobs.succeeded
  BY <1>2 DEF IInv, JobsInv
<1>7. Len(hub) \in Nat
  BY HubType DEF IInv
<1>8. TypeOK'
  BY <1>1, <1>4, <1>7, <1>2 DEF IInv, TypeOK, SavedAs, Location
<1>9. TickInv'
  BY <1>1 , <1>2 DEF TickInv
<1>10. InOrder'
  BY <1>2, <1>4, SaveInOrder DEF IInv
<1>11. HandleIsLaunched'
  BY <1>1, <1>2, <1>3, <1>4, SaveHandleIsLaunched DEF IInv
<1>12. JobsInv'
  BY <1>1, <1>2, <1>3, <1>4, <1>5, <1>6, SaveJobsInv DEF IInv
<1>13. AttemptsInv'
  <2>1. /\ saved.attempts <= MaxAttempts[t] + interruptions
        /\ saved.attempts <= MaxAttempts[t] + interruptions + 1
    BY <1>2, <1>3 DEF IInv, AttemptsInv
  <2> QED
    BY <1>1, <1>2, <1>3, <1>4, <2>1, SaveAttemptsInv DEF IInv
<1>14. HubInv'
  <2>1. ASSUME NEW i \in DOMAIN hub
        PROVE  /\ hub[i].task \in RemoteTasks
               /\ parent'[hub[i].task] < i
               /\ task'[hub[i].task].phase \in {"publish", "commit"}
    <3>1. hub[i].task \in Task /\ hub[i].task # t
      BY <1>2, HubType DEF IInv, HubInv
    <3>2. parent'[hub[i].task] = parent[hub[i].task]
      BY <1>1, <3>1 DEF IInv, TypeOK
    <3> QED
      BY <1>4, <3>1, <3>2 DEF IInv, HubInv, SavedAs
  <2>2. ASSUME NEW s \in Task
        PROVE  /\ parent'[s] <= Len(hub)
               /\ task'[s].phase = "commit" =>
                    \E i \in DOMAIN hub : hub[i].task = s /\ hub[i].run = task'[s].published
               /\ task'[s].status = "succeeded" =>
                    s \in pushed /\ (s \in RemoteTasks => task'[s].phase = "commit")
    <3>1. parent'[s] <= Len(hub)
      BY <1>1, <1>7 DEF IInv, TypeOK, HubInv
    <3> QED
      BY <1>2, <1>3, <1>4, <3>1 DEF IInv, HubInv, SavedAs
  <2> QED
    BY <1>1, <2>1, <2>2 DEF HubInv
<1>15. OneReleasePerTask'
  BY <1>1 DEF IInv, OneReleasePerTask
<1>16. StatusesAgree'
  BY <1>1, <1>2, <1>3, <1>4, SaveStatuses DEF IInv
<1> QED
  BY <1>8, <1>9, <1>10, <1>11, <1>12, <1>13, <1>14, <1>15, <1>16 DEF IInv

LEMMA SavePublicationInv ==
    ASSUME IInv, SavePublication
    PROVE  IInv'
<1> DEFINE run == hub[Len(hub)].run
           saved == [task[cur] EXCEPT !.phase = "commit", !.published = run]
<1>1. /\ pc = "published" /\ Save(cur, saved) /\ pc' = "return" /\ cur' = cur
      /\ UNCHANGED <<wf, stop, head, jobs, hub, parent, pushed, overdue, interruptions>>
  BY DEF SavePublication, Goto, outside
<1>2. /\ Current(cur) /\ cur \in Task /\ wf = "active" /\ task[cur].status = "running"
      /\ task[cur].attempts <= MaxAttempts[cur] + interruptions
  BY <1>1, BusyIsCurrent
<1>3. /\ cur \in RemoteTasks /\ task[cur].phase = "publish"
      /\ hub # <<>> /\ hub[Len(hub)].task = cur
  BY <1>1 DEF IInv, TickInv
<1>4. Len(hub) \in DOMAIN hub
  <2>1. hub \in Seq([task : Task, run : RunId])
    BY DEF IInv, TypeOK
  <2>2. Len(hub) \in Nat /\ Len(hub) # 0
    BY <1>3, <2>1, EmptySeq, LenProperties
  <2> QED
    BY <2>2, HubType DEF IInv
<1>5. run \in RunId
  BY <1>4, HubType DEF IInv
<1>6. /\ saved \in TaskState
      /\ saved.status = task[cur].status
      /\ saved.attempts = task[cur].attempts
      /\ saved.phase = "commit"
      /\ saved.published = run
      /\ saved.handle = task[cur].handle
      /\ saved.source = task[cur].source
  BY <1>2, <1>5, TaskType DEF IInv, TaskState, Phase
<1>7. \E i \in DOMAIN hub : hub[i].task = cur /\ hub[i].run = saved.published
  BY <1>3, <1>4, <1>6
<1> HIDE DEF saved
<1>8. SavedAs(cur, saved)
  BY <1>1, <1>2, <1>6, SaveIsSavedAs DEF IInv
<1>9. /\ saved.attempts >= task[cur].attempts
      /\ saved.attempts <= MaxAttempts[cur] + interruptions
      /\ saved.attempts <= MaxAttempts[cur] + interruptions + 1
  BY <1>2, <1>6, TaskType, ConstantsType DEF IInv, TypeOK
<1>10. saved.handle \in jobs.succeeded
  BY <1>2, <1>3, <1>6 DEF IInv, JobsInv
<1>11. overdue' \subseteq Task
  BY <1>1 DEF IInv, TypeOK
<1> QED
  BY <1>1, <1>2, <1>3, <1>6, <1>7, <1>8, <1>9, <1>10, <1>11, ReturnSaveInv

LEMMA CommitSucceedsInv ==
    ASSUME IInv, CommitSucceeds
    PROVE  IInv'
<1> DEFINE saved == [task[cur] EXCEPT !.status = "succeeded"]
<1>1. /\ pc = "committed" /\ Save(cur, saved) /\ pc' = "return" /\ cur' = cur
      /\ UNCHANGED <<wf, stop, head, jobs, hub, parent, pushed, overdue, interruptions>>
  BY DEF CommitSucceeds, Goto, outside
<1>2. /\ Current(cur) /\ cur \in Task /\ wf = "active"
      /\ task[cur].attempts <= MaxAttempts[cur] + interruptions
  BY <1>1, BusyIsCurrent
<1>3. cur \in RemoteTasks /\ task[cur].phase = "commit" /\ cur \in pushed
  BY <1>1 DEF IInv, TickInv
<1>4. /\ saved \in TaskState
      /\ saved.status = "succeeded"
      /\ saved.attempts = task[cur].attempts
      /\ saved.phase = task[cur].phase
      /\ saved.published = task[cur].published
      /\ saved.handle = task[cur].handle
      /\ saved.source = task[cur].source
  BY <1>2, TaskType DEF IInv, TaskState, TaskStatus
<1> HIDE DEF saved
<1>5. SavedAs(cur, saved)
  BY <1>1, <1>2, <1>4, SaveIsSavedAs DEF IInv
<1>6. /\ saved.attempts >= task[cur].attempts
      /\ saved.attempts <= MaxAttempts[cur] + interruptions
      /\ saved.attempts <= MaxAttempts[cur] + interruptions + 1
  BY <1>2, <1>4, TaskType, ConstantsType DEF IInv, TypeOK
<1>7. /\ saved.handle \in jobs.succeeded
      /\ \E i \in DOMAIN hub : hub[i].task = cur /\ hub[i].run = saved.published
  BY <1>2, <1>3, <1>4 DEF IInv, JobsInv, HubInv
<1>8. overdue' \subseteq Task
  BY <1>1 DEF IInv, TypeOK
<1> QED
  BY <1>1, <1>2, <1>3, <1>4, <1>5, <1>6, <1>7, <1>8, ReturnSaveInv

LEMMA SaveHandleInv ==
    ASSUME IInv, SaveHandle
    PROVE  IInv'
<1> DEFINE run == RunIdOf(cur)
           saved == [task[cur] EXCEPT !.phase = "poll", !.handle = run]
<1>1. /\ pc = "launched" /\ Save(cur, saved) /\ pc' = "return" /\ cur' = cur
      /\ UNCHANGED <<wf, stop, head, jobs, hub, parent, pushed, overdue, interruptions>>
  BY DEF SaveHandle, Goto, outside
<1>2. /\ Current(cur) /\ cur \in Task /\ wf = "active" /\ task[cur].status = "running"
      /\ task[cur].attempts <= MaxAttempts[cur] + interruptions
      /\ task[cur].attempts > 0
  BY <1>1, BusyIsCurrent
<1>3. cur \in RemoteTasks /\ task[cur].phase = "start" /\ run \in Launched
  BY <1>1 DEF IInv, TickInv
<1>4. /\ run \in RunId
      /\ run.task = cur
      /\ run.attempt = task[cur].attempts
      /\ run.revision = task[cur].source
  BY <1>2, TaskType, ConstantsType DEF IInv, RunIdOf, RunId
<1>5. /\ saved \in TaskState
      /\ saved.status = "running"
      /\ saved.attempts = task[cur].attempts
      /\ saved.phase = "poll"
      /\ saved.handle = run
      /\ saved.source = task[cur].source
  BY <1>2, <1>4, TaskType DEF IInv, TaskState, Phase
<1> HIDE DEF saved, run
<1>6. SavedAs(cur, saved)
  BY <1>1, <1>2, <1>5, SaveIsSavedAs DEF IInv
<1>7. /\ saved.attempts >= task[cur].attempts
      /\ saved.attempts <= MaxAttempts[cur] + interruptions
      /\ saved.attempts <= MaxAttempts[cur] + interruptions + 1
  BY <1>2, <1>5, TaskType, ConstantsType DEF IInv, TypeOK
<1>8. TypeOK'
  BY <1>1, <1>2, <1>6 DEF IInv, TypeOK, SavedAs, Location
<1>9. TickInv'
  BY <1>1, <1>2 DEF TickInv
<1>10. InOrder'
  BY <1>2, <1>6, SaveInOrder DEF IInv
<1>11. HandleIsLaunched'
  <2>1. Launched' = Launched
    BY <1>1 DEF Launched
  <2>2. \A r \in Launched : r.task = cur => r.attempt <= saved.handle.attempt
    BY <1>4, <1>5 DEF IInv, JobsInv
  <2> QED
    BY <1>3, <1>4, <1>5, <1>6, <2>1, <2>2 DEF IInv, HandleIsLaunched, SavedAs
<1>12. JobsInv'
  BY <1>1, <1>2, <1>3, <1>5, <1>6, <1>7, SaveJobsInv DEF IInv
<1>13. AttemptsInv'
  BY <1>1, <1>2, <1>5, <1>6, <1>7, SaveAttemptsInv DEF IInv
<1>14. HubInv'
  <2>1. ~\E i \in DOMAIN hub : hub[i].task = cur
    BY <1>3 DEF IInv, HubInv
  <2> QED
    BY <1>1, <1>2, <1>5, <1>6, <2>1, SaveHubInv DEF IInv
<1>15. OneReleasePerTask'
  BY <1>1 DEF IInv, OneReleasePerTask
<1>16. StatusesAgree'
  BY <1>1, <1>2, <1>5, <1>6, SaveStatuses DEF IInv
<1> QED
  BY <1>8, <1>9, <1>10, <1>11, <1>12, <1>13, <1>14, <1>15, <1>16 DEF IInv

LEMMA StartRemoteInv ==
    ASSUME IInv, NEW t \in Task, StartRemote(t)
    PROVE  IInv'
<1> DEFINE saved == [task[t] EXCEPT !.status = "running", !.attempts = @ + 1,
                                    !.phase = "start", !.source = head]
<1>1. /\ Tick(t) /\ t \in RemoteTasks /\ Save(t, saved) /\ pc' = "start"
      /\ task[t].status = "pending" \/ task[t].phase = "start"
      /\ overdue' = overdue \ {t}
      /\ UNCHANGED <<wf, stop, head, jobs, hub, parent, pushed, interruptions>>
  BY DEF StartRemote
<1>2. /\ Current(t) /\ wf = "active" /\ pc = "idle" /\ cur' = t
      /\ task[t].status \in {"pending", "running"}
  BY <1>1, TickIsCurrent
<1>3. task[t].phase = "start" /\ task[t].handle = NoRun
  BY <1>1 DEF IInv, JobsInv, HandleIsLaunched
<1>4. /\ task[t].attempts \in Nat /\ MaxAttempts[t] \in Nat /\ interruptions \in Nat
      /\ task[t].attempts + 1 \in Nat
      /\ head \in Nat
  BY TaskType, ConstantsType DEF IInv, TypeOK
<1>5. /\ saved \in TaskState
      /\ saved.status = "running"
      /\ saved.attempts = task[t].attempts + 1
      /\ saved.phase = "start"
      /\ saved.handle = task[t].handle
  BY <1>4, TaskType DEF IInv, TaskState, TaskStatus, Phase
<1> HIDE DEF saved
<1>6. SavedAs(t, saved)
  BY <1>1, <1>5, SaveIsSavedAs DEF IInv
<1>7. /\ saved.attempts > task[t].attempts
      /\ saved.attempts >= task[t].attempts
      /\ saved.attempts > 0
  BY <1>4, <1>5
<1>8. /\ saved.attempts <= MaxAttempts[t] + interruptions
      /\ saved.attempts <= MaxAttempts[t] + interruptions + 1
  <2>1. task[t].attempts < MaxAttempts[t] + interruptions
    BY <1>2, <1>3, <1>4 DEF IInv, AttemptsInv
  <2> QED
    BY <1>4, <1>5, <2>1
<1>9. TypeOK'
  BY <1>1, <1>2, <1>6 DEF IInv, TypeOK, SavedAs, Location
<1>10. TickInv'
  BY <1>1, <1>2, <1>5, <1>6, <1>7 DEF TickInv, SavedAs
<1>11. InOrder'
  BY <1>2, <1>6, SaveInOrder DEF IInv
<1>12. HandleIsLaunched'
  BY <1>1, <1>3, <1>5, <1>6, SaveHandleIsLaunched DEF IInv
<1>13. JobsInv'
  BY <1>1, <1>2, <1>5, <1>6, <1>7, SaveJobsInv DEF IInv
<1>14. AttemptsInv'
  BY <1>1, <1>2, <1>5, <1>6, <1>8, SaveAttemptsInv DEF IInv
<1>15. HubInv'
  <2>1. ~\E i \in DOMAIN hub : hub[i].task = t
    BY <1>3 DEF IInv, HubInv
  <2> QED
    BY <1>1, <1>5, <1>6, <2>1, SaveHubInv DEF IInv
<1>16. OneReleasePerTask'
  BY <1>1 DEF IInv, OneReleasePerTask
<1>17. StatusesAgree'
  BY <1>1, <1>2, <1>5, <1>6, SaveStatuses DEF IInv
<1> QED
  BY <1>9, <1>10, <1>11, <1>12, <1>13, <1>14, <1>15, <1>16, <1>17 DEF IInv

(* The job appears: its attempt is the saved one, its id is new.            *)
LEMMA LaunchInv ==
    ASSUME IInv, Launch
    PROVE  IInv'
<1> DEFINE run == RunIdOf(cur)
<1>1. /\ pc = "start" /\ pc' = "launched" /\ cur' = cur
      /\ jobs' = [jobs EXCEPT !.running = @ \cup {run}]
      /\ UNCHANGED <<wf, task, stop, head, hub, parent, pushed, overdue, interruptions>>
  BY DEF Launch, Goto, persistent
<1>2. /\ cur \in Task /\ wf = "active" /\ task[cur].status = "running"
      /\ task[cur].attempts > 0
  BY <1>1, BusyIsCurrent
<1>3. cur \in RemoteTasks /\ task[cur].phase = "start"
  BY <1>1 DEF IInv, TickInv
<1>4. /\ run \in RunId
      /\ run.task = cur
      /\ run.attempt = task[cur].attempts
  BY <1>2, TaskType, ConstantsType DEF IInv, RunIdOf, RunId
<1>5. run' = run
  BY <1>1 DEF RunIdOf
<1> HIDE DEF run
<1>6. jobs \in [running : SUBSET RunId, succeeded : SUBSET RunId, failed : SUBSET RunId]
  BY DEF IInv, TypeOK
<1>7. /\ jobs' \in [running : SUBSET RunId, succeeded : SUBSET RunId,
                    failed : SUBSET RunId]
      /\ Launched' = Launched \cup {run}
      /\ jobs'.succeeded = jobs.succeeded
  BY <1>1, <1>4, <1>6 DEF Launched
<1>8. TypeOK'
  BY <1>1, <1>7 DEF IInv, TypeOK, Location
<1>9. TickInv'
  BY <1>1, <1>2, <1>3, <1>5, <1>7 DEF TickInv, run
<1>10. InOrder'
  BY <1>1 DEF IInv, InOrder
<1>11. HandleIsLaunched'
  BY <1>1, <1>3, <1>4, <1>7 DEF IInv, HandleIsLaunched
<1>12. JobsInv'
  <2>1. ASSUME NEW r \in Launched'
        PROVE  /\ r.task \in RemoteTasks
               /\ r.attempt > 0 /\ r.attempt <= task[r.task].attempts
    <3>1. CASE r = run
      BY <1>2, <1>3, <1>4, <3>1, TaskType DEF IInv
    <3>2. CASE r \in Launched
      BY <3>2 DEF IInv, JobsInv
    <3> QED
      BY <1>7, <3>1, <3>2
  <2> QED
    BY <1>1, <1>7, <2>1 DEF IInv, JobsInv
<1>13. AttemptsInv'
  BY <1>1 DEF IInv, AttemptsInv
<1>14. HubInv'
  BY <1>1 DEF IInv, HubInv
<1>15. OneReleasePerTask'
  BY <1>1 DEF IInv, OneReleasePerTask
<1>16. StatusesAgree'
  BY <1>1 DEF IInv, StatusesAgree
<1> QED
  BY <1>8, <1>9, <1>10, <1>11, <1>12, <1>13, <1>14, <1>15, <1>16 DEF IInv

(* The publication: the frozen parent is the last commit of the hub, so no  *)
(* earlier release of the task is there.                                    *)
LEMMA HubAcceptsInv ==
    ASSUME IInv, HubAccepts
    PROVE  IInv'
<1> DEFINE run == RunIdOf(cur)
           release == [task |-> cur, run |-> run]
<1>1. /\ pc = "publish" /\ pc' = "published" /\ cur' = cur
      /\ parent[cur] = Len(hub) /\ hub' = Append(hub, release)
      /\ UNCHANGED <<wf, task, stop, head, jobs, parent, pushed, overdue, interruptions>>
  BY DEF HubAccepts, Goto, persistent
<1>2. /\ cur \in Task /\ wf = "active" /\ task[cur].status = "running"
      /\ task[cur].attempts > 0
  BY <1>1, BusyIsCurrent
<1>3. cur \in RemoteTasks /\ task[cur].phase = "publish"
  BY <1>1 DEF IInv, TickInv
<1>4. run \in RunId /\ run' = run
  BY <1>1, <1>2, TaskType, ConstantsType DEF IInv, RunIdOf, RunId
<1>5. release \in [task : Task, run : RunId] /\ release.task = cur
  BY <1>2, <1>4
<1>6. hub \in Seq([task : Task, run : RunId]) /\ Len(hub) \in Nat
      /\ DOMAIN hub = 1 .. Len(hub)
  BY HubType DEF IInv, TypeOK
<1> HIDE DEF run, release
<1>7. /\ hub' \in Seq([task : Task, run : RunId])
      /\ Len(hub') = Len(hub) + 1
      /\ DOMAIN hub' = 1 .. Len(hub) + 1
      /\ hub'[Len(hub) + 1] = release
      /\ \A i \in DOMAIN hub : hub'[i] = hub[i]
      /\ hub' # <<>>
  BY <1>1, <1>5, <1>6, AppendProperties, LenProperties, EmptySeq
<1>8. \A i \in DOMAIN hub : hub[i].task # cur
  BY <1>1, <1>6 DEF IInv, HubInv
<1>9. TypeOK'
  BY <1>1, <1>7 DEF IInv, TypeOK, Location
<1>10. TickInv'
  BY <1>1, <1>2, <1>3, <1>4, <1>7 DEF TickInv, release, run
<1>11. InOrder'
  BY <1>1 DEF IInv, InOrder
<1>12. HandleIsLaunched'
  BY <1>1 DEF IInv, HandleIsLaunched, Launched
<1>13. JobsInv'
  BY <1>1 DEF IInv, JobsInv, Launched
<1>14. AttemptsInv'
  BY <1>1 DEF IInv, AttemptsInv
<1>15. HubInv'
  <2>1. ASSUME NEW i \in DOMAIN hub'
        PROVE  /\ hub'[i].task \in RemoteTasks
               /\ parent[hub'[i].task] < i
               /\ task[hub'[i].task].phase \in {"publish", "commit"}
    <3>1. CASE i \in DOMAIN hub
      BY <1>7, <3>1 DEF IInv, HubInv
    <3>2. CASE i = Len(hub) + 1
      BY <1>1, <1>3, <1>5, <1>6, <1>7, <3>2
    <3> QED
      BY <1>6, <1>7, <3>1, <3>2
  <2>2. ASSUME NEW t \in Task
        PROVE  /\ parent[t] <= Len(hub')
               /\ task[t].phase = "commit" =>
                    \E i \in DOMAIN hub' :
                        hub'[i].task = t /\ hub'[i].run = task[t].published
    <3>1. parent[t] <= Len(hub')
      BY <1>6, <1>7 DEF IInv, TypeOK, HubInv
    <3>2. ASSUME task[t].phase = "commit"
          PROVE  \E i \in DOMAIN hub' :
                        hub'[i].task = t /\ hub'[i].run = task[t].published
      <4>1. PICK i \in DOMAIN hub : hub[i].task = t /\ hub[i].run = task[t].published
        BY <3>2 DEF IInv, HubInv
      <4>2. i \in DOMAIN hub' /\ hub'[i] = hub[i]
        BY <1>6, <1>7
      <4> QED
        BY <4>1, <4>2
    <3> QED
      BY <3>1, <3>2
  <2> QED
    BY <1>1, <2>1, <2>2 DEF IInv, HubInv
<1>16. OneReleasePerTask'
  <2>1. ASSUME NEW i \in DOMAIN hub', NEW j \in DOMAIN hub',
               hub'[i].task = hub'[j].task
        PROVE  i = j
    <3>1. CASE i \in DOMAIN hub /\ j \in DOMAIN hub
      BY <1>7, <2>1, <3>1 DEF IInv, OneReleasePerTask
    <3>2. CASE i = Len(hub) + 1
      BY <1>5, <1>6, <1>7, <1>8, <2>1, <3>2
    <3>3. CASE j = Len(hub) + 1
      BY <1>5, <1>6, <1>7, <1>8, <2>1, <3>3
    <3> QED
      BY <1>6, <1>7, <3>1, <3>2, <3>3
  <2> QED
    BY <2>1 DEF OneReleasePerTask
<1>17. StatusesAgree'
  BY <1>1 DEF IInv, StatusesAgree
<1> QED
  BY <1>9, <1>10, <1>11, <1>12, <1>13, <1>14, <1>15, <1>16, <1>17 DEF IInv

-----------------------------------------------------------------------------
(* Local tasks                                                              *)

LEMMA AdvanceLocalInv ==
    ASSUME IInv, NEW t \in Task, AdvanceLocal(t)
    PROVE  IInv'
<1> DEFINE saved == [task[t] EXCEPT !.status = "running", !.attempts = @ + 1]
<1>1. /\ Tick(t) /\ t \notin RemoteTasks /\ Save(t, saved) /\ pc' = "local"
      /\ UNCHANGED <<wf, stop, head, jobs, hub, parent, pushed, overdue, interruptions>>
  BY DEF AdvanceLocal, outside
<1>2. /\ Current(t) /\ wf = "active" /\ pc = "idle" /\ cur' = t
      /\ task[t].status \in {"pending", "running"}
  BY <1>1, TickIsCurrent
<1>3. task[t].phase = "start" /\ task[t].handle = NoRun
  BY <1>1 DEF IInv, JobsInv, HandleIsLaunched
<1>4. /\ task[t].attempts \in Nat /\ MaxAttempts[t] \in Nat /\ interruptions \in Nat
      /\ task[t].attempts + 1 \in Nat
  BY TaskType, ConstantsType DEF IInv, TypeOK
<1>5. /\ saved \in TaskState
      /\ saved.status = "running"
      /\ saved.attempts = task[t].attempts + 1
      /\ saved.phase = "start"
      /\ saved.handle = NoRun
  BY <1>3, <1>4, TaskType DEF IInv, TaskState, TaskStatus
<1> HIDE DEF saved
<1>6. SavedAs(t, saved)
  BY <1>1, <1>5, SaveIsSavedAs DEF IInv
<1>7. /\ saved.attempts >= task[t].attempts
      /\ saved.attempts > 0
  BY <1>4, <1>5
<1>8. /\ saved.attempts <= MaxAttempts[t] + interruptions
      /\ saved.attempts <= MaxAttempts[t] + interruptions + 1
  <2>1. task[t].attempts < MaxAttempts[t] + interruptions
    BY <1>2, <1>3, <1>4 DEF IInv, AttemptsInv
  <2> QED
    BY <1>4, <1>5, <2>1
<1>9. TypeOK'
  BY <1>1, <1>2, <1>6 DEF IInv, TypeOK, SavedAs, Location
<1>10. TickInv'
  BY <1>1, <1>2, <1>5, <1>6, <1>7 DEF TickInv, SavedAs
<1>11. InOrder'
  BY <1>2, <1>6, SaveInOrder DEF IInv
<1>12. HandleIsLaunched'
  BY <1>1, <1>5, <1>6, SaveHandleIsLaunched DEF IInv
<1>13. JobsInv'
  BY <1>1, <1>2, <1>5, <1>6, <1>7, SaveJobsInv DEF IInv
<1>14. AttemptsInv'
  BY <1>1, <1>2, <1>5, <1>6, <1>8, SaveAttemptsInv DEF IInv
<1>15. HubInv'
  <2>1. ~\E i \in DOMAIN hub : hub[i].task = t
    BY <1>3 DEF IInv, HubInv
  <2> QED
    BY <1>1, <1>5, <1>6, <2>1, SaveHubInv DEF IInv
<1>16. OneReleasePerTask'
  BY <1>1 DEF IInv, OneReleasePerTask
<1>17. StatusesAgree'
  BY <1>1, <1>2, <1>5, <1>6, SaveStatuses DEF IInv
<1> QED
  BY <1>9, <1>10, <1>11, <1>12, <1>13, <1>14, <1>15, <1>16, <1>17 DEF IInv

LEMMA LocalSucceedsInv ==
    ASSUME IInv, LocalSucceeds
    PROVE  IInv'
<1> DEFINE saved == [task[cur] EXCEPT !.status = "succeeded"]
<1>1. /\ pc = "localDone" /\ Save(cur, saved) /\ pc' = "return" /\ cur' = cur
      /\ UNCHANGED <<wf, stop, head, jobs, hub, parent, pushed, overdue, interruptions>>
  BY DEF LocalSucceeds, Goto, outside
<1>2. /\ Current(cur) /\ cur \in Task /\ wf = "active"
      /\ task[cur].attempts <= MaxAttempts[cur] + interruptions
  BY <1>1, BusyIsCurrent
<1>3. cur \notin RemoteTasks /\ cur \in pushed
  BY <1>1 DEF IInv, TickInv
<1>4. task[cur].phase = "start" /\ task[cur].handle = NoRun
  BY <1>2, <1>3 DEF IInv, JobsInv, HandleIsLaunched
<1>5. /\ saved \in TaskState
      /\ saved.status = "succeeded"
      /\ saved.attempts = task[cur].attempts
      /\ saved.phase = "start"
      /\ saved.handle = NoRun
  BY <1>2, <1>4, TaskType DEF IInv, TaskState, TaskStatus
<1> HIDE DEF saved
<1>6. SavedAs(cur, saved)
  BY <1>1, <1>2, <1>5, SaveIsSavedAs DEF IInv
<1>7. /\ saved.attempts >= task[cur].attempts
      /\ saved.attempts <= MaxAttempts[cur] + interruptions + 1
  BY <1>2, <1>5, TaskType, ConstantsType DEF IInv, TypeOK
<1>8. ~\E i \in DOMAIN hub : hub[i].task = cur
  BY <1>4 DEF IInv, HubInv
<1>9. overdue' \subseteq Task
  BY <1>1 DEF IInv, TypeOK
<1> QED
  BY <1>1, <1>2, <1>3, <1>5, <1>6, <1>7, <1>8, <1>9, ReturnSaveInv

(* A push: only the branch, the head and the place in the tick change.      *)
LEMMA CommitAndPushInv ==
    ASSUME IInv, pc \notin {"idle", "return"}, CommitAndPush(cur), cur' = cur,
           \/ pc = "local" /\ pc' = "localDone"
           \/ pc = "commit" /\ pc' = "committed",
           UNCHANGED <<wf, task, stop, jobs, hub, parent, overdue, interruptions>>
    PROVE  IInv'
<1>1. cur \in Task
  BY BusyIsCurrent
<1>2. /\ pushed' = pushed \cup {cur} /\ pushed' \subseteq Task
      /\ head' \in Nat \ {0}
  BY <1>1 DEF CommitAndPush, IInv, TypeOK
<1>3. TypeOK'
  BY <1>2 DEF IInv, TypeOK, Location
<1>4. TickInv'
  BY <1>2 DEF IInv, TickInv
<1>5. InOrder'
  BY DEF IInv, InOrder
<1>6. HandleIsLaunched'
  BY DEF IInv, HandleIsLaunched, Launched
<1>7. JobsInv'
  BY DEF IInv, JobsInv, Launched
<1>8. AttemptsInv'
  BY DEF IInv, AttemptsInv
<1>9. HubInv'
  BY <1>2 DEF IInv, HubInv
<1>10. OneReleasePerTask'
  BY DEF IInv, OneReleasePerTask
<1>11. StatusesAgree'
  BY DEF IInv, StatusesAgree
<1> QED
  BY <1>3, <1>4, <1>5, <1>6, <1>7, <1>8, <1>9, <1>10, <1>11 DEF IInv

-----------------------------------------------------------------------------
(* Steps that leave the state file alone                                    *)

(* A tick enters or leaves, or dies; the outside does not move.             *)
LEMMA MoveInv ==
    ASSUME IInv, TickInv', pc' \in Location, cur' \in Task \cup {0},
           pc' # "start",
           UNCHANGED <<wf, task, stop, head, jobs, hub, parent, pushed, overdue>>,
           \/ interruptions' = interruptions /\ pc \in {"idle", "return"}
           \/ interruptions' = interruptions + 1
    PROVE  IInv'
<1>1. interruptions \in Nat /\ interruptions' \in Nat /\ interruptions' >= interruptions
  BY DEF IInv, TypeOK
<1>2. TypeOK'
  BY <1>1 DEF IInv, TypeOK
<1>3. InOrder'
  BY DEF IInv, InOrder
<1>4. HandleIsLaunched'
  BY DEF IInv, HandleIsLaunched, Launched
<1>5. JobsInv'
  BY DEF IInv, JobsInv, Launched
<1>6. AttemptsInv'
  <2>1. ASSUME NEW t \in Task
        PROVE  /\ task[t].attempts <= MaxAttempts[t] + interruptions' + 1
               /\ task[t].status = "pending" => task[t].attempts < MaxAttempts[t]
               /\ task[t].status = "running" =>
                    /\ task[t].attempts <= MaxAttempts[t] + interruptions'
                    /\ \/ task[t].attempts < MaxAttempts[t] + interruptions'
                       \/ task[t].phase # "start"
    <3>1. task[t].attempts \in Nat /\ MaxAttempts[t] \in Nat
      BY TaskType, ConstantsType DEF IInv
    <3>2. /\ task[t].attempts <= MaxAttempts[t] + interruptions + 1
          /\ task[t].status = "pending" => task[t].attempts < MaxAttempts[t]
          /\ task[t].status = "running" =>
               /\ task[t].attempts <= MaxAttempts[t] + interruptions
               /\ \/ task[t].attempts < MaxAttempts[t] + interruptions
                  \/ task[t].phase # "start"
                  \/ pc \notin {"idle", "return"}
      BY DEF IInv, AttemptsInv
    <3> QED
      BY <1>1, <3>1, <3>2
  <2> QED
    BY <2>1 DEF AttemptsInv
<1>7. HubInv'
  BY DEF IInv, HubInv
<1>8. OneReleasePerTask'
  BY DEF IInv, OneReleasePerTask
<1>9. StatusesAgree'
  BY DEF IInv, StatusesAgree
<1> QED
  BY <1>2, <1>3, <1>4, <1>5, <1>6, <1>7, <1>8, <1>9 DEF IInv

LEMMA TickNoTaskInv ==
    ASSUME IInv, TickNoTask
    PROVE  IInv'
<1>1. TickInv'
  BY DEF TickNoTask, persistent, IInv, TickInv
<1>2. pc' \in Location /\ cur' \in Task \cup {0}
  BY DEF TickNoTask, Location, IInv, TypeOK
<1> QED
  BY <1>1, <1>2, MoveInv DEF TickNoTask, persistent, outside

LEMMA InterruptInv ==
    ASSUME IInv, Interrupt
    PROVE  IInv'
<1>1. TickInv'
  BY DEF Interrupt, TickInv
<1>2. pc' \in Location /\ cur' \in Task \cup {0}
  BY DEF Interrupt, Location
<1> QED
  BY <1>1, <1>2, MoveInv DEF Interrupt, persistent, outside

(* A phase that only reads: the tick is entered, nothing is saved yet.      *)
LEMMA ReadPhaseInv ==
    ASSUME IInv, NEW t \in Task, PollKeeps(t) \/ Publish(t) \/ Commit(t)
    PROVE  IInv'
<1>1. PICK phase \in {"poll", "publish", "commit"} :
         /\ TickPhase(t, phase)
         /\ phase = "poll" => pc' = "return"
         /\ phase = "publish" => pc' = "publish"
         /\ phase = "commit" => pc' = "commit"
         /\ UNCHANGED <<wf, task, stop, head, jobs, hub, parent, pushed, overdue,
                        interruptions>>
  BY DEF PollKeeps, Publish, Commit, persistent, outside
<1>2. /\ Current(t) /\ t \in RemoteTasks /\ wf = "active" /\ pc = "idle"
      /\ cur' = t /\ task[t].status = "running" /\ task[t].phase = phase
  BY <1>1, PhaseIsCurrent
<1>3. task[t].attempts > 0
  <2>1. task[t].phase # "start"
    BY <1>1, <1>2
  <2>2. task[t].handle \in Launched /\ task[t].handle.task = t
    BY <2>1 DEF IInv, HandleIsLaunched
  <2>3. task[t].handle.attempt > 0 /\ task[t].handle.attempt <= task[t].attempts
    BY <2>2 DEF IInv, JobsInv
  <2>4. task[t].handle.attempt \in Nat /\ task[t].attempts \in Nat
    BY TaskType DEF IInv, RunId
  <2> QED
    BY <2>3, <2>4
<1>4. TickInv'
  BY <1>1, <1>2, <1>3 DEF IInv, TickInv
<1>5. pc' \in Location /\ cur' \in Task \cup {0} /\ pc' # "start"
  BY <1>1, <1>2 DEF Location
<1> QED
  BY <1>1, <1>2, <1>4, <1>5, MoveInv

LEMMA ReturnInv ==
    ASSUME IInv, Return
    PROVE  IInv'
<1>1. /\ pc = "return" /\ pc' = "idle" /\ cur' = 0
      /\ UNCHANGED <<task, stop, head, jobs, hub, parent, pushed, overdue, interruptions>>
  BY DEF Return, outside
<1>2. TypeOK'
  BY <1>1 DEF Return, IInv, TypeOK, WorkflowStatus, Location
<1>3. TickInv'
  BY <1>1 DEF TickInv
<1>4. InOrder'
  BY <1>1 DEF IInv, InOrder
<1>5. HandleIsLaunched'
  BY <1>1 DEF IInv, HandleIsLaunched, Launched
<1>6. JobsInv'
  BY <1>1 DEF IInv, JobsInv, Launched
<1>7. AttemptsInv'
  BY <1>1 DEF IInv, AttemptsInv
<1>8. HubInv'
  BY <1>1 DEF IInv, HubInv
<1>9. OneReleasePerTask'
  BY <1>1 DEF IInv, OneReleasePerTask
<1>10. StatusesAgree'
  <2>1. wf \in {"active", "failed"}
    BY <1>1 DEF IInv, TickInv
  <2>2. CASE \A t \in Task : task[t].status = "succeeded"
    <3>1. wf' = "complete" /\ \A t \in Task : task'[t].status = "succeeded"
      BY <1>1, <2>2 DEF Return
    <3> QED
      BY <3>1 DEF StatusesAgree
  <2>3. CASE ~\A t \in Task : task[t].status = "succeeded"
    BY <1>1, <2>3 DEF Return, IInv, StatusesAgree
  <2> QED
    BY <2>2, <2>3
<1> QED
  BY <1>2, <1>3, <1>4, <1>5, <1>6, <1>7, <1>8, <1>9, <1>10 DEF IInv

LEMMA TickStopInv ==
    ASSUME IInv, TickStop
    PROVE  IInv'
<1>1. /\ pc = "idle" /\ cur = 0 /\ wf \in {"active", "stopped"} /\ wf' = "stopped"
      /\ UNCHANGED <<pc, cur, stop, head, jobs, hub, parent, pushed, overdue, interruptions>>
  BY DEF TickStop, outside, IInv, TickInv
<1>2. ASSUME NEW t \in Task
      PROVE  /\ task'[t] \in TaskState
             /\ task'[t].status = Halted(task[t].status)
             /\ task'[t].attempts = task[t].attempts
             /\ task'[t].phase = task[t].phase
             /\ task'[t].source = task[t].source
             /\ task'[t].handle = task[t].handle
             /\ task'[t].published = task[t].published
  <2> DEFINE halted == [task[t] EXCEPT !.status = Halted(@)]
  <2>1. task'[t] = halted
    BY DEF TickStop
  <2>2. Halted(task[t].status) \in TaskStatus
    BY TaskType DEF IInv, Halted, TaskStatus
  <2>3. /\ halted \in TaskState
        /\ halted.status = Halted(task[t].status)
        /\ halted.attempts = task[t].attempts
        /\ halted.phase = task[t].phase
        /\ halted.source = task[t].source
        /\ halted.handle = task[t].handle
        /\ halted.published = task[t].published
    BY <2>2, TaskType DEF IInv, TaskState
  <2> QED
    BY <2>1, <2>3
<1>3. task' \in [Task -> TaskState]
  BY <1>2 DEF TickStop
<1>4. ASSUME NEW t \in Task
      PROVE  /\ task[t].status = "succeeded" <=> task'[t].status = "succeeded"
             /\ task'[t].status \in {"succeeded", "stopped"}
  <2>1. /\ task'[t].status = Halted(task[t].status) /\ task[t].status \in TaskStatus
        /\ task[t].status # "failed"
    BY <1>1, <1>2, TaskType DEF IInv, StatusesAgree
  <2> QED
    BY <2>1 DEF Halted, TaskStatus
<1>5. TypeOK'
  BY <1>1, <1>3 DEF IInv, TypeOK, WorkflowStatus
<1>6. TickInv'
  BY <1>1 DEF TickInv
<1>7. InOrder'
  BY <1>4 DEF IInv, InOrder
<1>8. HandleIsLaunched'
  BY <1>1, <1>2 DEF IInv, HandleIsLaunched, Launched
<1>9. JobsInv'
  <2>1. Launched' = Launched /\ Launched \subseteq RunId
    BY <1>1 DEF Launched, IInv, TypeOK
  <2>2. ASSUME NEW r \in Launched
        PROVE  /\ r.task \in RemoteTasks
               /\ r.attempt > 0 /\ r.attempt <= task'[r.task].attempts
    BY <1>2, <2>1, ConstantsType DEF IInv, JobsInv
  <2> QED
    BY <1>1, <1>2, <1>4, <2>1, <2>2 DEF IInv, JobsInv
<1>10. AttemptsInv'
  BY <1>1, <1>2, <1>4 DEF IInv, AttemptsInv
<1>11. HubInv'
  <2>1. \A i \in DOMAIN hub : hub[i].task \in Task
    BY HubType DEF IInv
  <2> QED
    BY <1>1, <1>2, <1>4, <2>1 DEF IInv, HubInv
<1>12. OneReleasePerTask'
  BY <1>1 DEF IInv, OneReleasePerTask
<1>13. StatusesAgree'
  BY <1>1, <1>4 DEF StatusesAgree
<1> QED
  BY <1>5, <1>6, <1>7, <1>8, <1>9, <1>10, <1>11, <1>12, <1>13 DEF IInv

(* The environment moves; the state file and the tick do not.               *)
LEMMA JobEndsInv ==
    ASSUME IInv, NEW r \in jobs.running, JobEnds(r)
    PROVE  IInv'
<1>1. UNCHANGED <<wf, task, pc, cur, stop, head, hub, parent, pushed, overdue, interruptions>>
  BY DEF JobEnds, persistent
<1>2. jobs \in [running : SUBSET RunId, succeeded : SUBSET RunId, failed : SUBSET RunId]
  BY DEF IInv, TypeOK
<1>3. /\ jobs' \in [running : SUBSET RunId, succeeded : SUBSET RunId,
                    failed : SUBSET RunId]
      /\ Launched' = Launched
      /\ jobs.succeeded \subseteq jobs'.succeeded
  BY <1>2 DEF JobEnds, Launched
<1>4. TypeOK'
  BY <1>1, <1>3 DEF IInv, TypeOK
<1>5. TickInv'
  BY <1>1, <1>3 DEF IInv, TickInv, RunIdOf
<1>6. InOrder'
  BY <1>1 DEF IInv, InOrder
<1>7. HandleIsLaunched'
  BY <1>1, <1>3 DEF IInv, HandleIsLaunched
<1>8. JobsInv'
  BY <1>1, <1>3 DEF IInv, JobsInv
<1>9. AttemptsInv'
  BY <1>1 DEF IInv, AttemptsInv
<1>10. HubInv'
  BY <1>1 DEF IInv, HubInv
<1>11. OneReleasePerTask'
  BY <1>1 DEF IInv, OneReleasePerTask
<1>12. StatusesAgree'
  BY <1>1 DEF IInv, StatusesAgree
<1> QED
  BY <1>4, <1>5, <1>6, <1>7, <1>8, <1>9, <1>10, <1>11, <1>12 DEF IInv

LEMMA SurroundingsInv ==
    ASSUME IInv, OperatorStops \/ OperatorCommits \/ Expire
    PROVE  IInv'
<1>1. UNCHANGED <<wf, task, pc, cur, jobs, hub, parent, pushed, interruptions>>
  BY DEF OperatorStops, OperatorCommits, Expire, BudgetExpires, persistent
<1>2. stop' \in BOOLEAN /\ head' \in Nat \ {0} /\ overdue' \subseteq Task
  <2>1. stop \in BOOLEAN /\ head \in Nat \ {0} /\ overdue \subseteq Task
    BY DEF IInv, TypeOK
  <2>2. RemoteTasks \subseteq Task
    BY TasksAssumption
  <2>3. CASE OperatorStops
    BY <2>1, <2>3 DEF OperatorStops
  <2>4. CASE OperatorCommits
    BY <2>1, <2>4 DEF OperatorCommits
  <2>5. CASE Expire
    BY <2>1, <2>2, <2>5 DEF Expire, BudgetExpires
  <2> QED
    BY <2>3, <2>4, <2>5
<1>3. TypeOK'
  BY <1>1, <1>2 DEF IInv, TypeOK
<1>4. TickInv'
  BY <1>1 DEF IInv, TickInv, RunIdOf, Launched
<1>5. InOrder'
  BY <1>1 DEF IInv, InOrder
<1>6. HandleIsLaunched'
  BY <1>1 DEF IInv, HandleIsLaunched, Launched
<1>7. JobsInv'
  BY <1>1 DEF IInv, JobsInv, Launched
<1>8. AttemptsInv'
  BY <1>1 DEF IInv, AttemptsInv
<1>9. HubInv'
  BY <1>1 DEF IInv, HubInv
<1>10. OneReleasePerTask'
  BY <1>1 DEF IInv, OneReleasePerTask
<1>11. StatusesAgree'
  BY <1>1 DEF IInv, StatusesAgree
<1> QED
  BY <1>3, <1>4, <1>5, <1>6, <1>7, <1>8, <1>9, <1>10, <1>11 DEF IInv

LEMMA StutterInv ==
    ASSUME IInv, UNCHANGED vars
    PROVE  IInv'
  BY DEF vars, IInv, TypeOK, TickInv, InOrder, HandleIsLaunched, JobsInv, AttemptsInv,
         HubInv, OneReleasePerTask, StatusesAgree, Launched, RunIdOf
-----------------------------------------------------------------------------
(* The invariant holds initially and through every step                     *)

LEMMA InitInv ==
    ASSUME Init
    PROVE  IInv
<1> USE DEF Init
<1>1. FreshTask \in TaskState /\ NoRun \in RunId
  BY DEF FreshTask, TaskState, NoRun, RunId, TaskStatus, Phase
<1>2. \A t \in Task : /\ task[t] = FreshTask
                     /\ task[t].status = "pending"
                     /\ task[t].attempts = 0
                     /\ task[t].phase = "start"
                     /\ task[t].handle = NoRun
  BY DEF FreshTask
<1>3. Launched = {} /\ DOMAIN hub = {} /\ Len(hub) = 0
  BY DEF Launched
<1>4. TypeOK
  <2>1. task \in [Task -> TaskState] /\ parent \in [Task -> Nat]
    BY <1>1
  <2>2. hub \in Seq([task : Task, run : RunId])
    BY EmptySeq
  <2>3. jobs \in [running : SUBSET RunId, succeeded : SUBSET RunId,
                 failed : SUBSET RunId]
    OBVIOUS
  <2>4. wf = "active" /\ pc = "idle" /\ cur = 0 /\ stop = FALSE /\ head = 1
        /\ interruptions = 0 /\ pushed = {} /\ overdue = {}
    OBVIOUS
  <2> HIDE DEF Init
  <2>5. /\ wf \in WorkflowStatus /\ pc \in Location /\ cur \in Task \cup {0}
        /\ head \in Nat \ {0} /\ interruptions \in Nat
    BY <2>4 DEF WorkflowStatus, Location
  <2>6. stop \in BOOLEAN /\ pushed \subseteq Task /\ overdue \subseteq Task
    BY <2>4, Zenon
  <2> QED
    BY <2>1, <2>2, <2>3, <2>5, <2>6 DEF TypeOK
<1>5. TickInv
  BY DEF TickInv
<1>6. InOrder
  BY <1>2 DEF InOrder
<1>7. HandleIsLaunched
  BY <1>2 DEF HandleIsLaunched
<1>8. JobsInv
  BY <1>2, <1>3 DEF JobsInv
<1>9. AttemptsInv
  <2>1. \A t \in Task : MaxAttempts[t] \in Nat /\ MaxAttempts[t] > 0
    BY BudgetAssumption
  <2> QED
    BY <1>2, <2>1 DEF AttemptsInv
<1>10. HubInv
  BY <1>2, <1>3 DEF HubInv
<1>11. OneReleasePerTask
  BY <1>3 DEF OneReleasePerTask
<1>12. StatusesAgree
  BY <1>2 DEF StatusesAgree
<1> QED
  BY <1>4, <1>5, <1>6, <1>7, <1>8, <1>9, <1>10, <1>11, <1>12 DEF IInv

LEMMA LocalStepInv ==
    ASSUME IInv, LocalStep
    PROVE  IInv'
<1>1. ASSUME NEW t \in Task, AdvanceLocal(t) PROVE IInv'
  BY <1>1, AdvanceLocalInv
<1>2. CASE LocalCommands
  <2>1. /\ pc \notin {"idle", "return"} /\ CommitAndPush(cur) /\ cur' = cur
        /\ pc = "local" /\ pc' = "localDone"
        /\ UNCHANGED <<wf, task, stop, jobs, hub, parent, overdue, interruptions>>
    BY <1>2 DEF LocalCommands, Goto, persistent
  <2> QED
    BY <2>1, CommitAndPushInv
<1>3. CASE LocalSucceeds
  BY <1>3, LocalSucceedsInv
<1>4. CASE LocalFails
  <2>1. /\ pc \in {"local", "localDone", "start", "launched"}
        /\ SaveFailedAttempt(cur) /\ Goto("return")
        /\ UNCHANGED outside /\ UNCHANGED interruptions
    BY <1>4 DEF LocalFails
  <2> QED
    BY <2>1, FailedAttemptInv
<1> QED
  BY <1>1, <1>2, <1>3, <1>4 DEF LocalStep

LEMMA RemoteStepInv ==
    ASSUME IInv, RemoteStep
    PROVE  IInv'
<1>1. ASSUME NEW t \in Task,
             \/ StartRemote(t) \/ OutOfTime(t)
             \/ PollKeeps(t) \/ PollFailed(t) \/ PollSucceeded(t)
             \/ FinalizeSucceeds(t) \/ FinalizeFails(t)
             \/ Publish(t) \/ Commit(t)
      PROVE  IInv'
  BY <1>1, StartRemoteInv, OutOfTimeInv, ReadPhaseInv, PollFailedInv, PollSucceededInv,
     FinalizeSucceedsInv, FinalizeFailsInv
<1>2. CASE StartFails
  <2>1. /\ pc \in {"local", "localDone", "start", "launched"}
        /\ SaveFailedAttempt(cur) /\ Goto("return")
        /\ UNCHANGED outside /\ UNCHANGED interruptions
    BY <1>2 DEF StartFails
  <2> QED
    BY <2>1, FailedAttemptInv
<1>3. CASE CommitReaches
  <2>1. /\ pc \notin {"idle", "return"} /\ CommitAndPush(cur) /\ cur' = cur
        /\ pc = "commit" /\ pc' = "committed"
        /\ UNCHANGED <<wf, task, stop, jobs, hub, parent, overdue, interruptions>>
    BY <1>3 DEF CommitReaches, Goto, persistent
  <2> QED
    BY <2>1, CommitAndPushInv
<1>4. CASE Launch \/ SaveHandle \/ HubAccepts \/ SavePublication \/ PublishFails
           \/ CommitSucceeds \/ CommitFails
  BY <1>4, LaunchInv, SaveHandleInv, HubAcceptsInv, SavePublicationInv, PublishFailsInv,
     CommitSucceedsInv, CommitFailsInv
<1> QED
  BY <1>1, <1>2, <1>3, <1>4 DEF RemoteStep

LEMMA NextInv ==
    ASSUME IInv, [Next]_vars
    PROVE  IInv'
<1>1. CASE ControllerStep
  BY <1>1, TickStopInv, TickNoTaskInv, ReturnInv, LocalStepInv, RemoteStepInv
     DEF ControllerStep
<1>2. CASE TickSettled
  BY <1>2, StutterInv DEF TickSettled
<1>3. CASE Interrupt
  BY <1>3, InterruptInv
<1>4. CASE Environment
  BY <1>4, JobEndsInv, SurroundingsInv DEF Environment
<1>5. CASE UNCHANGED vars
  BY <1>5, StutterInv
<1> QED
  BY <1>1, <1>2, <1>3, <1>4, <1>5 DEF Next
-----------------------------------------------------------------------------
(* Theorems                                                                 *)

(* Every reachable state of the controller satisfies the inductive          *)
(* invariant, for any number of tasks, any depends_on that points           *)
(* backwards, any attempt budgets and any number of interrupted ticks.      *)
THEOREM Invariance == Spec => []IInv
<1>1. Init => IInv
  BY InitInv
<1>2. IInv /\ [Next]_vars => IInv'
  BY NextInv
<1> QED
  BY <1>1, <1>2, PTL DEF Spec

(* What the controller keeps and saves always has the type it is declared   *)
(* with in WorkflowState and TaskState.                                     *)
THEOREM TypeCorrect == Spec => []TypeOK
<1>1. IInv => TypeOK
  BY DEF IInv
<1> QED
  BY <1>1, Invariance, PTL

(* The run id that _start_remote is about to launch was never launched.     *)
THEOREM RunIdsAreFresh == Spec => []FreshRunId
<1>1. ASSUME IInv, pc = "start", RunIdOf(cur) \in Launched PROVE FALSE
  <2>1. cur \in Task /\ task[cur].attempts > 0
    BY <1>1 DEF IInv, TickInv
  <2>2. task[cur].attempts \in Nat
    BY <1>1, <2>1, TaskType DEF IInv
  <2>3. RunIdOf(cur).task = cur /\ RunIdOf(cur).attempt = task[cur].attempts
    BY <2>1, <2>2 DEF RunIdOf
  <2>4. RunIdOf(cur).attempt < task[cur].attempts
    BY <1>1, <2>3 DEF IInv, JobsInv
  <2> QED
    BY <2>2, <2>3, <2>4
<1>2. IInv => FreshRunId
  BY <1>1 DEF FreshRunId
<1> QED
  BY <1>2, Invariance, PTL

(* The saved handle names the newest launched job of its own task.          *)
THEOREM HandlesAreLaunched == Spec => []HandleIsLaunched
<1>1. IInv => HandleIsLaunched
  BY DEF IInv
<1> QED
  BY <1>1, Invariance, PTL

(* No task uses more attempts than its budget, one, and one for each tick   *)
(* that died.                                                               *)
THEOREM AttemptsAreBounded == Spec => []AttemptsBounded
<1>1. ASSUME IInv, NEW t \in Task
      PROVE  task[t].attempts <= MaxAttempts[t] + 1 + interruptions
  <2>1. MaxAttempts[t] \in Nat /\ interruptions \in Nat
    BY <1>1, ConstantsType DEF IInv, TypeOK
  <2> QED
    BY <1>1, <2>1 DEF IInv, AttemptsInv
<1>2. IInv => AttemptsBounded
  BY <1>1 DEF AttemptsBounded
<1> QED
  BY <1>2, Invariance, PTL

(* No task publishes twice.                                                 *)
THEOREM ReleasesAreUnique == Spec => []OneReleasePerTask
<1>1. IInv => OneReleasePerTask
  BY DEF IInv
<1> QED
  BY <1>1, Invariance, PTL

(* Every release belongs to a task whose saved job succeeded.               *)
THEOREM ReleasesHaveJobs == Spec => []ReleaseHasSucceededJob
<1>1. ASSUME IInv, NEW i \in DOMAIN hub
      PROVE  /\ task[hub[i].task].handle \in jobs.succeeded
             /\ task[hub[i].task].phase \in {"publish", "commit"}
  <2>1. hub[i].task \in Task
    BY <1>1, HubType DEF IInv
  <2>2. task[hub[i].task].phase \in {"publish", "commit"}
    BY <1>1 DEF IInv, HubInv
  <2> QED
    BY <1>1, <2>1, <2>2 DEF IInv, JobsInv
<1>2. IInv => ReleaseHasSucceededJob
  BY <1>1 DEF ReleaseHasSucceededJob
<1> QED
  BY <1>2, Invariance, PTL

(* A task saved as succeeded is pushed and, when remote, published.         *)
THEOREM SuccessIsReal == Spec => []SucceededIsReal
<1>1. IInv => SucceededIsReal
  BY DEF IInv, HubInv, SucceededIsReal
<1> QED
  BY <1>1, Invariance, PTL

(* The status of the workflow agrees with the statuses of its tasks.        *)
THEOREM StatusesAreConsistent == Spec => []StatusesAgree
<1>1. IInv => StatusesAgree
  BY DEF IInv
<1> QED
  BY <1>1, Invariance, PTL

-----------------------------------------------------------------------------
(* The refinement of Workflow: read through the statuses of the state file, *)
(* every step of a tick, every crash and every retry is a step of Workflow  *)
(* or leaves the statuses alone.                                            *)

Statuses == [t \in Task |-> task[t].status]

LEMMA SameTasks == Abstract!Task = Task
  BY DEF Abstract!Task, Task

(* A step that saves the current task with one of these statuses.           *)
LEMMA SaveRefines ==
    ASSUME IInv, NEW t \in Task, Current(t), wf = "active",
           NEW saved, SavedAs(t, saved),
           \/ saved.status \in {"running", task[t].status} /\ wf' = wf
           \/ /\ task[t].status = "running"
              /\ saved.status \in {"pending", "succeeded"} /\ wf' = wf
           \/ /\ task[t].status = "running"
              /\ saved.status = "failed" /\ wf' = "failed"
    PROVE  [Abstract!Next]_(Abstract!vars)
<1>1. Statuses' = [Statuses EXCEPT ![t] = saved.status]
  BY DEF Statuses, SavedAs
<1>2. Statuses[t] = task[t].status
  BY DEF Statuses
<1>3. Abstract!Current(t)
  BY SameTasks DEF Abstract!Current, Current, Statuses
<1>4. CASE saved.status = "running" /\ wf' = wf
  <2>1. Abstract!Start(t)
    BY <1>1, <1>3, <1>4 DEF Abstract!Start, Statuses
  <2> QED
    BY <2>1, SameTasks DEF Abstract!Next
<1>5. CASE saved.status = task[t].status /\ wf' = wf
  <2>1. Statuses' = Statuses
    BY <1>1, <1>2, <1>5 DEF Statuses
  <2> QED
    BY <2>1, <1>5 DEF Abstract!vars, Statuses
<1>6. CASE task[t].status = "running" /\ saved.status = "pending" /\ wf' = wf
  <2>1. Abstract!Retry(t)
    BY <1>1, <1>2, <1>3, <1>6 DEF Abstract!Retry, Statuses
  <2> QED
    BY <2>1, SameTasks DEF Abstract!Next
<1>7. CASE task[t].status = "running" /\ saved.status = "succeeded" /\ wf' = wf
  <2>1. Abstract!Succeed(t)
    BY <1>1, <1>2, <1>3, <1>7 DEF Abstract!Succeed, Statuses
  <2> QED
    BY <2>1, SameTasks DEF Abstract!Next
<1>8. CASE task[t].status = "running" /\ saved.status = "failed" /\ wf' = "failed"
  <2>1. Abstract!GiveUp(t)
    BY <1>1, <1>2, <1>3, <1>8 DEF Abstract!GiveUp, Statuses
  <2> QED
    BY <2>1, SameTasks DEF Abstract!Next
<1> QED
  BY <1>4, <1>5, <1>6, <1>7, <1>8

(* A step that does not touch the state file.                               *)
LEMMA QuietRefines ==
    ASSUME UNCHANGED persistent
    PROVE  [Abstract!Next]_(Abstract!vars)
  BY DEF persistent, Abstract!vars

(* The saves that count or exhaust an attempt.                              *)
LEMMA FailedAttemptRefines ==
    ASSUME IInv, pc \notin {"idle", "return"}, SaveFailedAttempt(cur)
    PROVE  [Abstract!Next]_(Abstract!vars)
<1>1. cur \in Task /\ Current(cur) /\ wf = "active" /\ task[cur].status = "running"
  BY BusyIsCurrent
<1>2. PICK saved :
        /\ SavedAs(cur, saved)
        /\ saved.status = IF Terminal(cur) THEN "failed" ELSE "pending"
        /\ wf' = IF Terminal(cur) THEN "failed" ELSE wf
  BY <1>1, SaveFailedAttemptFields DEF IInv
<1> QED
  BY <1>1, <1>2, SaveRefines

LEMMA MarkFailureRefines ==
    ASSUME IInv, NEW t \in Task, Current(t), wf = "active",
           task[t].status = "running", task[t].phase # "start",
           NEW retryRemote \in BOOLEAN, MarkFailure(t, retryRemote)
    PROVE  [Abstract!Next]_(Abstract!vars)
<1>1. PICK saved :
        /\ SavedAs(t, saved)
        /\ \/ saved.status = "failed" /\ wf' = "failed"
           \/ saved.status \in {"pending", "running"} /\ wf' = wf
  BY MarkFailureFields DEF IInv
<1> QED
  BY <1>1, SaveRefines

-----------------------------------------------------------------------------
(* The steps of a tick                                                      *)

LEMMA LocalStepRefines ==
    ASSUME IInv, LocalStep
    PROVE  [Abstract!Next]_(Abstract!vars)
<1>1. ASSUME NEW t \in Task, AdvanceLocal(t)
      PROVE  [Abstract!Next]_(Abstract!vars)
  <2> DEFINE saved == [task[t] EXCEPT !.status = "running", !.attempts = @ + 1]
  <2>1. Current(t) /\ wf = "active" /\ Save(t, saved) /\ wf' = wf
    BY <1>1, TickIsCurrent DEF AdvanceLocal
  <2>2. task[t].attempts \in Nat
    BY TaskType DEF IInv
  <2>3. task[t].attempts + 1 \in Nat
    BY <2>2
  <2>4. saved \in TaskState /\ saved.status = "running"
    BY <2>3, TaskType DEF IInv, TaskState, TaskStatus
  <2> HIDE DEF saved
  <2> QED
    BY <2>1, <2>4, SaveIsSavedAs, SaveRefines DEF IInv
<1>2. CASE LocalCommands
  BY <1>2, QuietRefines DEF LocalCommands
<1>3. CASE LocalSucceeds
  <2> DEFINE saved == [task[cur] EXCEPT !.status = "succeeded"]
  <2>1. /\ cur \in Task /\ Current(cur) /\ wf = "active"
        /\ task[cur].status = "running"
    BY <1>3, BusyIsCurrent DEF LocalSucceeds
  <2>2. Save(cur, saved) /\ wf' = wf
    BY <1>3 DEF LocalSucceeds
  <2>3. saved \in TaskState /\ saved.status = "succeeded"
    BY <2>1, TaskType DEF IInv, TaskState, TaskStatus
  <2> HIDE DEF saved
  <2> QED
    BY <2>1, <2>2, <2>3, SaveIsSavedAs, SaveRefines DEF IInv
<1>4. CASE LocalFails
  BY <1>4, FailedAttemptRefines DEF LocalFails
<1> QED
  BY <1>1, <1>2, <1>3, <1>4 DEF LocalStep

LEMMA StartRemoteRefines ==
    ASSUME IInv, NEW t \in Task, StartRemote(t)
    PROVE  [Abstract!Next]_(Abstract!vars)
<1> DEFINE saved == [task[t] EXCEPT !.status = "running", !.attempts = @ + 1,
                                    !.phase = "start", !.source = head]
<1>1. Current(t) /\ wf = "active" /\ Save(t, saved) /\ wf' = wf
  BY TickIsCurrent DEF StartRemote
<1>2. task[t].attempts \in Nat /\ head \in Nat
  BY TaskType DEF IInv, TypeOK
<1>3. task[t].attempts + 1 \in Nat
  BY <1>2
<1>4. saved \in TaskState /\ saved.status = "running"
  BY <1>2, <1>3, TaskType DEF IInv, TaskState, TaskStatus, Phase
<1> HIDE DEF saved
<1> QED
  BY <1>1, <1>4, SaveIsSavedAs, SaveRefines DEF IInv

(* The saves that only move a task on to its next phase.                    *)
LEMMA SameStatusRefines ==
    ASSUME IInv, NEW t \in Task, Current(t), wf = "active", wf' = wf,
           NEW saved \in TaskState, Save(t, saved),
           saved.status = task[t].status
    PROVE  [Abstract!Next]_(Abstract!vars)
  BY SaveIsSavedAs, SaveRefines DEF IInv

LEMMA PhaseRefines ==
    ASSUME IInv, NEW t \in Task, PollSucceeded(t) \/ FinalizeSucceeds(t)
    PROVE  [Abstract!Next]_(Abstract!vars)
<1>1. PICK phase \in {"poll", "finalize"} : TickPhase(t, phase)
  BY DEF PollSucceeded, FinalizeSucceeds
<1>2. Current(t) /\ wf = "active"
  BY <1>1, PhaseIsCurrent
<1>3. PICK next \in {"finalize", "publish"} :
        Save(t, [task[t] EXCEPT !.phase = next]) /\ wf' = wf
  BY DEF PollSucceeded, FinalizeSucceeds
<1> DEFINE saved == [task[t] EXCEPT !.phase = next]
<1>4. saved \in TaskState /\ saved.status = task[t].status
  BY TaskType DEF IInv, TaskState, Phase
<1>5. Save(t, saved)
  BY <1>3
<1> HIDE DEF saved
<1> QED
  BY <1>2, <1>3, <1>4, <1>5, SameStatusRefines

LEMMA SaveHandleRefines ==
    ASSUME IInv, SaveHandle
    PROVE  [Abstract!Next]_(Abstract!vars)
<1> DEFINE saved == [task[cur] EXCEPT !.phase = "poll", !.handle = RunIdOf(cur)]
<1>1. cur \in Task /\ Current(cur) /\ wf = "active"
  BY BusyIsCurrent DEF SaveHandle
<1>2. Save(cur, saved) /\ wf' = wf /\ RunIdOf(cur) \in Launched
  BY DEF SaveHandle, IInv, TickInv
<1>3. RunIdOf(cur) \in RunId
  BY <1>2 DEF IInv, TypeOK, Launched
<1>4. saved \in TaskState /\ saved.status = task[cur].status
  BY <1>1, <1>3, TaskType DEF IInv, TaskState, Phase
<1> HIDE DEF saved
<1> QED
  BY <1>1, <1>2, <1>4, SameStatusRefines

LEMMA SavePublicationRefines ==
    ASSUME IInv, SavePublication
    PROVE  [Abstract!Next]_(Abstract!vars)
<1> DEFINE run == hub[Len(hub)].run
           saved == [task[cur] EXCEPT !.phase = "commit", !.published = run]
<1>1. cur \in Task /\ Current(cur) /\ wf = "active"
  BY BusyIsCurrent DEF SavePublication
<1>2. Save(cur, saved) /\ wf' = wf /\ hub # <<>>
  BY DEF SavePublication, IInv, TickInv
<1>3. run \in RunId
  BY <1>2, HubType, EmptySeq DEF IInv, TypeOK
<1>4. saved \in TaskState /\ saved.status = task[cur].status
  BY <1>1, <1>3, TaskType DEF IInv, TaskState, Phase
<1> HIDE DEF saved
<1> QED
  BY <1>1, <1>2, <1>4, SameStatusRefines

LEMMA CommitSucceedsRefines ==
    ASSUME IInv, CommitSucceeds
    PROVE  [Abstract!Next]_(Abstract!vars)
<1> DEFINE saved == [task[cur] EXCEPT !.status = "succeeded"]
<1>1. /\ cur \in Task /\ Current(cur) /\ wf = "active"
      /\ task[cur].status = "running"
  BY BusyIsCurrent DEF CommitSucceeds
<1>2. Save(cur, saved) /\ wf' = wf
  BY DEF CommitSucceeds
<1>3. saved \in TaskState /\ saved.status = "succeeded"
  BY <1>1, TaskType DEF IInv, TaskState, TaskStatus
<1> HIDE DEF saved
<1> QED
  BY <1>1, <1>2, <1>3, SaveIsSavedAs, SaveRefines DEF IInv

(* The failures counted after the launch, inside a tick or at its start.    *)
LEMMA PhaseFailureRefines ==
    ASSUME IInv, NEW t \in Task,
           OutOfTime(t) \/ PollFailed(t) \/ FinalizeFails(t)
    PROVE  [Abstract!Next]_(Abstract!vars)
<1>1. PICK phase \in Phase \ {"start"} : TickPhase(t, phase)
  BY DEF OutOfTime, PollFailed, FinalizeFails, Phase
<1>2. /\ Current(t) /\ wf = "active" /\ task[t].status = "running"
      /\ task[t].phase # "start"
  BY <1>1, PhaseIsCurrent
<1>3. PICK retryRemote \in BOOLEAN : MarkFailure(t, retryRemote)
  BY DEF OutOfTime, PollFailed, FinalizeFails
<1> QED
  BY <1>2, <1>3, MarkFailureRefines

LEMMA BusyFailureRefines ==
    ASSUME IInv, PublishFails \/ CommitFails
    PROVE  [Abstract!Next]_(Abstract!vars)
<1>1. pc \in {"publish", "published", "commit", "committed"}
  BY DEF PublishFails, CommitFails
<1>2. /\ cur \in Task /\ Current(cur) /\ wf = "active"
      /\ task[cur].status = "running"
  BY <1>1, BusyIsCurrent
<1>3. task[cur].phase \in {"publish", "commit"}
  BY <1>1 DEF IInv, TickInv
<1>4. MarkFailure(cur, FALSE)
  BY DEF PublishFails, CommitFails
<1> QED
  BY <1>2, <1>3, <1>4, MarkFailureRefines

LEMMA RemoteStepRefines ==
    ASSUME IInv, RemoteStep
    PROVE  [Abstract!Next]_(Abstract!vars)
<1>1. ASSUME NEW t \in Task,
             \/ StartRemote(t) \/ OutOfTime(t)
             \/ PollKeeps(t) \/ PollFailed(t) \/ PollSucceeded(t)
             \/ FinalizeSucceeds(t) \/ FinalizeFails(t)
             \/ Publish(t) \/ Commit(t)
      PROVE  [Abstract!Next]_(Abstract!vars)
  <2>1. CASE PollKeeps(t) \/ Publish(t) \/ Commit(t)
    BY <2>1, QuietRefines DEF PollKeeps, Publish, Commit
  <2> QED
    BY <1>1, <2>1, StartRemoteRefines, PhaseRefines, PhaseFailureRefines
<1>2. CASE Launch \/ HubAccepts \/ CommitReaches
  BY <1>2, QuietRefines DEF Launch, HubAccepts, CommitReaches
<1>3. CASE StartFails
  BY <1>3, FailedAttemptRefines DEF StartFails
<1>4. CASE SaveHandle \/ SavePublication \/ PublishFails \/ CommitSucceeds \/ CommitFails
  BY <1>4, SaveHandleRefines, SavePublicationRefines, CommitSucceedsRefines,
     BusyFailureRefines
<1> QED
  BY <1>1, <1>2, <1>3, <1>4 DEF RemoteStep

-----------------------------------------------------------------------------
(* The steps on the whole state file                                        *)

LEMMA ReturnRefines ==
    ASSUME IInv, Return
    PROVE  [Abstract!Next]_(Abstract!vars)
<1>1. Statuses' = Statuses
  BY DEF Return, Statuses
<1>2. CASE wf' = wf
  BY <1>1, <1>2 DEF Abstract!vars, Statuses
<1>3. CASE wf' # wf
  <2>1. wf' = "complete" /\ \A t \in Task : task[t].status = "succeeded"
    BY <1>3 DEF Return
  <2>2. wf = "active"
    BY <2>1 DEF Return, IInv, TickInv, StatusesAgree
  <2>3. \A t \in Task : Statuses[t] = "succeeded"
    BY <2>1 DEF Statuses
  <2>4. Abstract!Complete
    BY <1>1, <2>1, <2>2, <2>3, SameTasks DEF Abstract!Complete, Statuses
  <2> QED
    BY <2>4 DEF Abstract!Next
<1> QED
  BY <1>2, <1>3

LEMMA TickStopRefines ==
    ASSUME IInv, TickStop
    PROVE  [Abstract!Next]_(Abstract!vars)
<1>1. ASSUME NEW t \in Task PROVE task'[t].status = Halted(task[t].status)
  <2> DEFINE halted == [task[t] EXCEPT !.status = Halted(@)]
  <2>1. task'[t] = halted
    BY DEF TickStop
  <2>2. halted.status = Halted(task[t].status)
    BY TaskType DEF IInv, TaskState
  <2> HIDE DEF halted
  <2> QED
    BY <2>1, <2>2
<1>2. Statuses' = [t \in Task |-> Halted(Statuses[t])]
  BY <1>1 DEF Statuses
<1>3. CASE wf = "active"
  <2>1. Abstract!Stop
    BY <1>2, <1>3, SameTasks DEF Abstract!Stop, TickStop, Halted, Statuses
  <2> QED
    BY <2>1 DEF Abstract!Next
<1>4. CASE wf = "stopped"
  <2>1. \A t \in Task : Halted(Statuses[t]) = Statuses[t]
    BY <1>4 DEF IInv, StatusesAgree, Halted, Statuses
  <2>2. Statuses' = Statuses
    BY <1>2, <2>1 DEF Statuses
  <2> QED
    BY <1>4, <2>2 DEF TickStop, Abstract!vars, Statuses
<1> QED
  BY <1>3, <1>4 DEF TickStop

LEMMA NextRefines ==
    ASSUME IInv, [Next]_vars
    PROVE  [Abstract!Next]_(Abstract!vars)
<1>1. CASE ControllerStep
  <2>1. CASE TickNoTask
    BY <2>1, QuietRefines DEF TickNoTask
  <2> QED
    BY <1>1, <2>1, TickStopRefines, ReturnRefines, LocalStepRefines, RemoteStepRefines
       DEF ControllerStep
<1>2. CASE TickSettled \/ UNCHANGED vars
  BY <1>2, QuietRefines DEF TickSettled, vars, persistent
<1>3. CASE Interrupt
  BY <1>3, QuietRefines DEF Interrupt
<1>4. CASE Environment
  BY <1>4, QuietRefines
     DEF Environment, OperatorStops, OperatorCommits, Expire, BudgetExpires, JobEnds
<1> QED
  BY <1>1, <1>2, <1>3, <1>4 DEF Next

LEMMA InitRefines ==
    ASSUME Init
    PROVE  Abstract!Init
<1>1. \A t \in Task : task[t].status = "pending"
  BY DEF Init, FreshTask
<1> QED
  BY <1>1, SameTasks DEF Init, Abstract!Init

(* The controller implements Workflow: tasks run strictly in order, what    *)
(* succeeded stays succeeded, an exhausted task fails the workflow in the   *)
(* same save, and a settled workflow never moves.                           *)
THEOREM Refinement == Spec => ImplementsWorkflow
<1>1. Init => Abstract!Init
  BY InitRefines
<1>2. IInv /\ [Next]_vars => [Abstract!Next]_(Abstract!vars)
  BY NextRefines
<1> QED
  BY <1>1, <1>2, Invariance, PTL DEF Spec, ImplementsWorkflow, Abstract!Spec
=============================================================================
