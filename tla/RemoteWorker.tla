----------------------------- MODULE RemoteWorker -----------------------------
(***************************************************************************)
(* One job directory of shadowcrafter.automation.remote_worker.  The helper *)
(* is started anew for every SSH call (install, launch, status,             *)
(* read-evidence), and launch starts a detached child that runs the job.    *)
(* They share the files of the directory and nothing else: status.json is   *)
(* written by the launcher, by the child and by status itself, each after a *)
(* read made earlier, and only children take run.lock.                      *)
(*                                                                          *)
(* A call whose SSH connection timed out goes on while the next one starts, *)
(* so calls overlap; any process may be killed between two file operations. *)
(* The command that a child runs is a process of its own: it may outlive    *)
(* the child, without run.lock, and go on writing evidence.                 *)
(***************************************************************************)
EXTENDS Naturals

CONSTANTS
    Caller,         \* processes that serve SSH calls
    Doc,            \* job documents a caller may want to install
    NoDoc,          \* no document
    MaxChildren,    \* bound: detached children ever spawned
    MaxLaunches,    \* bound: launch calls that get past their checks
    MaxWrites       \* bound: writes of evidence

Child == 1 .. MaxChildren

ASSUME DocAssumption == NoDoc \notin Doc

ASSUME BoundsAssumption ==
    /\ MaxChildren \in Nat
    /\ MaxLaunches \in Nat
    /\ MaxWrites \in Nat

VARIABLES
    made,       \* the job directory exists
    spec,       \* spec.json
    file,       \* status.json
    evidence,   \* how often the evidence files were written, 0 if there are none
    writer,     \* the child whose command wrote them last, 0 if none
    lock,       \* the child that holds run.lock, 0 if none
    child,      \* the detached children
    caller,     \* the processes of the calls
    answer,     \* what the last call each caller served was told
    launches    \* launch calls that got past their checks

files == <<made, spec, file, evidence, writer>>
vars == <<made, spec, file, evidence, writer, lock, child, caller, answer, launches>>

-----------------------------------------------------------------------------
JobStatus == {"pending", "running", "succeeded", "failed"}
Backend == {"none", "systemd", "nohup"}

(* How old a time stamp is: within the 15 seconds of grace, or older.       *)
Age == {"none", "young", "old"}
Aged(age) == IF age = "young" THEN "old" ELSE age

(* pid is the child, 0 for None; process_start_ticks makes pids unique.     *)
StatusFile == [status : JobStatus \cup {"missing"}, backend : Backend,
               pid : Child \cup {0}, started : Age, evidence : Nat]

NoFile == [status |-> "missing", backend |-> "none", pid |-> 0, started |-> "none",
           evidence |-> 0]
Pending == [NoFile EXCEPT !.status = "pending"]

(* An orphaned child is dead while its command goes on, which ends later.   *)
ChildState == [at : {"none", "spawned", "locked", "entered", "running", "finished",
                     "dead", "orphaned", "over"},
               backend : Backend,
               seenBackend : Backend,   \* status.backend, captured once
               started : Age]
NoChild == [at |-> "none", backend |-> "none", seenBackend |-> "none",
            started |-> "none"]

CallerAt == {"idle", "making", "described", "starting", "marked", "queued",
             "spawned", "recording", "asking", "condemning"}
CallerState == [at : CallerAt, doc : Doc \cup {NoDoc}, child : Child \cup {0},
                seen : StatusFile]
Idle == [at |-> "idle", doc |-> NoDoc, child |-> 0, seen |-> NoFile]

Answer == JobStatus \cup {"none", "error", "installed", "launched", "evidence"}

Terminal(status) == status \in {"succeeded", "failed"}
Holding(k) == child[k].at \in {"locked", "entered", "running"}
Alive(k) == child[k].at = "spawned" \/ Holding(k)
UnitActive == \E k \in Child : child[k].backend = "systemd" /\ Alive(k)

(* systemd keeps the unit until what the child left behind is stopped.      *)
UnitLoaded ==
    \E k \in Child : child[k].backend = "systemd" /\ (Alive(k) \/ child[k].at = "orphaned")

(* The status a child writes while it runs: the backend it read once.       *)
Common(k) == [status |-> "running", backend |-> child[k].seenBackend, pid |-> k,
              started |-> child[k].started, evidence |-> 0]

-----------------------------------------------------------------------------
Init ==
    /\ made = FALSE
    /\ spec = NoDoc
    /\ file = NoFile
    /\ evidence = 0
    /\ writer = 0
    /\ lock = 0
    /\ child = [k \in Child |-> NoChild]
    /\ caller = [c \in Caller |-> Idle]
    /\ answer = [c \in Caller |-> "none"]
    /\ launches = 0

(* The call of c goes on, with no answer yet, or ends with one.             *)
Continue(c, local) ==
    /\ caller' = [caller EXCEPT ![c] = local]
    /\ answer' = [answer EXCEPT ![c] = "none"]

Reply(c, a) ==
    /\ caller' = [caller EXCEPT ![c] = Idle]
    /\ answer' = [answer EXCEPT ![c] = a]

At(c, location) == caller[c].at = location

Become(k, state) == child' = [child EXCEPT ![k] = state]

-----------------------------------------------------------------------------
(* install                                                                  *)

MakeDirectory(c, d) ==
    /\ At(c, "idle")
    /\ ~made
    /\ made' = TRUE
    /\ Continue(c, [Idle EXCEPT !.at = "making", !.doc = d])
    /\ UNCHANGED <<spec, file, evidence, writer, lock, child, launches>>

(* Faulty: the document of a known job is replaced.                         *)
InstallAgainReplacing(c, d) ==
    /\ At(c, "idle")
    /\ made
    /\ spec' = d
    /\ Reply(c, "installed")
    /\ UNCHANGED <<made, file, evidence, writer, lock, child, launches>>

(* The directory exists: its document must be the same, to the byte.        *)
InstallAgain(c, d) ==
    /\ At(c, "idle")
    /\ made
    /\ Reply(c, IF spec = d THEN "installed" ELSE "error")
    /\ UNCHANGED <<files, lock, child, launches>>

WriteSpec(c) ==
    /\ At(c, "making")
    /\ spec' = caller[c].doc
    /\ Continue(c, [caller[c] EXCEPT !.at = "described"])
    /\ UNCHANGED <<made, file, evidence, writer, lock, child, launches>>

WritePending(c) ==
    /\ At(c, "described")
    /\ file' = Pending
    /\ Reply(c, "installed")
    /\ UNCHANGED <<made, spec, evidence, writer, lock, child, launches>>

-----------------------------------------------------------------------------
(* launch                                                                   *)

Launchable(status) ==
    \/ status.status = "pending"
    \/ status.status = "running" /\ (status.pid = 0 \/ status.backend = "none")

(* A running job is answered with its handle; a finished one, and one that  *)
(* was not installed, is refused.                                           *)
LaunchRefused(c) ==
    /\ At(c, "idle")
    /\ ~Launchable(file)
    /\ Reply(c, IF file.status = "running" THEN "launched" ELSE "error")
    /\ UNCHANGED <<files, lock, child, launches>>

LaunchBegins(c) ==
    /\ At(c, "idle")
    /\ Launchable(file)
    /\ launches < MaxLaunches
    /\ launches' = launches + 1
    /\ Continue(c, [Idle EXCEPT !.at = "starting"])
    /\ UNCHANGED <<files, lock, child>>

MarkRunning(c) ==
    /\ At(c, "starting")
    /\ file' = [NoFile EXCEPT !.status = "running", !.started = "young"]
    /\ Continue(c, [caller[c] EXCEPT !.at = "marked", !.seen = file'])
    /\ UNCHANGED <<made, spec, evidence, writer, lock, child, launches>>

Spawn(c, backend, location) ==
    \E k \in Child :
        /\ child[k].at = "none"
        /\ \A j \in Child : j < k => child[j].at # "none"
        /\ Become(k, [NoChild EXCEPT !.at = "spawned", !.backend = backend])
        /\ Continue(c, [caller[c] EXCEPT !.at = location, !.child = k])

(* systemd-run refuses a unit whose name is in use.                         *)
SpawnSystemd(c) ==
    /\ At(c, "marked")
    /\ ~UnitLoaded
    /\ Spawn(c, "systemd", "queued")
    /\ UNCHANGED <<files, lock, launches>>

SpawnNohup(c) ==
    /\ At(c, "marked")
    /\ Spawn(c, "nohup", "spawned")
    /\ UNCHANGED <<files, lock, launches>>

FindMainPid(c) ==
    /\ At(c, "queued")
    /\ Alive(caller[c].child)
    /\ Continue(c, [caller[c] EXCEPT !.at = "spawned"])
    /\ UNCHANGED <<files, lock, child, launches>>

(* No backend, no answer from systemctl, or no MainPID within five seconds. *)
LaunchFails(c) ==
    /\ At(c, "marked") \/ At(c, "queued")
    /\ Reply(c, "error")
    /\ UNCHANGED <<files, lock, child, launches>>

RereadStatus(c) ==
    /\ At(c, "spawned")
    /\ IF Terminal(file.status)
       THEN Reply(c, "launched")
       ELSE Continue(c, [caller[c] EXCEPT !.at = "recording"])
    /\ UNCHANGED <<files, lock, child, launches>>

RecordHandle(c) ==
    /\ At(c, "recording")
    /\ file' = [caller[c].seen EXCEPT !.backend = child[caller[c].child].backend,
                                      !.pid = caller[c].child]
    /\ Reply(c, "launched")
    /\ UNCHANGED <<made, spec, evidence, writer, lock, child, launches>>

-----------------------------------------------------------------------------
(* run, in the detached child                                               *)

ChildLocks(k) ==
    /\ child[k].at = "spawned"
    /\ lock = 0
    /\ lock' = k
    /\ Become(k, [child[k] EXCEPT !.at = "locked"])
    /\ UNCHANGED <<files, caller, answer, launches>>

ChildRefused(k) ==
    /\ child[k].at = "spawned"
    /\ lock # 0
    /\ Become(k, [child[k] EXCEPT !.at = "dead"])
    /\ UNCHANGED <<files, lock, caller, answer, launches>>

Exit(k, location) ==
    /\ Become(k, [NoChild EXCEPT !.at = location, !.backend = child[k].backend])
    /\ lock' = IF lock = k THEN 0 ELSE lock

ChildReturns(k) ==
    /\ child[k].at = "locked"
    /\ file.status = "succeeded"
    /\ Exit(k, "dead")
    /\ UNCHANGED <<files, caller, answer, launches>>

(* Faulty: a job that succeeded is run again.                               *)
ChildReadsAnyway(k) ==
    /\ child[k].at = "locked"
    /\ Become(k, [child[k] EXCEPT
                    !.at = "entered", !.seenBackend = file.backend,
                    !.started = IF file.started = "none" THEN "young" ELSE file.started])
    /\ UNCHANGED <<files, lock, caller, answer, launches>>

ChildReads(k) ==
    /\ child[k].at = "locked"
    /\ file.status # "succeeded"
    /\ Become(k, [child[k] EXCEPT
                    !.at = "entered", !.seenBackend = file.backend,
                    !.started = IF file.started = "none" THEN "young" ELSE file.started])
    /\ UNCHANGED <<files, lock, caller, answer, launches>>

ChildEnters(k) ==
    /\ child[k].at = "entered"
    /\ file' = Common(k)
    /\ Become(k, [child[k] EXCEPT !.at = "running"])
    /\ UNCHANGED <<made, spec, evidence, writer, lock, caller, answer, launches>>

(* The status before a command, and a write of the command.                 *)
ChildReports(k) ==
    /\ child[k].at = "running"
    /\ file' = Common(k)
    /\ UNCHANGED <<made, spec, evidence, writer, lock, child, caller, answer, launches>>

WritesEvidence(k) ==
    /\ evidence < MaxWrites
    /\ evidence' = evidence + 1
    /\ writer' = k
    /\ UNCHANGED <<made, spec, file, lock, child, caller, answer, launches>>

ChildWorks(k) ==
    /\ child[k].at = "running"
    /\ WritesEvidence(k)

ChildSucceeds(k) ==
    /\ child[k].at = "running"
    /\ evidence # 0
    /\ file' = [Common(k) EXCEPT !.status = "succeeded", !.evidence = evidence]
    /\ Exit(k, "finished")
    /\ UNCHANGED <<made, spec, evidence, writer, caller, answer, launches>>

(* What a command that timed out had started is not killed with it.         *)
ChildFails(k) ==
    /\ child[k].at = "running"
    /\ file' = [Common(k) EXCEPT !.status = "failed"]
    /\ \E location \in {"dead", "orphaned"} : Exit(k, location)
    /\ UNCHANGED <<made, spec, evidence, writer, caller, answer, launches>>

(* Killed, by RuntimeMaxSec or by the kernel, or failed outside its handler. *)
(* A command that it runs is killed with it or goes on without it.          *)
ChildDies(k) ==
    /\ Alive(k)
    /\ \E location \in {"dead", "orphaned"} :
         /\ location = "orphaned" => child[k].at = "running"
         /\ Exit(k, location)
    /\ UNCHANGED <<files, caller, answer, launches>>

OrphanWorks(k) ==
    /\ child[k].at = "orphaned"
    /\ WritesEvidence(k)

OrphanEnds(k) ==
    /\ child[k].at = "orphaned"
    /\ Become(k, [child[k] EXCEPT !.at = "over"])
    /\ UNCHANGED <<files, lock, caller, answer, launches>>

-----------------------------------------------------------------------------
(* status and read-evidence                                                 *)

(* Faulty: a status whose backend is unknown is passed on as it is.         *)
StatusReadsKnown(c) ==
    /\ At(c, "idle")
    /\ file # NoFile
    /\ IF file.status # "running" \/ file.pid = 0 \/ file.backend = "none"
       THEN Reply(c, file.status)
       ELSE Continue(c, [Idle EXCEPT !.at = "asking", !.seen = file])
    /\ UNCHANGED <<files, lock, child, launches>>

(* Faulty: a job that was never installed is given a status.                *)
StatusReadsMissing(c) ==
    /\ At(c, "idle")
    /\ IF file.status # "running" \/ file.pid = 0
       THEN Reply(c, file.status)
       ELSE Continue(c, [Idle EXCEPT !.at = "asking", !.seen = file])
    /\ UNCHANGED <<files, lock, child, launches>>

StatusReads(c) ==
    /\ At(c, "idle")
    /\ file # NoFile
    /\ IF file.status # "running" \/ file.pid = 0
       THEN Reply(c, file.status)
       ELSE Continue(c, [Idle EXCEPT !.at = "asking", !.seen = file])
    /\ UNCHANGED <<files, lock, child, launches>>

Live(status) ==
    \/ status.backend = "systemd" /\ UnitActive
    \/ status.backend = "nohup" /\ Alive(status.pid)

StatusJudges(c) ==
    /\ At(c, "asking")
    /\ IF Live(caller[c].seen) \/ caller[c].seen.started = "young"
       THEN Reply(c, "running")
       ELSE Continue(c, [caller[c] EXCEPT !.at = "condemning"])
    /\ UNCHANGED <<files, lock, child, launches>>

Condemn(c) ==
    /\ At(c, "condemning")
    /\ file' = [caller[c].seen EXCEPT !.status = "failed"]
    /\ Reply(c, "failed")
    /\ UNCHANGED <<made, spec, evidence, writer, lock, child, launches>>

(* Faulty: evidence is read without a look at the inventory.                *)
ReadEvidenceUnchecked(c) ==
    /\ At(c, "idle")
    /\ Reply(c, IF evidence # 0 THEN "evidence" ELSE "error")
    /\ UNCHANGED <<files, lock, child, launches>>

(* The bytes leave only when they match the inventory of a success.         *)
ReadEvidence(c) ==
    /\ At(c, "idle")
    /\ Reply(c, IF file.status = "succeeded" /\ file.evidence = evidence
                THEN "evidence" ELSE "error")
    /\ UNCHANGED <<files, lock, child, launches>>

-----------------------------------------------------------------------------
(* The process of a call is killed.                                         *)

CallerDies(c) ==
    /\ ~At(c, "idle")
    /\ Reply(c, "none")
    /\ UNCHANGED <<files, lock, child, launches>>

(* The 15 seconds of everything started so far are over: a time stamp ages   *)
(* wherever it was written or read.                                         *)
GraceEnds ==
    /\ \/ file.started = "young"
       \/ \E c \in Caller : caller[c].seen.started = "young"
       \/ \E k \in Child : child[k].started = "young"
    /\ file' = [file EXCEPT !.started = Aged(@)]
    /\ caller' = [c \in Caller |-> [caller[c] EXCEPT !.seen.started = Aged(@)]]
    /\ child' = [k \in Child |-> [child[k] EXCEPT !.started = Aged(@)]]
    /\ UNCHANGED <<made, spec, evidence, writer, lock, answer, launches>>

-----------------------------------------------------------------------------
Install(c) == WriteSpec(c) \/ WritePending(c)
              \/ \E d \in Doc : MakeDirectory(c, d) \/ InstallAgain(c, d)

LaunchGoesOn(c) == MarkRunning(c) \/ SpawnSystemd(c) \/ SpawnNohup(c)
                   \/ FindMainPid(c) \/ LaunchFails(c) \/ RereadStatus(c)
                   \/ RecordHandle(c)

Launch(c) == LaunchRefused(c) \/ LaunchBegins(c) \/ LaunchGoesOn(c)

Status(c) == StatusReads(c) \/ StatusJudges(c) \/ Condemn(c)

ChildEnds(k) == ChildReturns(k) \/ ChildSucceeds(k) \/ ChildFails(k) \/ ChildDies(k)

Run(k) == ChildLocks(k) \/ ChildRefused(k) \/ ChildReads(k) \/ ChildEnters(k)
          \/ ChildReports(k) \/ ChildWorks(k) \/ ChildEnds(k)
          \/ OrphanWorks(k) \/ OrphanEnds(k)

Next ==
    \/ \E c \in Caller : Install(c) \/ Launch(c) \/ Status(c) \/ ReadEvidence(c)
                         \/ CallerDies(c)
    \/ \E k \in Child : Run(k)
    \/ GraceEnds

Spec == Init /\ [][Next]_vars

(* The controller asks for the status again and again and not every such    *)
(* call is killed at the same point; a launch that is not killed goes on,   *)
(* the runtime limits end every child, and time passes.                     *)
FairSpec ==
    /\ Spec
    /\ \A c \in Caller :
         /\ WF_vars(LaunchGoesOn(c))
         /\ SF_vars(StatusReads(c)) /\ SF_vars(StatusJudges(c)) /\ SF_vars(Condemn(c))
    /\ \A k \in Child : WF_vars(ChildEnds(k))
    /\ WF_vars(GraceEnds)
-----------------------------------------------------------------------------
(* Properties                                                               *)

(* Every variable has its type.                                             *)
TypeOK ==
    /\ made \in BOOLEAN
    /\ spec \in Doc \cup {NoDoc}
    /\ file \in StatusFile
    /\ evidence \in Nat
    /\ writer \in Child \cup {0}
    /\ lock \in Child \cup {0}
    /\ child \in [Child -> ChildState]
    /\ caller \in [Caller -> CallerState]
    /\ answer \in [Caller -> Answer]
    /\ launches \in Nat

(* A job id is bound to one document for ever, however install calls cross  *)
(* and die: a retry with another document can never reuse the directory.    *)
SpecIsBound == [][spec # NoDoc => spec' = spec]_vars

(* While the status says succeeded, no child of an overlapping launch is at *)
(* work, and the evidence files are those that were inventoried unless the  *)
(* command of a child that was killed, or timed out, wrote them since.      *)
EvidenceFrozen ==
    file.status = "succeeded" =>
        /\ \A k \in Child : child[k].at \notin {"entered", "running"}
        /\ file.evidence # evidence =>
             writer # 0 /\ child[writer].at \in {"orphaned", "over"}

(* Success is final once no call is in flight: only a launcher or a status  *)
(* call that read the file before can take it back.                         *)
QuietSuccessStays ==
    [][file.status = "succeeded" /\ (\A c \in Caller : At(c, "idle")) =>
         file'.status = "succeeded"]_vars

(* What the controller may conclude from the answers, whatever raced: the   *)
(* job service it is written against.                                       *)
Stage == IF \E k \in Child : child[k].at = "finished" THEN "done"
         ELSE IF \E k \in Child : child[k].at # "none" THEN "started"
         ELSE IF spec # NoDoc THEN "installed" ELSE "absent"

Service == INSTANCE JobService WITH stage <- Stage
ImplementsJobService == Service!Spec

(* A job that some process is recorded for ends in a terminal status that   *)
(* stays, even when its child is killed without a word; or the record is    *)
(* lost to a launcher that read the file before, and the job may be         *)
(* launched again.                                                          *)
RecordedJobsSettle ==
    file.pid # 0 ~> \/ file.pid = 0 /\ Launchable(file)
                    \/ [](Terminal(file.status))

(* "completed jobs are immutable"                                           *)
SuccessIsFinal == [][file.status = "succeeded" => file'.status = "succeeded"]_vars

(* "Avoid a launch/status race before the child has replaced the launcher's *)
(* state": a status call does not declare a job failed whose child runs.    *)
LiveJobsAreNotCondemned ==
    [][\A c \in Caller : At(c, "condemning") /\ answer'[c] = "failed" =>
          child[caller[c].seen.pid].at # "running"]_vars
-----------------------------------------------------------------------------
(* The inductive invariant behind the safety properties                     *)

(* run.lock is held by the one child that has passed it and is not over.    *)
LockInv == \A k \in Child : Holding(k) <=> lock = k

(* The directory, the document and the status appear in this order, by the  *)
(* hand of one caller.                                                      *)
InstallInv ==
    /\ file = NoFile <=> file.status = "missing"
    /\ file # NoFile => spec # NoDoc
    /\ spec # NoDoc => made
    /\ \A c \in Caller :
         /\ At(c, "making") => made /\ spec = NoDoc /\ caller[c].doc \in Doc
         /\ At(c, "described") => spec # NoDoc /\ file = NoFile
         /\ At(c, "making") \/ At(c, "described") =>
              \A b \in Caller :
                  At(b, "making") \/ At(b, "described") => b = c

(* What a call remembers was true of the job once.                          *)
CallInv ==
    \A c \in Caller :
        /\ ~At(c, "idle") /\ ~At(c, "making") /\ ~At(c, "described") =>
             file # NoFile
        /\ At(c, "marked") \/ At(c, "queued") \/ At(c, "spawned")
           \/ At(c, "recording") \/ At(c, "asking") \/ At(c, "condemning") =>
             caller[c].seen.status = "running"
        /\ At(c, "queued") \/ At(c, "spawned") \/ At(c, "recording") =>
             caller[c].child # 0 /\ child[caller[c].child].at # "none"
        /\ At(c, "asking") \/ At(c, "condemning") =>
             caller[c].seen.pid # 0 /\ child[caller[c].seen.pid].at # "none"

(* A pid in the file is a child's, a failure is about some child, and a     *)
(* success was some child's.                                                *)
ChildInv ==
    /\ \A k \in Child : child[k].at # "none" => file # NoFile
    /\ file.pid # 0 => child[file.pid].at # "none"
    /\ file.status = "failed" => file.pid # 0
    /\ file.status = "succeeded" => \E k \in Child : child[k].at = "finished"

IInv ==
    /\ TypeOK
    /\ LockInv
    /\ InstallInv
    /\ CallInv
    /\ ChildInv
    /\ EvidenceFrozen
=============================================================================
