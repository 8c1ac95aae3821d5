# ShadowCrafter: TLA+ models, model checking and proofs

This directory specifies the control logic of ShadowCrafter in TLA+: the
automation that trains, evaluates and publishes the 9B model without an
operator, and the parts around it that keep state, retry, or can be interrupted.
Modules are checked by TLC on small instances, and what matters most is proved
by TLAPS for every value of the constants.

## The system

| Component | Source | State it keeps | Operations | What makes it correct |
|---|---|---|---|---|
| Workflow controller | `automation/controller.py`, `models.py` | `.automation/state.json` | one tick: pick the next task, advance one phase, save | the state file never claims more than has happened; ids are used once; attempts are bounded; it settles |
| Remote worker | `automation/remote_worker.py` | a job directory: `spec.json`, `status.json`, `run.lock`, evidence | install, launch, run, status, read-evidence | an id is bound to one document; evidence that counts is left alone by every child; what is answered was earned; a recorded job settles |
| SSH transport | `automation/remote.py`, `process.py` | none | one remote invocation per call, bounded and timed out | an answer belongs to its call |
| Durable files and lock | `automation/io.py` | temporary files, an advisory lock | atomic replace, non-blocking lock | old or new content, never a mixture |
| Git publisher | `automation/gitops.py` | index, HEAD, remote branch | verify the repository, commit an allowlist, push, verify the ref | nothing else is pushed; a repeat is harmless |
| Promotion | `automation/promotion.py`, `scripts/automation/promote-release.py` | `releases/`, promotion manifests | copy and verify into staging, rename, write the manifest | releases appear whole, once, and manifests describe them |
| Frozen inference | `evaluation/inference.py` | the output directory | verify, load, generate, verify again, publish | predictions belong to what was verified; one call fills the output |
| 9B version run | `scripts/remote/run-9b-version.py` | the workspace of a version, `ready.json` | inventory, infer, collect evidence, gate, copy the candidate, promote | `ready.json` speaks of a release that is there and was evaluated |
| Version watcher | `scripts/automation/watch-9b-versions.py` | local control files, receipts | launch, wait, fetch, publish, verify | a version is launched and published once |
| Official hub publisher | `release/remote_huggingface.py` | none here; the model hub | validate, read the files, compare-and-swap commit, tag | one sound commit a release; receipts are earned |
| Black-box assessor | `blackbox/` | rate window, permits, DNS pins | authorise, resolve, observe | limiter, pins and permits hold; nothing outlives the assessment |
| White-box assessor | `whitebox/` | none | bounded walk over one directory | limits and order of findings |
| V2 launch and training | `scripts/automation/launch-v2-training.py`, `scripts/remote/run-v2-training.py` | the views, the split, the report, the job and its evidence | derive, prepare, report, pin, train | the evidence is of one attempt |
| Training loop, safety, cache | `training/` | private copies, output directory, adapter, run manifest | verify, copy, load, train, verify again, publish | a run manifest is earned; the adapter has the audited tensors |
| Datasets: preparation, hygiene, registry, snapshots | `data/`, `schemas.py` | canonical files, splits, their manifest | redact, deduplicate, split, describe | what is withheld stays out of training; only duplicates are dropped |
| Dataset adapters, augmentation, decontamination | `data/adapters.py`, `augmentation.py`, `ctibench.py` | derived views, decontaminated files | convert, derive, scan | views follow their parents; the benchmark stays out |
| Evaluation gate, metrics, contamination | `evaluation/gate.py`, `metrics.py`, `contamination.py` | an evidence bundle and the report | read, compare with the pins, recompute, judge | a pass is about the pinned bytes; a met target bounds every class |
| Colab export, local artifacts | `release/` , `evaluation/colab.py`, `training/colab.py` | exported bundles | export, verify | |
| Contracts, guardrails, knowledge, CLI | `integrations/`, `guardrails/`, `knowledge/`, `cli.py` | none | validation and plumbing | |

(Source paths without a prefix are under `src/src/shadowcrafter/`, `scripts/` and
`docs/` are under `src/`.)

How they interact. launchd starts the controller again and again; each tick
takes the lock, reads the state file, does one phase and ends. A remote task
goes through *start* (deploy the source, install and launch a job over SSH),
*poll* (ask the worker for the status, fetch the evidence), *finalize* (local
commands that freeze a release manifest), *publish* (a compare-and-swap commit
on the model hub) and *commit* (an allowlisted Git commit, pushed and verified).
The worker runs as separate short-lived processes (one per SSH call) and one
detached child, which share nothing but the files of the job directory. On the
training host a version run calls the inference as a subprocess and promotion as
a function; both can also be started by hand. The V2 job builds its corpus with
the adapters, the augmentation and the preparation, and trains on it in the same
process; the gate judges the evidence that inference and training left, and the
publisher asks the gate again. The watcher fetches the evidence
of such a run and publishes the release from a local directory.

What is hard. The controller can die between any effect and the save that records
it, and a reply can be lost although the request took effect. The worker's status
file is written by the launcher, by the child and by every status query without a
common lock. The hub, the branch and the job live on when a tick dies. Publishers
share no lock: exclusive file creation and the parent commit that the hub compares
are all that keeps them apart. Checkpoints, candidate directories, corpora and
bundles are ordinary files that somebody may write between a check and the use of
what was checked. Every attempt of a V2 revision wants the same file names.
Redaction, two deduplications and the split of lineages follow one another, and the
order decides what leaks. The assessor's coroutines share a limiter, pins and
permits, and a thread outlives the coroutine that waits for it.

## The modules

| Module | Models | Abstract specification | Proofs | Instance |
|---|---|---|---|---|
| `Controller` | `AutomationController.run_once` and its world | `Workflow` | `ControllerProofs` | `MCController` |
| `RemoteWorker` | one job directory and the processes on it | `JobService` | `RemoteWorkerProofs` | `MCRemoteWorker` |
| `Publication` | publishers of releases and the model hub | `ReleaseLedger` | `PublicationProofs` | `MCPublication` |
| `Assessor` | one black-box assessment | | `AssessorProofs` | `MCAssessor` |
| `Files` | what the next three share: processes, contents, absence | | | |
| `Promotion` | `promote_release` | `ReleaseTree` | `VersionRunProofs` | `MCVersionRun` |
| `Inference` | `run_frozen_inference` | | `VersionRunProofs` | `MCVersionRun` |
| `VersionRun` | `run-9b-version.py`: composes the two | `ReleaseTree` | `VersionRunProofs` | `MCVersionRun` |
| `Adapter` | the LoRA tensors: what may be trainable, what may be saved | | `V2RunProofs` | `MCV2Run` |
| `Training` | `train_sft` (extends `Files`, `Adapter`) | | `V2RunProofs` | `MCV2Run` |
| `V2Run` | `run-v2-training.py` and its job: composes with `Training` | | `V2RunProofs` | `MCV2Run` |
| `Corpus` | derivation, decontamination, preparation, what the trainer admits | | `CorpusProofs` | `MCCorpus` |
| `Metrics` | the metrics, as operators over a scope | | `FinalChecksProofs` | `MCGate` |
| `Gate` | `load_and_evaluate` and its two callers (extends `Metrics`) | | `FinalChecksProofs` | `MCGate` |
| `GitPublisher` | `commit_and_push` and the people around it | | `FinalChecksProofs` | `MCGitPublisher` |

Operators whose comment says *Faulty* are not part of any specification: each is
an action with a plausible mistake in it, kept next to the action it would
replace, so that it can be seen that the properties tell the two apart.

### Controller and Workflow

`wf` and `task` are the state file. `pc` and `cur` are what the tick that holds
the lock knows; the lock is the reason why there is one `pc`. `stop` is the STOP
file, `head` the local Git revision, `jobs` what the worker was asked to run,
`hub` and `parent` the model hub and the frozen parent commit of each release
manifest, `pushed` the private branch, `overdue` the wall-time budget.
A tick starts in one of the `Tick…` actions (stop file, no task left, already
settled) or with the phase of the next task: `AdvanceLocal` … `LocalSucceeds`,
`LocalFails` for a local task; `StartRemote`, `Launch`, `SaveHandle`,
`StartFails` (*start*), `PollKeeps`, `PollFailed`, `PollSucceeded`, `OutOfTime`
(*poll*), `FinalizeSucceeds`, `FinalizeFails`, `Publish`, `HubAccepts`,
`SavePublication`, `PublishFails`, `Commit`, `CommitReaches`, `CommitSucceeds`,
`CommitFails`. Effect and save are two actions, and `Interrupt` ends the tick
between them: a kill, a power failure or an exception that escapes. A failure
action may follow an effect that has taken place, which is a lost reply.
`MarkFailure` is `_mark_failure` with both of its ways (retry from *start* or
stay in the phase), and every save that ends a task is followed by `Return`,
which saves the workflow status, as `run_once` does in one call.
`Workflow` is what a reader of the state file may rely on: tasks strictly in
order, success final, an exhausted task fails the workflow in the same save.

### RemoteWorker and JobService

One job directory. `file` is `status.json`, `spec` is `spec.json`, `lock` is
`run.lock`, `evidence` counts the writes of the evidence files (so that an inventory
tells whether they were written since) and `writer` is the child whose command wrote
them last. `caller` are the processes that serve SSH calls and `child` the detached
ones; each has a place between two file operations and what it has read so far, so
that a `status.json` that is read at one time and written at a later one can undo
what came between (`MarkRunning`, `RecordHandle`, `Condemn`). `Age` tells a time
stamp within the 15 seconds of grace from an older one, and `GraceEnds` lets all
age. Callers and children may be killed anywhere. The command of a child is a
process of its own (`remote_worker.py:320`): when the child is killed, or gives up a
command that timed out, the command may go on without `run.lock` and write evidence
(`OrphanWorks`) while another child of the same job runs, or after one has
succeeded; the inventory of that child may then count an orphan's files as its own,
and `read-evidence` refuses what was written later. Both backends may leave such a
command here, which is wider than the code: systemd stops what is left in the unit,
and `UnitLoaded` keeps the unit's name taken until then. What a child that ended
*well* left in the background is not modelled. `JobService` is what the controller
is written against: the job goes forward only, and `succeeded` and evidence are
answered only for a job that was carried out, while `running` and `failed` may be
wrong.

### Publication and ReleaseLedger

Any number of publishers, for three kinds of releases: `OneShot` (the watcher makes
the local directory, once), `Resumable` (`publish-9b-pre-eval.py` may be run again
over its manifest) and `Frozen` (the command, with a manifest made before). `hub` is
the history of `main`, `manifest` the parent each manifest names (or torn), `sound`
whether the files on disk are those that were approved (approvals and files are not
told apart), `local`, `tags` and `receipt` what their names say. `Begin`,
`MakeManifest`, `PublishRelease` and `Finish` follow the code in order; `Stop` ends
a publisher after any step, by a failure or a kill. Others commit to the repository
(`CommitByOthers`), make it private or public, and change files (`Spoil`).
`ReleaseLedger` is the reader's view: one commit a release, a tag on that commit
that never moves, a record only of what is there.

### Assessor

A step is what runs between two awaits of the event loop. `task` are the
coroutines of `_observe_one` (created, holding a permit and sleeping in the
limiter, waiting for the DNS lock, resolving, sending, ended), `stamps` the deque
of the limiter, `pins` the DNS pins, `thread` the transport jobs of
`asyncio.to_thread`, which are queued, open or closed whatever becomes of their
coroutine. `grants` and `used` are history. `TimeOut` gives up the future and not
the thread; `Abort` and `Interrupt` cancel what is left. `now` is a bounded clock;
`Expiry` is the end of the authorization.

### Promotion, Inference, VersionRun and ReleaseTree

`Promotion`: `candidate`, `staging` and `release` are directories, a partial
function from files to contents each; `promoter` are the calls. A staging
directory is named after the target and the process id, and ids come back
(`LeavePromotion`), so that a directory left by a kill blocks the next process
of that id (`Blocked`). `CopyFile` compares the digest of what it wrote with the
request, `Expose` is the rename, `Describe` writes the manifest, and a call can
fail or be killed before, between and after them. `ReleaseTree` is the reader's
view: releases appear whole and once, a manifest lists what is there.

`Inference`: `disk` are the input files with a count of how often each was
written, `request` the pinned digests and the inventory, `session` the calls,
`output` the output directory with its two files and who put them there. A call
verifies each of `Checks` in order, loads the weights file by file, generates,
verifies again and publishes. `pin` checks also compare what the file system says
of the file (`_stable_file`): the count must be the same at both times; `tree`
checks only compare with the inventory, as the code does.

Before it loads, `Cited` asks that verified files are of one another: the entry of
the checkpoint manifest for the weights, the run manifest for what was trained,
the gate's configuration for the cases. `Links` are the pairs of checks that cite
each other and `Cites` which contents do. The instance has one link, from the
pinned run manifest to the weights; the other links of the code are of the same
kind.

`VersionRun` extends both and adds the runs (`run`), what they leave
(`inventory`, `evidence`, `passed`, `approvals`, `ready`) and whatever goes on
beside them: operators who run the same inference or promote by hand, writers of
the checkpoint and of the candidates. Every step of it is one step of promotion
and of inference or leaves their variables alone; this is proved (`VersionStep`).

### Adapter, Training and V2Run

`Training` is `train_sft` phase by phase (`Phase`): the inputs are verified in
order, copied into a private snapshot and hashed as they are copied, the base model
is loaded, the output directory is claimed, the model trained and its adapter
reopened, everything verified a second time, the adapter renamed, the run manifest
created and filled, the output inspected. A kill leaves what is there, a failure
after `MakeStaging` removes the output directory, and one before it does not
(`FailToStage`). The removal is `shutil.rmtree` with errors ignored: entry by entry,
in any order (`RemoveEntry`), it may be killed half way or leave what it cannot remove
(`RemovalEnds`), so that a whole run manifest may stay beside a partial adapter, or
beside none. `root.fate` remembers that a removal has begun; `ManifestIsEarned` says
that only then an adapter is missing, and that the run of such a manifest has not
succeeded. `disk` counts the writes of each input, as in `Inference`; only
what is in `Frozen` is copied, the base model is read in place. `Adapter` says
which sets of tensors the audit of the model and that of the saved file accept:
the file is compared with the model by the number of tensors only. The comparison of
`parameter_count` (`sft.py:1164`) is left out: tensors have no sizes here, so the model
accepts more files than the code.

`V2Run` puts an attempt before the training: each view is begun only where no file
of it is (`WriteView`), the V1 corpus is read again when it is merged
(`ReadCorpus`), split, catalogue and report are created exclusively, and the pins
are taken from the files that are then on the disk (`PinsNow`). `job` is what the
worker makes of the attempt. The names of the files are those of the revision, so
that two attempts meet in all of them; `CleanUp` is the operator who removes what a
failed attempt left, once nothing of it runs any more (a command that outlived its
worker is the subject of `RemoteWorker`, and not composed with `V2Run`). ATT&CK and
Juliet views are one kind of `View` here. That the root of a live trainer is
removed, or an inode comes back, is left out.

### Corpus

Records are small: one question, one answer, a group, a source, a licence, a
parent, a time, and one `flaw` that stands for whatever makes a record inadmissible
(digest, binary payload, disallowed tier, roles, length). Texts are compared by
`Form` (the normalization that hygiene, gate and benchmark share), `Redacted` takes
secrets out and `ViewOf` is the text of a derived view. `Decontaminate`,
`DeriveJuliet`, `DeriveAttack` and `ScanInput` come before the preparation, which
hashes, reads and hashes again each input (`HashInput`, `ReadInput`, `RehashInput`).
`EditInput` is everybody else: until an input was read they may write it at any time,
with anything of `Tampered` or with what was hashed, in particular between the scan
(`run-v2-training.py:180`) and the first hash (`prepare.py:282`); `touched` counts the
writes between the two hashes of an input, and `scanned` forgets an input that is
written. An input is read in one step: one that is written line by line while it is
read is taken for one of its two contents, and the second hash refuses the rest.
Preparation then in one step checks parents and
evaluation duplicates, drops exact and normalized duplicates, puts whole groups
into splits by one of three modes and checks that the splits are isolated
(`SplitRecords`), and describes them (`WriteManifest`). `SearchSplit` is the search of
the V2 job after it (`run-v2-training.py:192-217`): the whole input must be in the
training split, and the records of some sources (`Rescanned`) are searched once more;
the record counts that the job pins (`196-206`) are left out, and so are writes to the
split, which are the subject of `V2Run`. `TrainOn` is what the
trainer demands of the manifest, of the registry as it then is, and of each
record. A derivation is one step: that its output is created exclusively is in
`V2Run`. In *isolated* mode a corpus with evaluation-only records is prepared but
can never be trained on, and preparation admits roles and tiers that the trainer
refuses; the model has both.

`Benchmark` are the normal forms of what the evaluation asks, `Within` which normal
form of 80 characters or more is part of which. Nothing is assumed of redaction: a
text that changes keeps what it asks (the instance has such a text). So two things are
known of what is trained on, and `TrainedWasSearched` says both: the records of the
sources that are searched again are clean as they are trained on, whoever wrote the
inputs; and if both inputs were searched and not written after, every other record is a
clean one with its secrets taken out. That *nothing* overlaps, as the job reports, does
not hold (`OverlapIsNone` below).
The gate calls its own test by the same name ("normalized content, exact and
containment") but has no bound of 80 characters: a record that passes here with a
short question inside a longer text fails there.

### Metrics and Gate

`Gate` reads an evidence manifest, then the nine kinds of files it pins, in order,
and compares the bytes it will judge with the pins (`ReadFile`), while others write
the files and make the manifest again. `Judge` counts the training records that hold
a text of the benchmark, and computes accuracy, balanced accuracy and macro F1 with
`Metrics` for each task and for the whole. `CommandCalls` writes the report;
`PublisherReads` reads the manifest first, and `Accept` wants the one its release
names. Scores are whole parts of `Scale`, so sums are exact where the code's are
floats: three recalls of 19/20 make 0.9499999999999998 there and miss a target of
0.95, which blocks nothing. The threshold of the instance is 3/5, which
`gate.py:270` would refuse: with five cases only that leaves predictions that meet a
target without being perfect. At the least threshold the code takes, 0.95, the bound
that `TargetCoversEveryClass` gives for a class says nothing from 20 classes on.
That predictions are those of the cases (`Aligned`) is checked with the predictions
file; the code does so after the scan.

### GitPublisher

One call of `commit_and_push`, one git command a step, with `work`, `index`, `local`
and `remote`; the call fails or is killed anywhere (`EndCall`) and the controller
calls again. Beside it people edit, stage, commit, amend, pull, and push from
elsewhere. What they committed and did not push goes along with the push of the
task, as it does in git. Others only add to the branch: nobody pushes by force, and
`ReturnedIsPublished` is about a branch that is not rewritten. In `Controller` the
whole call is two steps.

## What is checked

Passing runs; each property's comment says what it is about.

| Run | Instance | Shows |
|---|---|---|
| `controller` | three tasks: local, remote after it, local; 1, 3, 1 attempts; two interruptions, two revisions | run ids are fresh, a saved handle is of the newest job of its task, attempts are bounded, one release a task, releases have a job that succeeded, success is real; `Workflow` is implemented; the workflow settles |
| `worker` | two callers, two documents, two launches, two children, two writes of evidence | while `succeeded` stands no child is at work and only a command that outlived its child changes the evidence, success is final while no call is in flight, `JobService` is implemented |
| `worker_live` | two callers, one document, two overlapping launches, one child, one write, fair | a job some process is recorded for reaches a terminal status that stays, or its record is lost to an overlapping launch and it may be launched again |
| `publication` | two publishers, one release of each kind, two further commits | a release commit sits on the parent of its manifest, holds what was approved, tags and receipts name it; `ReleaseLedger` is implemented |
| `publication_live` | one publisher, a resumable and a frozen release, fair | an attempt that stopped before the commit is made good by a later one |
| `assessor` | three requests, two hosts, two addresses, two permits, two requests per window of two, timeout two, expiry at three, clock to five | the limiter is strict, pins are unique, an assessment ends |
| `version_run` | two runs, one operator, two releases, a pinned run manifest, a weights file and a link from one to the other, a model card, two contents, three events | manifests describe releases, predictions are bound to what was verified and to inputs that are of one another, `ready.json` speaks of an evaluated release, `ReleaseTree` is implemented, complete output is final |
| `v2_training` | two attempts, one view, an input of each kind, three audited modules of which two are adapted, two writes by others, removals that stop half way | a run manifest is of inputs verified twice and has its adapter unless a removal has begun, the evidence is of one attempt, a final adapter has both tensors of each of the audited modules |
| `corpus` | two or three records of thirteen kinds, three registries, three modes, two writes to either input at any time until it was read: nothing, or a record with a secret and what the benchmark asks, from a source that is searched again or not | withheld content stays out, each content is kept once, what is trained on is approved, and searched as far as the two searches reach, the manifest gives what was read |
| `gate` | five cases of two tasks that share their labels, 72 sets of predictions, three training sets, three sets of reviews, two writes | a pass is about the pinned bytes and a clean corpus; a target that is met bounds the recall of each class; the whole is the mean of the tasks; what the publisher accepts was judged |
| `git` | two calls, four steps of others, a path of the task and one of others | commits of the task stay within its allowlist; what is returned is on the branch for good and holds the work |

One run ends in a violation: `v2_job`, below under *Findings*.

`findings` in `PROJECT.json` quotes the lines on both sides.

### Bounds, and why they are enough

- `MaxInterruptions`, `MaxHead` (`Controller`): ticks that die, revisions. Two
  deaths are what it takes to lose a reply and then to lose the retry's; two
  revisions tell the recorded source from the current one. Three tasks put one
  task on either side of the remote one, and the remote task depends on one. Three
  attempts allow a success after two failures in different phases.
- `MaxChildren`, `MaxLaunches`, two callers (`RemoteWorker`): the races of the job
  directory are between two launchers, two children or a launcher and a status call.
  Documents and callers are symmetric: only compared with each other, and no
  property names one. The live run has one child: its second launch overlaps the
  first, takes the record away and fails, which is the case in which a job stays
  `running` without a process; two children at once are in the safety run only.
- `MaxHub` (`Publication`): the first commit and two more, so that a parent can be
  overtaken by another release or by somebody else. Two publishers race for the
  directory, the manifest and the parent. `Publisher` is symmetric; the live run
  has one publisher and no symmetry.
- `MaxTime` (`Assessor`): the assumption of the module asks that it covers the
  expiry and then one window and one timeout, so no coroutine is kept waiting by
  the end of the clock. Two requests for one host race for its pin, the third
  goes elsewhere; with two permits and a window of two, a third grant must wait.
- `MaxEvents` (`VersionRun`): runs that are claimed, calls of operators, and writes
  by others, together. Three are enough for a run, an operator who repeats its
  inference or promotes to its target, and a write between them; or for two runs
  and a write; or for one run and a file that is replaced and put back. Every
  other action is unbounded, and process ids come back. `Interchangeable` permutes
  the two runners, which no property names. `CHECK_DEADLOCK FALSE` because a
  version run ends: when the events are used up and all have ended, nothing is left.
  In `assessor` nothing is left either once the batch is over and the clock stands.
- `MaxWrites` (`V2Run`, `Gate`), `MaxEdits` (`Corpus`): writes by others. Two are
  what it takes to swap a file and to put it back. In `RemoteWorker` `MaxWrites` bounds
  the writes of evidence by the commands of children: one that is inventoried and one
  after it. One view is enough, because
  views are only ever looked at one by one, in order; two attempts race for every
  name, and are symmetric. Three records are two duplicates and the record whose
  group one of them is in, or a parent, its view and a holdout with its text.
- `MaxCalls`, `MaxSteps` (`GitPublisher`): a call and its repetition; four steps of
  others are enough to edit, stage, commit and amend, or to push elsewhere and pull,
  between any two commands. `CHECK_DEADLOCK FALSE` in these four because a batch
  job ends.
- What is bound is bound in a guard of a named action (`Interrupt`,
  `OperatorCommits`, `CommitAndPush`, `LaunchBegins`, `Spawn`, `CreateCommit`,
  `CommitByOthers`, `Tick`, `Event`, `Others`, `WritesEvidence`, `EditInput`, `BeginCall`). The
  theorems hold for every value of these constants.

### Fairness, and why it may be assumed

- `Controller`: weak fairness of `ControllerStep` as a whole, because launchd starts
  a tick again and again, and of `Expire`, because wall time passes. Jobs need not
  end, phases may fail for ever, and nothing says which way a phase goes: `Settles`
  follows from the budgets alone, and from `MaxInterruptions`: ticks that die after
  they saved nothing can go on for ever in the code.
- `RemoteWorker`: a launch that was not killed goes on; the runtime limits (systemd
  `RuntimeMaxSec`, or the watchdog of the child) end every child; time passes; the
  controller asks for the status at every tick and is not killed at the same
  point each time, hence strong fairness of the steps of a status call. A job whose
  record was lost to an overlapping launch stays `running` until somebody launches it
  again, and nothing in the code has to; `RecordedJobsSettle` says so.
- `Publication`: a run of `publish-9b-pre-eval.py` ends, and is repeated; not every
  repetition dies before the step that the last one did not reach (strong
  fairness, step by step, for one release). Others may commit, spoil files or hide
  the repository for ever, which is why `RetriesCommit` speaks of releases that
  stay retryable.
- `Assessor`: the event loop runs what is ready, and time passes. Nothing is assumed
  of the resolver, the thread pool or the servers.
- `VersionRun` promises no liveness: a run that fails leaves its workspace, and the
  version cannot be run again. Neither do `V2Run`, `Corpus`, `Gate` and
  `GitPublisher`: each is one batch call that may fail at any step and is not
  repeated by the code of that module.

## What is proved

All for arbitrary constants that satisfy the named assumptions of the modules
(finitely many tasks in a fixed order with dependencies on earlier ones; at most one
remote task, which `AutomationConfig` enforces by allowing one 9B job; positive
limits; markers of absence that are no values; a benchmark that is a finite list,
files of finitely many records). In each module the safety properties are not
inductive, and the inductive invariant at its end adds what a process in the middle
of an operation knows.

- **Controller** (`IInv`): `TickInv` says what a tick at each place may rely on;
  `InOrder` that no task is touched before the earlier ones succeeded; `JobsInv`
  ties launched jobs to saved attempts, and is why a run id is fresh although the
  tick that launched the last job may have died before saving its handle;
  `AttemptsInv` how many attempts each situation can have used; `HubInv` that a
  release leaves its task in *publish* or *commit* with a parent that is overtaken,
  which is why it cannot be published again. All seven safety properties, and
  `Refinement`: every step maps to a step of `Workflow` or a stutter.
- **RemoteWorker** (`IInv`): the lock is held by the one child past it; directory,
  document and status appear in this order by one caller; what a call remembers was
  true once; a pid in the file is of a child that was started. From it
  `EvidenceFrozen` (while `succeeded` stands no child is past the lock, so who
  writes has left it), `SpecIsBound`, `QuietSuccessStays`, and the refinement of
  `JobService`, where the stage of a job is computed from the children.
- **Publication** (`IInv`): what a publisher at each place can rely on (`Good`), one
  writer for a torn manifest, and the safety properties together: the parent in
  the manifest equals the one passed to the hub, and a manifest never changes,
  so two commits of one release would have one index. `StrandedStays` is an
  action property from the same invariant; `Refinement` maps to `ReleaseLedger`.
- **Assessor** (`IInv`): `LimiterInv` says that the deque is the tail of all grants
  and that whatever left it is a window old; `GrantsAreSpaced` follows from that
  and from the order of the grants. Permits are counted as a finite set.
- **Promotion** (`PromotionInv`): what is staged so far is what was asked for, so
  that a complete staging directory *is* the request's tree (`SameTree`), and after
  the rename the release is; then `ManifestDescribes`, and `PromotionImplements`.
- **Inference** (`InferenceInv`): `BoundBy` counts writes. After the first check, a
  file that was not written is intact; if other contents were loaded, it was
  written at least once, and if only once, it is still different and the second
  check will see it; so after the second check there were at least two writes.
  `OutputInv` says that only the call that made the output fills it. From these
  `SuccessIsBound`, `OutputIsOwned` and the action property `OutputIsFinal`.
- **VersionRun** (`VersionInv`): the two invariants above, and `RunInv`, what a run
  has behind it at each phase and that a release belongs to one run. `VersionStep`
  shows each action to be a step of promotion, of inference or of neither, so that
  their invariants are reused as they stand; then `ReadyIsPromoted` and `TypeOK`.
  `EvidenceInv` follows the weights of the measured release beside it: the second
  check of the inference bounds the writes at which a file was intact (the last
  conjunct of `BoundBy`), so a file copied into the candidate that differs was
  written after it; a promotion takes the candidate as it then is. What every
  other process does leaves a run's evidence alone (`Calm`), unless an operator
  changes the candidate, which `touched` remembers. Hence `ReadyIsEvaluated`.
- **Adapter** (`AdaptersAreAudited`): every module of a saved adapter has each of its
  two tensors once, so that each half is in bijection with the modules and twice their
  number is the count that `_verify_saved_adapter` checks.
- **Training** and **V2Run** (`IInv`): `RootInv` ties what is in the output
  directory to the phase of the run that claimed it, and to whether its removal has
  begun. `InputsInv` counts the writes to the base model: if it differs from the pin
  after the load it was written once, and if only once it still differs, so that the
  second verification passes only after a second write. `HoldInv` says that what an
  attempt wrote stays its own while its job has not failed or while it has the
  output directory, which is what exclusive creation gives; `CountInv` that one of
  the two prepared files is as reported as long as others wrote them at most once:
  the split that was trained on and the manifest that names it are both other than
  reported only after two such writes. From these `ManifestIsEarned` and
  `EvidenceIsOneAttempts`.
- **Corpus** (`IInv`): `StageInv` says which files there are at each stage,
  `AdmittedInv` that what was read was admissible, `SplitInv` what preparation leaves,
  `CleanInv` what is clean because it was searched and not written since, and that what
  was read of such inputs is theirs, `DigestInv` that after at most one edit what
  was read of an input is what was hashed or what is there now, which the second hash
  settles; `ManifestInv` that the manifest is of this preparation.
  `WithheldContentStaysOut` and `ContentIsKept` rest on `FirstIsKept`: of the records
  of one content the first in the order of `Before` is kept, and withheld records
  come first.

- **Metrics**: a sum over a finite set is counted (`Total`): a score of *n* is *n*
  units, so that sums over unions, over groups and through bijections are facts about
  cardinalities. `SumFunctionIsTotal` says that this is what the fold computes; it needs
  no induction over data, because a set of subsets of a finite set on which the two
  differ would have a smallest member (`Smallest`). Then `Scores`: recall and F1 are at
  most `Scale`; `AScoreOfAMean`: what a mean says of each score in it;
  `MetricsOfTasks`: a label of a task has the samples, and so the scores, of that task.
- **Gate** (`GateInv`): `ReadInv` says that what was read so far is what the manifest
  pins and was found in order, `JudgedInv` that there is one judgement, of what was
  read, and that only it is accepted. All four properties follow from it; the two
  about the metrics hold of every report, whatever the predictions.
- **GitPublisher** (`GitInv`): `WorkInv` says where the files of the task are as the
  call found them, at each of its commands, while others leave them alone: in the
  working tree, then in the index too, then in HEAD, whoever committed them, and at
  last in the revision. Beside it the branch only grows (`CommitsStep`), so what was
  at its end once stays on it. All three properties are part of `GitInv`.

Those of the proved invariants that no run lists (`TypeOK` of each module,
`StatusesAgree`, `SpecIsBound`, `StrandedStays`, `OverIsOver`,
`ConnectionsFollowPermits`, `OutputIsOwned`, `ReadyIsPromoted`,
`ViewsFollowParents`) support the others; a reader can check any of them by adding it
to the configuration of its run.

Only model-checked: liveness (`Settles`, `RecordedJobsSettle`, `RetriesCommit`,
`AssessmentEnds`), which the prover cannot treat. Every safety property and every
refinement of the runs is proved.
The inductive invariants were also found to hold in every reachable state of the
instances above before they were proved.

## Findings

`v2_job`: `run-v2-training.py:280` writes its checkpoint under another name than
`launch-v2-training.py:109` fetches, so the job of a training that succeeded fails.

Statements the repository makes of itself that do not hold of the code. Their
definitions are kept in the modules and no configuration lists them; to see the
counterexample, replace the properties of the configuration named by the statement.

| Statement | Module, configuration | Source | What the code does |
|---|---|---|---|
| `ReleasesAreRecorded` | `Controller`, `MCController` | `controller.py:399` | a tick that dies between the publication and the save leaves a release on the hub that the state file never names; the retry can only fail |
| `ReleaseTracesToRun` | `Controller`, `MCController` | `controller.py:166` | a failed *finalize* or *publish* counts an attempt, and the commands are rendered again with the `RUN_ID` of a run that does not exist |
| `SuccessIsFinal` | `RemoteWorker`, `MCRemoteWorkerLive` | `remote_worker.py:239` | a launcher or a status call that read the file earlier writes over the success |
| `LiveJobsAreNotCondemned` | `RemoteWorker`, `MCRemoteWorkerLive` | `remote_worker.py:286` | a child that starts before the launcher recorded its handle writes no backend and is declared failed while it runs |
| `ConnectionsBounded` | `Assessor`, `MCAssessor` | `blackbox/network.py:229` | a request that timed out keeps its thread and connection, and its permit goes to the next one |
| `FailureLeavesNothing` | `Training`, `MCV2Run` | `sft.py:586`, `sft.py:599` | "remove all partial output after any failure": the staging directory may not be made, errors of the removal are ignored, a kill removes nothing |
| `OverlapIsNone` | `Corpus`, `MCCorpus` | `run-v2-training.py:184` | the report's `ctibench_overlap: 0`: an input is not pinned between its scan and its first hash, and of the split only one source is searched again |
| `HoldoutLineageStaysOut` | `Corpus`, `MCCorpus` | `prepare.py:355` | lineages are formed after duplicates are dropped, so a group whose holdout was a duplicate of another group's is split by its hash and may be trained on |

The two of the status file of the worker have one cause: `status.json` is read, and
later written, outside `run.lock`, by `launch` and `status`. The two of the
controller have another: the publication and the attempt counter are saved apart
from what they describe. `ReleaseTracesToRun`, `ConnectionsBounded` and
`HoldoutLineageStaysOut` are also the three hazards of `PROJECT.json` that no checked
property covers.

Further hazards that no property covers: STOP and an exhausted budget do not stop
the remote job (`controller.py:482`); `atomic_write_bytes` may report a failure of
the directory fsync after the replace took effect (`io.py:97`); the watcher repeats
a launch whose answer was lost, and is refused when the job has succeeded meanwhile
(`watch-9b-versions.py:127`); the authorization may expire while a job is queued for a
thread (`blackbox/assessor.py:192`); a repository may be made public after it was
seen to be private (`gitops.py:142`); nothing in a bundle ties the scanned corpora to
the training (`gate.py:949`); a staging directory that inference makes read-only
cannot be removed by its own clean-up unless it runs as root (`inference.py:1697`).

## What is not modelled

`PROJECT.json` names each part that has no module and the reason: files and lock
(their steps are in the modules that use them), credentials, the white-box assessor
and the local exports (sequential, without shared state), validation and plumbing,
generated notebooks and tools for hand use. Partly modelled: the SSH transport (an
answer or a lost one), the watcher (what it asks of `Publication`), dataset adapters
(their output files), the trainer of the notebook and what the optimiser computes,
downloads of snapshots. Within the modelled parts: wording, rendering of commands,
logs, time stamps; contents of documents, prompts, evidence and cards, which are
identities or digests; the gate's verdict in `VersionRun`, which is free there and is
the subject of `Gate`; reboots of the training host, which would end all children at
once.

## Plan

Done: 1. `Controller`, `Workflow`; 2. `RemoteWorker`, `JobService`;
3. `Publication`, `ReleaseLedger`; 4. `Assessor`; 5. `Promotion`, `Inference`,
`VersionRun`, `ReleaseTree`, each checked and proved; 6. `Adapter`, `Training`,
`V2Run`; 7. `Corpus`; 8. `Metrics`, `Gate`; 9. `GitPublisher`, each checked; 10. the
proofs of 6 to 9. To do, in this order:

11. **Watcher** (`watch-9b-versions.py`) over `RemoteWorker` and `Publication`.
12. **Snapshots** (`data/snapshot.py`, `hf_snapshot.py`): staging and publication as a
    state machine like `Promotion`.
13. `Controller` with `GitPublisher` in the place of two steps, and `VersionRun` with
    `Gate` in the place of its free verdict.
