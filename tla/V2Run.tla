-------------------------------- MODULE V2Run --------------------------------
(***************************************************************************)
(* run-v2-training.py: an attempt builds the V2 corpus in files that are    *)
(* created exclusively and named after the revision, writes a report, pins  *)
(* what it has written and trains. Every attempt of a revision wants the    *)
(* same files. launch-v2-training.py makes a job of each attempt and names  *)
(* the evidence the worker is to fetch.                                     *)
(***************************************************************************)
EXTENDS Training

CONSTANTS
    Views,          \* how many canonical and derived views there are
    V1Pin,          \* the pinned V1 corpus
    Pinned,         \* what the other inputs must be
    MaxWrites       \* bound: writes by others

ASSUME ViewAssumption ==
    /\ Views \in Nat
    /\ V1Pin \in Content /\ Pinned \in [Input -> Content]

ASSUME BoundAssumption == MaxWrites \in Nat

VARIABLES
    v1,             \* the V1 corpus, not one of the inputs of the trainer
    view,           \* the files of each view
    split,          \* who wrote the prepared split and its manifest
    report,         \* training-inputs.json
    attempt,        \* the runs of run-v2-training.py
    job,            \* what the worker says of each attempt
    writes          \* the writes by others

runVars == <<v1, view, split, report, attempt, job, writes>>
vars == <<trainingVars, runVars>>

View == 1 .. Views

NoView == [records |-> Missing, manifest |-> Missing]
NoReport == [by |-> Missing, train |-> Missing]

AttemptPhase == {"idle", "checked", "deriving", "preparing", "splitting",
                 "reporting", "pinning", "training", "over"}

AttemptState == [at : AttemptPhase, next : Nat, corpus : Anything]

AttemptAt(t, at) == attempt[t].at = at

Init ==
    /\ TrainingInit
    /\ disk = [f \in Input |-> [content |-> IF f \in {Train, Manifest} THEN Missing ELSE Pinned[f],
                                writes |-> 0]]
    /\ v1 = V1Pin
    /\ view = [i \in View |-> NoView]
    /\ split = [train |-> Missing, manifest |-> Missing]
    /\ report = NoReport
    /\ attempt = [t \in Proc |-> [at |-> "idle", next |-> 1, corpus |-> Missing]]
    /\ job = [t \in Proc |-> "none"]
    /\ writes = 0

-----------------------------------------------------------------------------
(* The attempts *)

Move(t, at) == attempt' = [attempt EXCEPT ![t] = [@ EXCEPT !.at = at]]

Launch(t) ==
    /\ job[t] = "none"
    /\ job' = [job EXCEPT ![t] = "running"]
    /\ UNCHANGED <<trainingVars, v1, view, split, report, attempt, writes>>

(* The pinned inputs are there: the V1 corpus, the archive, the cases.       *)
CheckPins(t) ==
    /\ AttemptAt(t, "idle") /\ job[t] = "running"
    /\ v1 = V1Pin
    /\ Move(t, "checked")
    /\ UNCHANGED <<trainingVars, v1, view, split, report, job, writes>>

(* Faulty: a view that is there is used as it is.                            *)
ReuseView(t) ==
    LET i == attempt[t].next IN
    /\ AttemptAt(t, "checked")
    /\ i \in View
    /\ view' = IF view[i] = NoView THEN [view EXCEPT ![i].records = t] ELSE view
    /\ Move(t, "deriving")
    /\ UNCHANGED <<trainingVars, v1, split, report, job, writes>>

(* A view is not begun over files of another attempt, and the records are    *)
(* created exclusively.                                                      *)
WriteView(t) ==
    LET i == attempt[t].next IN
    /\ AttemptAt(t, "checked")
    /\ i \in View
    /\ view[i] = NoView
    /\ view' = [view EXCEPT ![i].records = t]
    /\ Move(t, "deriving")
    /\ UNCHANGED <<trainingVars, v1, split, report, job, writes>>

DescribeView(t) ==
    LET i == attempt[t].next IN
    /\ AttemptAt(t, "deriving")
    /\ i \in View
    /\ view[i].manifest = Missing
    /\ view' = [view EXCEPT ![i].manifest = t]
    /\ attempt' = [attempt EXCEPT ![t] = [@ EXCEPT !.at = "checked", !.next = i + 1]]
    /\ UNCHANGED <<trainingVars, v1, split, report, job, writes>>

(* The views are clean of evaluation cases; V1 is read again to be merged.   *)
ReadCorpus(t) ==
    /\ AttemptAt(t, "checked") /\ attempt[t].next = Views + 1
    /\ attempt' = [attempt EXCEPT ![t] = [@ EXCEPT !.at = "preparing", !.corpus = v1]]
    /\ UNCHANGED <<trainingVars, v1, view, split, report, job, writes>>

(* The split and its manifest, each created exclusively; both must be absent *)
(* before the first is made.                                                 *)
WriteSplit(t) ==
    /\ AttemptAt(t, "preparing")
    /\ disk[Train].content = Missing /\ disk[Manifest].content = Missing
    /\ WriteDisk(Train, attempt[t].corpus)
    /\ split' = [split EXCEPT !.train = t]
    /\ Move(t, "splitting")
    /\ UNCHANGED <<trainer, root, v1, view, report, job, writes>>

(* The manifest gives the digest of the split that is now there.             *)
WriteCatalogue(t) ==
    /\ AttemptAt(t, "splitting")
    /\ disk[Manifest].content = Missing
    /\ WriteDisk(Manifest, disk[Train].content)
    /\ split' = [split EXCEPT !.manifest = t]
    /\ Move(t, "reporting")
    /\ UNCHANGED <<trainer, root, v1, view, report, job, writes>>

WriteReport(t) ==
    /\ AttemptAt(t, "reporting")
    /\ report = NoReport
    /\ report' = [by |-> t, train |-> disk[Train].content]
    /\ Move(t, "pinning")
    /\ UNCHANGED <<trainingVars, v1, view, split, job, writes>>

(* The pins of the training are taken from the files themselves, except for  *)
(* the base model and the revision.                                          *)
PinsNow == [f \in Input |-> IF f \in {Base, Source} THEN Pinned[f] ELSE disk[f].content]

StartTraining(t) ==
    /\ AttemptAt(t, "pinning")
    /\ BeginTraining(t, PinsNow)
    /\ Move(t, "training")
    /\ UNCHANGED <<v1, view, split, report, job, writes>>

TrainV2(t) ==
    /\ AttemptAt(t, "training")
    /\ TrainStep(t)
    /\ UNCHANGED runVars

(* An attempt ends without training: refused, failed or killed.              *)
EndAttempt(t) ==
    /\ attempt[t].at \notin {"training", "over"} /\ job[t] = "running"
    /\ Move(t, "over")
    /\ UNCHANGED <<trainingVars, v1, view, split, report, job, writes>>

-----------------------------------------------------------------------------
(* The job of an attempt *)

(* The directories the trainer writes and the job fetches from, by name.     *)
WrittenCheckpoint == "v2-expanded-multitask-174k-20260902"
FetchedCheckpoint == "v2-expanded-juliet-20260902"

EvidenceIsThere(t) ==
    /\ FetchedCheckpoint = WrittenCheckpoint /\ root.manifest # "none"
    /\ report # NoReport

Ended(t) ==
    \/ AttemptAt(t, "over")
    \/ AttemptAt(t, "training") /\ trainer[t].at \in {"done", "refused", "killed"}

(* The worker takes the exit status of the command and then the evidence.    *)
EndJob(t) ==
    /\ job[t] = "running" /\ Ended(t)
    /\ job' = [job EXCEPT ![t] =
           IF TrainerAt(t, "done") /\ EvidenceIsThere(t) THEN "succeeded" ELSE "failed"]
    /\ UNCHANGED <<trainingVars, v1, view, split, report, attempt, writes>>

-----------------------------------------------------------------------------
(* What goes on beside *)

Others == writes < MaxWrites /\ writes' = writes + 1

WriteInput(f, content) ==
    /\ Others
    /\ disk[f].content # Missing
    /\ WriteDisk(f, content)
    /\ UNCHANGED <<trainer, root, v1, view, split, report, attempt, job>>

WriteV1(content) ==
    /\ Others
    /\ v1' = content
    /\ UNCHANGED <<trainingVars, view, split, report, attempt, job>>

(* After an attempt that ended without success, its files are removed; who   *)
(* does it has made sure that no command of the attempt goes on.             *)
CleanUp(t) ==
    /\ job[t] = "failed" /\ ~TrainerAt(t, "done")
    /\ view' = [i \in View |-> IF view[i].records = t THEN NoView ELSE view[i]]
    /\ split' = IF split.train = t THEN [train |-> Missing, manifest |-> Missing] ELSE split
    /\ disk' = IF split.train = t
               THEN [f \in Input |-> IF f \in {Train, Manifest}
                                     THEN [content |-> Missing, writes |-> 0] ELSE disk[f]]
               ELSE disk
    /\ report' = IF report.by = t THEN NoReport ELSE report
    /\ root' = IF root.by = t THEN NoRoot ELSE root
    /\ UNCHANGED <<trainer, v1, attempt, job, writes>>

AttemptStep(t) ==
    \/ Launch(t) \/ CheckPins(t) \/ WriteView(t) \/ DescribeView(t) \/ ReadCorpus(t)
    \/ WriteSplit(t) \/ WriteCatalogue(t) \/ WriteReport(t) \/ StartTraining(t) \/ TrainV2(t)
    \/ EndAttempt(t) \/ EndJob(t)

Next ==
    \/ \E t \in Proc : AttemptStep(t) \/ CleanUp(t)
    \/ \E f \in Input, content \in Content : WriteInput(f, content)
    \/ \E content \in Content : WriteV1(content)

Spec == Init /\ [][Next]_vars

-----------------------------------------------------------------------------
(* Properties                                                               *)

(* Every variable has its type.                                             *)
TypeOK ==
    /\ TrainingTypeOK
    /\ v1 \in Content
    /\ view \in [View -> [records : Proc \cup {Missing}, manifest : Proc \cup {Missing}]]
    /\ split \in [train : Proc \cup {Missing}, manifest : Proc \cup {Missing}]
    /\ report \in [by : Proc \cup {Missing}, train : Anything]
    /\ attempt \in [Proc -> AttemptState]
    /\ job \in [Proc -> {"none", "running", "succeeded", "failed"}]
    /\ writes \in Nat

(* The evidence of a training is of one attempt: who has a run manifest also *)
(* wrote every view, the split, its manifest and the report, although every  *)
(* attempt of the revision uses the same names; and the report gives the     *)
(* digest of the split that was trained on, unless others wrote the prepared *)
(* files at least twice.                                                     *)
EvidenceIsOneAttempts ==
    root.manifest # "none" =>
        LET t == root.by IN
        /\ \A i \in View : view[i] = [records |-> t, manifest |-> t]
        /\ split = [train |-> t, manifest |-> t]
        /\ report.by = t
        /\ report.train # trainer[t].frozen[Train] =>
               disk[Train].writes + disk[Manifest].writes >= 4

(* The job of an attempt that trained succeeds.                             *)
TrainedJobSucceeds == \A t \in Proc : job[t] = "failed" => ~TrainerAt(t, "done")

-----------------------------------------------------------------------------
(* What the properties rest on                                              *)

JobEnded(t) == job[t] \in {"succeeded", "failed"}

(* A job ends when its attempt has, and a trainer is of an attempt.         *)
AttemptInv ==
    \A t \in Proc :
        /\ job[t] = "none" => AttemptAt(t, "idle")
        /\ AttemptAt(t, "idle") => attempt[t].next = 1
        /\ ~AttemptAt(t, "training") => trainer[t] = NewTrainer
        /\ JobEnded(t) => Ended(t)
        /\ AttemptAt(t, "preparing") => attempt[t].corpus \in Content

(* What an attempt wrote is its own while its job has not failed, or while  *)
(* it has the output directory.                                             *)
Holding(t) == job[t] # "failed" \/ root.by = t

Wrote(t, i) == view[i] = [records |-> t, manifest |-> t]

PreparedWrites == disk[Train].writes + disk[Manifest].writes

(* The phases in which the views, the split, its manifest and the report    *)
(* are there.                                                               *)
WithReport == {"pinning", "training"}
WithCatalogue == {"reporting"} \cup WithReport
WithSplit == {"splitting"} \cup WithCatalogue
WithViews == {"preparing"} \cup WithSplit

Held(t) ==
    LET at == attempt[t].at IN
    /\ at \in {"checked", "deriving"} => \A i \in View : i < attempt[t].next => Wrote(t, i)
    /\ at = "deriving" => attempt[t].next \in View /\ view[attempt[t].next].records = t
    /\ at \in WithViews => \A i \in View : Wrote(t, i)
    /\ at \in WithSplit => split.train = t
    /\ at \in WithCatalogue => split.manifest = t
    /\ at \in WithReport => report.by = t

HoldInv == \A t \in Proc : Holding(t) => Held(t)

AsReported(f) == disk[f].content = report.train

(* Of two prepared files that were written three times one is as reported.  *)
Counted(t) ==
    LET at == attempt[t].at IN
    /\ at \in WithSplit => disk[Train].writes >= 1
    /\ at \in WithCatalogue => disk[Manifest].writes >= 1
    /\ at = "reporting" /\ PreparedWrites = 2 => disk[Train].content = disk[Manifest].content
    /\ at = "pinning" =>
           /\ PreparedWrites = 2 => AsReported(Train) /\ AsReported(Manifest)
           /\ PreparedWrites = 3 => AsReported(Train) \/ AsReported(Manifest)
    /\ at = "training" =>
           \/ trainer[t].pins[Train] = report.train
           \/ trainer[t].pins[Manifest] = report.train
           \/ PreparedWrites >= 4

CountInv == \A t \in Proc : Holding(t) => Counted(t)

(* The files that were prepared are there.                                  *)
SplitInv ==
    /\ split.train # Missing => disk[Train].content # Missing
    /\ split.manifest # Missing => disk[Manifest].content # Missing

IInv ==
    /\ TypeOK /\ RootInv /\ InputsInv /\ AttemptInv /\ HoldInv /\ CountInv /\ SplitInv
=============================================================================
