------------------------------- MODULE Training -------------------------------
(***************************************************************************)
(* train_sft: one run of the trainer from the verification of its pinned    *)
(* inputs to the adapter and the run manifest, while others write the       *)
(* inputs and other trainers want the same output directory.                *)
(***************************************************************************)
EXTENDS Naturals, Files, Adapter

CONSTANTS
    Inputs,         \* how many inputs are pinned, numbered as they are verified
    Train,          \* the training split
    Manifest,       \* the dataset manifest, which names the split
    Base,           \* the tree of the base model
    Source,         \* the detached checkout
    Frozen          \* the inputs that are copied into the private snapshot

Input == 1 .. Inputs

ASSUME InputAssumption ==
    /\ Inputs \in Nat
    /\ Train \in Input /\ Manifest \in Input /\ Base \in Input /\ Source \in Input
    /\ Frozen \subseteq Input
    /\ Train \in Frozen /\ Base \notin Frozen
    /\ Train # Manifest /\ Base # Source
    /\ {Train, Manifest} \cap {Base, Source} = {}

VARIABLES
    disk,           \* the inputs, and how often each was written
    trainer,        \* the runs of the trainer
    root            \* the output directory

trainingVars == <<disk, trainer, root>>

Anything == Content \cup {Missing}

Phase == {"idle", "checking", "freezing", "loading", "claiming", "staging", "training",
          "rechecking", "renaming", "cleaning", "opening", "writing", "inspecting",
          "removing", "done", "refused", "killed"}

(* The phases in which a run has an output directory of its own, and those   *)
(* in which _fresh_output_workspace removes it after a failure.              *)
Working == {"training", "rechecking", "renaming", "cleaning", "opening", "writing", "inspecting"}
Running == Phase \ {"idle", "done", "refused", "killed"}

TrainerState ==
    [at : Phase,
     next : Nat,                        \* the next input to verify or to copy
     pins : [Input -> Anything],
     seen : Nat,                        \* the writes to the base when it was first verified
     frozen : [Input -> Anything],      \* the private copies
     loaded : Anything]                 \* the base model in memory

NewTrainer ==
    [at |-> "idle", next |-> 1, pins |-> [f \in Input |-> Missing], seen |-> 0,
     frozen |-> [f \in Input |-> Missing], loaded |-> Missing]

NoRoot ==
    [by |-> Missing, work |-> FALSE, adapter |-> "none", tensors |-> {}, manifest |-> "none",
     fate |-> "kept"]

OutputRoot ==
    [by : Proc \cup {Missing}, work : BOOLEAN,
     adapter : {"none", "staged", "final", "partial"},
     tensors : SUBSET Tensor,           \* those of an adapter that is whole
     manifest : {"none", "torn", "whole"},
     fate : {"kept", "doomed"}]         \* doomed once its run has begun to remove it

TrainerAt(t, at) == trainer[t].at = at

TrainingInit ==
    /\ trainer = [t \in Proc |-> NewTrainer]
    /\ root = NoRoot

-----------------------------------------------------------------------------
(* Operations *)

Step(t, at) == trainer' = [trainer EXCEPT ![t] = [@ EXCEPT !.at = at, !.next = 1]]

(* A run does not begin over an output directory that is there.              *)
BeginTraining(t, pins) ==
    /\ TrainerAt(t, "idle")
    /\ trainer' = [trainer EXCEPT ![t] = [@ EXCEPT
           !.at = IF root = NoRoot THEN "checking" ELSE "refused",
           !.pins = pins]]
    /\ UNCHANGED <<disk, root>>

IsPinned(t, f) == disk[f].content # Missing /\ disk[f].content = trainer[t].pins[f]

(* The dataset manifest is the pinned one, and it names the pinned split.    *)
InputVerified(t, f) ==
    /\ IsPinned(t, f)
    /\ f = Manifest => disk[f].content = trainer[t].pins[Train]

(* The tree of the base model is what its pinned manifest lists.             *)
TreeVerified(t) == IsPinned(t, Base)

(* The checkout is clean, detached and at the pinned revision.               *)
SourceVerified(t) == IsPinned(t, Source)

Verified(t, f) ==
    \/ f \notin {Base, Source} /\ InputVerified(t, f)
    \/ f = Base /\ TreeVerified(t)
    \/ f = Source /\ SourceVerified(t)

Verify(t) ==
    LET f == trainer[t].next IN
    /\ TrainerAt(t, "checking")
    /\ f \in Input
    /\ Verified(t, f)
    /\ trainer' = [trainer EXCEPT ![t] = [@ EXCEPT
           !.next = f + 1,
           !.seen = IF f = Base THEN disk[f].writes ELSE trainer[t].seen]]
    /\ UNCHANGED <<disk, root>>

StartFreezing(t) ==
    /\ TrainerAt(t, "checking")
    /\ trainer[t].next = Inputs + 1
    /\ Step(t, "freezing")
    /\ UNCHANGED <<disk, root>>

(* The private copies with one more input, if it is one that is copied.     *)
Copies(t, f) ==
    IF f \in Frozen THEN [trainer[t].frozen EXCEPT ![f] = disk[f].content]
    ELSE trainer[t].frozen

(* Faulty: the copy is taken to be what was verified.                        *)
FreezeUnchecked(t) ==
    LET f == trainer[t].next IN
    /\ TrainerAt(t, "freezing")
    /\ f \in Input
    /\ trainer' = [trainer EXCEPT ![t] = [@ EXCEPT
           !.next = f + 1,
           !.frozen = Copies(t, f)]]
    /\ UNCHANGED <<disk, root>>

(* What is copied into the snapshot is hashed as it is copied.               *)
Freeze(t) ==
    LET f == trainer[t].next IN
    /\ TrainerAt(t, "freezing")
    /\ f \in Input
    /\ f \in Frozen => disk[f].content = trainer[t].pins[f]
    /\ trainer' = [trainer EXCEPT ![t] = [@ EXCEPT
           !.next = f + 1,
           !.frozen = Copies(t, f)]]
    /\ UNCHANGED <<disk, root>>

(* The private copy of the configuration is parsed, and it is the audited    *)
(* one: nothing is downloaded, resumed or reported.                          *)
StartLoading(t) ==
    /\ TrainerAt(t, "freezing")
    /\ trainer[t].next = Inputs + 1
    /\ Step(t, "loading")
    /\ UNCHANGED <<disk, root>>

(* The base model is loaded from where it is.                                *)
LoadBase(t) ==
    /\ TrainerAt(t, "loading")
    /\ disk[Base].content # Missing
    /\ trainer' = [trainer EXCEPT ![t] = [@ EXCEPT
           !.at = "claiming", !.loaded = disk[Base].content]]
    /\ UNCHANGED <<disk, root>>

ClaimOutput(t) ==
    /\ TrainerAt(t, "claiming")
    /\ IF root = NoRoot
       THEN root' = [NoRoot EXCEPT !.by = t] /\ Step(t, "staging")
       ELSE root' = root /\ Step(t, "refused")
    /\ UNCHANGED disk

MakeStaging(t) ==
    /\ TrainerAt(t, "staging")
    /\ root' = [root EXCEPT !.work = TRUE]
    /\ Step(t, "training")
    /\ UNCHANGED disk

(* The staging directory cannot be made: nothing removes the output yet.     *)
FailToStage(t) ==
    /\ TrainerAt(t, "staging")
    /\ Step(t, "refused")
    /\ UNCHANGED <<disk, root>>

(* The model is trained, the adapter is saved into the staging directory,    *)
(* reopened and verified.                                                    *)
TrainAndSave(t) ==
    /\ TrainerAt(t, "training")
    /\ root.adapter = "none"
    /\ \E saved \in Adapters :
           root' = [root EXCEPT !.adapter = "staged", !.tensors = saved]
    /\ Step(t, "rechecking")
    /\ UNCHANGED disk

(* Faulty: the base model is not verified a second time.                     *)
ReverifyInputs(t) ==
    LET f == trainer[t].next IN
    /\ TrainerAt(t, "rechecking")
    /\ f \in Input
    /\ f # Base => Verified(t, f)
    /\ trainer' = [trainer EXCEPT ![t].next = f + 1]
    /\ UNCHANGED <<disk, root>>

Reverify(t) ==
    LET f == trainer[t].next IN
    /\ TrainerAt(t, "rechecking")
    /\ f \in Input
    /\ Verified(t, f)
    /\ trainer' = [trainer EXCEPT ![t].next = f + 1]
    /\ UNCHANGED <<disk, root>>

StartPublishing(t) ==
    /\ TrainerAt(t, "rechecking")
    /\ trainer[t].next = Inputs + 1
    /\ Step(t, "renaming")
    /\ UNCHANGED <<disk, root>>

MoveAdapter(t) ==
    /\ TrainerAt(t, "renaming")
    /\ root.adapter = "staged"
    /\ root' = [root EXCEPT !.adapter = "final"]
    /\ Step(t, "cleaning")
    /\ UNCHANGED disk

RemoveStaging(t) ==
    /\ TrainerAt(t, "cleaning")
    /\ root' = [root EXCEPT !.work = FALSE]
    /\ Step(t, "opening")
    /\ UNCHANGED disk

(* write_json_exclusive creates the file, then fills it.                     *)
OpenManifest(t) ==
    /\ TrainerAt(t, "opening")
    /\ root.manifest = "none"
    /\ root' = [root EXCEPT !.manifest = "torn"]
    /\ Step(t, "writing")
    /\ UNCHANGED disk

WriteManifest(t) ==
    /\ TrainerAt(t, "writing")
    /\ root' = [root EXCEPT !.manifest = "whole"]
    /\ Step(t, "inspecting")
    /\ UNCHANGED disk

(* The checkout is still the pinned one, the output holds the adapter and    *)
(* the manifest and nothing else, and it is the directory that was claimed.  *)
Finish(t) ==
    /\ TrainerAt(t, "inspecting")
    /\ SourceVerified(t)
    /\ root.by = t /\ ~root.work
    /\ Step(t, "done")
    /\ UNCHANGED <<disk, root>>

(* Any check fails, or an error escapes: a run that has made its output      *)
(* directory begins to remove it.                                            *)
FailTraining(t) ==
    /\ trainer[t].at \in Running \ {"staging", "removing"}
    /\ IF trainer[t].at \in Working /\ root.by = t
       THEN root' = [root EXCEPT !.fate = "doomed"] /\ Step(t, "removing")
       ELSE root' = root /\ Step(t, "refused")
    /\ UNCHANGED disk

(* shutil.rmtree removes one entry after the other, in any order.            *)
RemoveEntry(t) ==
    /\ TrainerAt(t, "removing")
    /\ \/ root.adapter # "none"
          /\ root' = [root EXCEPT !.adapter = IF @ = "partial" THEN "none" ELSE "partial",
                                  !.tensors = {}]
       \/ root.work /\ root.adapter # "staged" /\ root' = [root EXCEPT !.work = FALSE]
       \/ root.manifest # "none" /\ root' = [root EXCEPT !.manifest = "none"]
    /\ UNCHANGED <<disk, trainer>>

(* What cannot be removed stays: errors are ignored.                         *)
RemovalEnds(t) ==
    /\ TrainerAt(t, "removing")
    /\ \/ root' = root
       \/ root' = NoRoot /\ root.adapter = "none" /\ ~root.work /\ root.manifest = "none"
    /\ Step(t, "refused")
    /\ UNCHANGED disk

KillTrainer(t) ==
    /\ trainer[t].at \in Running
    /\ Step(t, "killed")
    /\ UNCHANGED <<disk, root>>

TrainStep(t) ==
    \/ Verify(t) \/ StartFreezing(t) \/ Freeze(t) \/ StartLoading(t) \/ LoadBase(t)
    \/ ClaimOutput(t) \/ MakeStaging(t) \/ FailToStage(t) \/ TrainAndSave(t)
    \/ Reverify(t) \/ StartPublishing(t)
    \/ MoveAdapter(t) \/ RemoveStaging(t) \/ OpenManifest(t) \/ WriteManifest(t)
    \/ Finish(t) \/ FailTraining(t) \/ RemoveEntry(t) \/ RemovalEnds(t) \/ KillTrainer(t)

WriteDisk(f, content) ==
    disk' = [disk EXCEPT ![f] = [content |-> content, writes |-> @.writes + 1]]

-----------------------------------------------------------------------------
(* Properties                                                               *)

TrainingTypeOK ==
    /\ disk \in [Input -> [content : Anything, writes : Nat]]
    /\ trainer \in [Proc -> TrainerState]
    /\ root \in OutputRoot

(* A run manifest that a reader can parse is of a run that trained on the    *)
(* pinned split and configuration and whose inputs were all verified a       *)
(* second time; a base model that is not the pinned one was swapped and put  *)
(* back between the two verifications. The final adapter stands beside it,   *)
(* but for what a run that did not succeed has begun to remove.              *)
ManifestIsEarned ==
    root.manifest = "whole" =>
        LET t == root.by IN
        /\ t \in Proc
        /\ \A f \in Frozen : trainer[t].frozen[f] = trainer[t].pins[f]
        /\ trainer[t].loaded # trainer[t].pins[Base] =>
               disk[Base].writes >= trainer[t].seen + 2
        /\ root.adapter # "final" => root.fate = "doomed" /\ ~TrainerAt(t, "done")

(* A final adapter beside a run manifest adapts exactly as many modules as   *)
(* the model was prepared for, each of them audited and by both of its       *)
(* tensors, although only tensors are counted when the file is read back.    *)
AdapterIsAudited ==
    root.manifest # "none" /\ root.adapter = "final" =>
        /\ Cardinality(ModulesOf(root.tensors)) = Expected
        /\ \A m \in ModulesOf(root.tensors) :
               m \in Audited /\ Cardinality(OfModule(m, root.tensors)) = 2

(* "Remove all partial output after any failure": does not hold, because the *)
(* staging directory may not be made, errors of the removal are ignored and  *)
(* a kill removes nothing.                                                   *)
FailureLeavesNothing == \A t \in Proc : trainer[t].at \in {"refused", "killed"} => root.by # t

-----------------------------------------------------------------------------
(* What the properties rest on                                              *)

Terminal == {"done", "refused", "killed"}

(* A run has the output directory from when it claims it until it ends.     *)
Claimed == Working \cup {"staging", "removing"}

Published == {"cleaning", "opening", "writing", "inspecting"}

(* The directory is of the run that claimed it, and what is in it is as far *)
(* as that run is.                                                          *)
RootInv ==
    /\ root.by = Missing => root = NoRoot
    /\ \A t \in Proc : trainer[t].at \in Claimed => root.by = t
    /\ root.by # Missing => trainer[root.by].at \in Claimed \cup Terminal
    /\ \A t \in Proc :
           /\ trainer[t].at \in Published => root.adapter = "final"
           /\ trainer[t].at \in Claimed \ {"writing", "inspecting", "removing"}
                  => root.manifest = "none"
           /\ TrainerAt(t, "removing") => root.fate = "doomed"
           /\ root.by = t /\ root.fate = "doomed" =>
                  trainer[t].at \in {"removing", "refused", "killed"}
    /\ root.adapter \in {"staged", "final"} => root.tensors \in Adapters
    /\ root.manifest # "none" /\ root.fate = "kept" => root.adapter = "final"

(* The base model was written since it was first verified if it is another, *)
(* and if it was written once it still is another.                          *)
BaseSeen(t) ==
    /\ disk[Base].writes >= trainer[t].seen
    /\ disk[Base].writes = trainer[t].seen => disk[Base].content = trainer[t].pins[Base]

BaseLoaded(t) ==
    trainer[t].loaded # trainer[t].pins[Base] =>
        /\ disk[Base].writes >= trainer[t].seen + 1
        /\ disk[Base].writes = trainer[t].seen + 1 => disk[Base].content # trainer[t].pins[Base]

BaseSwapped(t) ==
    trainer[t].loaded # trainer[t].pins[Base] => disk[Base].writes >= trainer[t].seen + 2

FrozenArePinned(t) == \A f \in Frozen : trainer[t].frozen[f] = trainer[t].pins[f]

ManifestNamesSplit(t) == trainer[t].pins[Manifest] = trainer[t].pins[Train]

(* The trainer is past the first, or the second, verification of an input.  *)
Past(t, f, at, later) ==
    (TrainerAt(t, at) /\ trainer[t].next > f) \/ trainer[t].at \in later

(* A run manifest remains when its run has ended.                           *)
Described(t) == root.by = t /\ root.manifest # "none"

InputsOf(t) ==
    /\ Past(t, Base, "checking", {"freezing", "loading"}) => BaseSeen(t)
    /\ Past(t, Manifest, "checking", {"freezing", "loading", "claiming"} \cup Claimed)
           => ManifestNamesSplit(t)
    /\ TrainerAt(t, "freezing") =>
           \A f \in Frozen : f < trainer[t].next => trainer[t].frozen[f] = trainer[t].pins[f]
    /\ trainer[t].at \in {"loading", "claiming"} \cup Claimed => FrozenArePinned(t)
    /\ trainer[t].at \in {"claiming"} \cup Claimed => BaseLoaded(t)
    /\ Past(t, Base, "rechecking", {"renaming"} \cup Published) => BaseSwapped(t)
    /\ Described(t) => FrozenArePinned(t) /\ ManifestNamesSplit(t) /\ BaseSwapped(t)

InputsInv == \A t \in Proc : InputsOf(t)
=============================================================================
