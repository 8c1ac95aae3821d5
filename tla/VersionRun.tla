------------------------------ MODULE VersionRun ------------------------------
(***************************************************************************)
(* scripts/remote/run-9b-version.py, with the evaluation and the promotion  *)
(* it calls: one process takes the inventory of a finished checkpoint, has  *)
(* it evaluated, collects the evidence, passes the gate, copies the adapter *)
(* into a candidate directory, promotes it and writes ready.json.  With     *)
(* --stage-before-evaluation it promotes without evaluation, to another     *)
(* release id.                                                              *)
(* Beside the runs there are operators, who run the same inference request  *)
(* or promote a candidate themselves, and writers of the checkpoint and of  *)
(* the candidates, which nothing protects.  A run that fails or is killed   *)
(* leaves its workspace, and the inference is a process of its own.         *)
(***************************************************************************)
EXTENDS Promotion, Inference

CONSTANTS
    Runner,         \* processes of run-9b-version.py, each run once
    Operator,       \* other processes
    Measured,       \* the release that is evaluated, the other is not
    Card,           \* the model card: a file of the release, not of the checkpoint
    CardText,
    RunManifest,    \* run-manifest.json of the checkpoint
    MaxEvents       \* bound: what comes from outside, runs, calls of operators, writes

ASSUME RunAssumption ==
    /\ Proc = Runner \cup Operator /\ Runner \cap Operator = {}
    /\ Measured \in Target /\ Missing \notin Target
    /\ RunManifest \in Input
    /\ Card \notin Weights
    /\ Artifact = Weights \cup {Card}
    /\ CardText \in Content

ASSUME EvidenceAssumption == Missing \notin [run : Content, by : Proc]

ASSUME BoundAssumption == MaxEvents \in Nat

VARIABLES
    run,            \* the runs
    inventory,      \* checkpoint-manifest.json of each release, file by file
    copied,         \* history: the writes to each weight file when it was copied
    evidence,       \* the evidence bundle: whose predictions, which run manifest
    passed,         \* there is a gate report
    approvals,      \* the files the approvals of each release speak of
    ready,          \* the files ready.json of each release lists
    touched,        \* history: the candidates that others have changed
    events          \* bound: what has come from outside

runVars == <<run, inventory, copied, evidence, passed, approvals, ready,
             touched, events>>
vars == <<promotionVars, inferenceVars, runVars>>

-----------------------------------------------------------------------------
RunState ==
    [at : {"idle", "surveying", "requested", "inferring", "collected", "gated", "copying",
           "promoting", "approved", "ready", "refused", "killed"},
     release : Target \cup {Missing}]

RunAt(p, at) == run[p].at = at
ReleaseOf(p) == run[p].release
Move(p, at) == run' = [run EXCEPT ![p].at = at]
Active(p) == run[p].at \notin {"idle", "ready", "refused", "killed"}

(* The workspace of a release is made by the one run that claims it.        *)
Claimed(r) == \E p \in Runner : ReleaseOf(p) = r

Init ==
    /\ PromotionInit
    /\ InferenceInit
    /\ run = [p \in Runner |-> [at |-> "idle", release |-> Missing]]
    /\ inventory = [r \in Target |-> [f \in {} |-> Missing]]
    /\ copied = [r \in Target |-> [f \in Weights |-> 0]]
    /\ evidence = Missing
    /\ passed = FALSE
    /\ approvals = [r \in Target |-> Missing]
    /\ ready = [r \in Target |-> Missing]
    /\ touched = {}
    /\ events = 0

Event == events < MaxEvents /\ events' = events + 1

-----------------------------------------------------------------------------
(* main                                                                     *)

Claim(p, r) ==
    /\ Event
    /\ RunAt(p, "idle")
    /\ run' = [run EXCEPT ![p] = [at |-> IF Claimed(r) THEN "refused" ELSE "surveying",
                                  release |-> IF Claimed(r) THEN Missing ELSE r]]
    /\ UNCHANGED <<promotionVars, inferenceVars, inventory, copied, evidence, passed,
                   approvals, ready, touched>>

(* _checkpoint_manifest                                                     *)
Survey(p, f) ==
    LET r == ReleaseOf(p) IN
    /\ RunAt(p, "surveying")
    /\ f \notin DOMAIN inventory[r]
    /\ inventory' = [inventory EXCEPT ![r] =
                       [g \in DOMAIN @ \cup {f} |-> IF g = f THEN disk[f].content ELSE @[g]]]
    /\ UNCHANGED <<promotionVars, inferenceVars, run, copied, evidence, passed,
                   approvals, ready, touched, events>>

Surveyed(p) == RunAt(p, "surveying") /\ DOMAIN inventory[ReleaseOf(p)] = Input

(* _inference_request: the pinned files are hashed now, the tree was before. *)
WriteRequest(p) ==
    /\ Surveyed(p)
    /\ ReleaseOf(p) = Measured
    /\ PutRequest([pin |-> [f \in Input |-> disk[f].content], tree |-> inventory[Measured]])
    /\ Move(p, "requested")
    /\ UNCHANGED <<promotionVars, disk, session, output, inventory, copied, evidence,
                   passed, approvals, ready, touched, events>>

StartInference(p) ==
    /\ RunAt(p, "requested")
    /\ BeginInference(p) \/ RefuseInference(p)
    /\ Move(p, "inferring")
    /\ UNCHANGED <<promotionVars, inventory, copied, evidence, passed, approvals, ready,
                   touched, events>>

(* The timeout of the subprocess.                                           *)
StopInference(p) ==
    /\ RunAt(p, "inferring")
    /\ KillInference(p)
    /\ Move(p, "refused")
    /\ UNCHANGED <<promotionVars, inventory, copied, evidence, passed, approvals, ready,
                   touched, events>>

(* Faulty: the exit code of the inference is not looked at.                 *)
CollectWhatIsThere(p) ==
    /\ RunAt(p, "inferring")
    /\ session[p].at \in {"done", "failed", "killed"}
    /\ output.files["predictions"] # Missing
    /\ evidence' = [run |-> disk[RunManifest].content, by |-> output.files["predictions"]]
    /\ Move(p, "collected")
    /\ UNCHANGED <<promotionVars, inferenceVars, inventory, copied, passed, approvals, ready,
                   touched, events>>

(* _build_evidence, up to the rename of the bundle: the predictions are     *)
(* taken from the output, the run manifest once more from the checkpoint.   *)
Collect(p) ==
    /\ RunAt(p, "inferring")
    /\ InSession(p, "done")
    /\ output.files["predictions"] # Missing
    /\ evidence' = [run |-> disk[RunManifest].content, by |-> output.files["predictions"]]
    /\ Move(p, "collected")
    /\ UNCHANGED <<promotionVars, inferenceVars, inventory, copied, passed, approvals, ready,
                   touched, events>>

(* load_and_evaluate, write_gate_report and decide_quality; the score does  *)
(* not matter.                                                              *)
PassGate(p) ==
    /\ RunAt(p, "collected")
    /\ passed' = TRUE
    /\ Move(p, "gated")
    /\ UNCHANGED <<promotionVars, inferenceVars, inventory, copied, evidence, approvals,
                   ready, touched, events>>

-----------------------------------------------------------------------------
(* _stage_release                                                           *)

Stageable(p) == RunAt(p, "gated") \/ (Surveyed(p) /\ ReleaseOf(p) # Measured)

OpenCandidate(p) ==
    LET r == ReleaseOf(p) IN
    /\ Stageable(p)
    /\ candidate[r] = NoFiles
    /\ candidate' = [candidate EXCEPT ![r] = [f \in {Card} |-> CardText]]
    /\ Move(p, "copying")
    /\ UNCHANGED <<promoter, staging, release, manifest, inferenceVars, inventory, copied,
                   evidence, passed, approvals, ready, touched, events>>

CopyAdapter(p, f) ==
    LET r == ReleaseOf(p) IN
    /\ RunAt(p, "copying")
    /\ f \notin DOMAIN candidate[r]
    /\ candidate' = [candidate EXCEPT ![r] =
                       [g \in DOMAIN @ \cup {f} |-> IF g = f THEN disk[f].content ELSE @[g]]]
    /\ copied' = [copied EXCEPT ![r][f] = disk[f].writes]
    /\ UNCHANGED <<promoter, staging, release, manifest, inferenceVars, run, inventory,
                   evidence, passed, approvals, ready, touched, events>>

RequestOf(r) == [root |-> r, target |-> r, files |-> candidate[r]]

(* Faulty: the adapter may still be copied.                                 *)
StartPromotionEarly(p) ==
    LET r == ReleaseOf(p) IN
    /\ RunAt(p, "copying")
    /\ BeginPromotion(p, RequestOf(r)) \/ RefusePromotion(p, RequestOf(r))
    /\ Move(p, "promoting")
    /\ UNCHANGED <<inferenceVars, inventory, copied, evidence, passed, approvals, ready,
                   touched, events>>

(* The request lists what is in the candidate directory now.  A file that   *)
(* is changed before the next one is listed is taken for one that is        *)
(* changed before it is copied.                                             *)
StartPromotion(p) ==
    LET r == ReleaseOf(p) IN
    /\ RunAt(p, "copying")
    /\ DOMAIN candidate[r] = Artifact
    /\ BeginPromotion(p, RequestOf(r)) \/ RefusePromotion(p, RequestOf(r))
    /\ Move(p, "promoting")
    /\ UNCHANGED <<inferenceVars, inventory, copied, evidence, passed, approvals, ready,
                   touched, events>>

Approve(p) ==
    /\ RunAt(p, "promoting")
    /\ promoter[p].at = "done"
    /\ approvals' = [approvals EXCEPT ![ReleaseOf(p)] = JobOf(p).files]
    /\ Move(p, "approved")
    /\ UNCHANGED <<promotionVars, inferenceVars, inventory, copied, evidence, passed, ready,
                   touched, events>>

(* Faulty: the files are listed once more from the candidate directory.     *)
WriteReadyFromCandidate(p) ==
    /\ RunAt(p, "approved")
    /\ candidate[ReleaseOf(p)] \in Tree
    /\ ready' = [ready EXCEPT ![ReleaseOf(p)] = candidate[ReleaseOf(p)]]
    /\ Move(p, "ready")
    /\ UNCHANGED <<promotionVars, inferenceVars, inventory, copied, evidence, passed,
                   approvals, touched, events>>

WriteReady(p) ==
    /\ RunAt(p, "approved")
    /\ ready' = [ready EXCEPT ![ReleaseOf(p)] = JobOf(p).files]
    /\ Move(p, "ready")
    /\ UNCHANGED <<promotionVars, inferenceVars, inventory, copied, evidence, passed,
                   approvals, touched, events>>

-----------------------------------------------------------------------------
(* Failures                                                                 *)

(* A check or a write of the run fails, the gate does not pass, or what it  *)
(* called has failed.                                                       *)
Refuse(p) ==
    /\ Active(p)
    /\ RunAt(p, "inferring") => session[p].at \in {"done", "failed", "killed"}
    /\ RunAt(p, "promoting") => promoter[p].at \in {"done", "refused"}
    /\ Move(p, "refused")
    /\ UNCHANGED <<promotionVars, inferenceVars, inventory, copied, evidence, passed,
                   approvals, ready, touched, events>>

(* The inference goes on without its parent.                                *)
Kill(p) ==
    /\ Active(p)
    /\ IF Promoting(p) THEN KillPromoter(p) ELSE UNCHANGED promotionVars
    /\ Move(p, "killed")
    /\ UNCHANGED <<inferenceVars, inventory, copied, evidence, passed, approvals, ready,
                   touched, events>>

-----------------------------------------------------------------------------
(* What goes on beside the runs                                             *)

Promote(p) == PromoteStep(p) /\ UNCHANGED <<inferenceVars, runVars>>
Infer(p) == (InferStep(p) \/ KillInference(p)) /\ UNCHANGED <<promotionVars, runVars>>

OperatorPromotes(p) ==
    /\ \E root, target \in Target :
         /\ candidate[root] \in Tree
         /\ LET req == [root |-> root, target |-> target, files |-> candidate[root]] IN
            BeginPromotion(p, req) \/ RefusePromotion(p, req)
    /\ Event
    /\ UNCHANGED <<inferenceVars, run, inventory, copied, evidence, passed, approvals, ready,
                   touched>>

OperatorInfers(p) ==
    /\ BeginInference(p) \/ RefuseInference(p)
    /\ Event
    /\ UNCHANGED <<promotionVars, run, inventory, copied, evidence, passed, approvals, ready,
                   touched>>

OperatorEnds(p) ==
    \/ (KillPromoter(p) \/ LeavePromotion(p)) /\ UNCHANGED <<inferenceVars, runVars>>
    \/ LeaveInference(p) /\ UNCHANGED <<promotionVars, runVars>>

WriteCheckpoint(f, content) ==
    /\ Event
    /\ WriteInput(f, content)
    /\ UNCHANGED <<promotionVars, run, inventory, copied, evidence, passed, approvals, ready,
                   touched>>

(* A file of a candidate is written or removed.                             *)
ChangeCandidate(r, f) ==
    /\ Event
    /\ touched' = touched \cup {r}
    /\ f \in DOMAIN candidate[r]
    /\ \/ candidate' = [candidate EXCEPT ![r] = [g \in DOMAIN @ \ {f} |-> @[g]]]
       \/ \E content \in Content : candidate' = [candidate EXCEPT ![r][f] = content]
    /\ UNCHANGED <<promoter, staging, release, manifest, inferenceVars, run, inventory,
                   copied, evidence, passed, approvals, ready>>

RunStep(p) ==
    \/ \E r \in Target : Claim(p, r)
    \/ \E f \in Input : Survey(p, f)
    \/ WriteRequest(p) \/ StartInference(p) \/ StopInference(p) \/ Collect(p) \/ PassGate(p)
    \/ OpenCandidate(p) \/ (\E f \in Weights : CopyAdapter(p, f)) \/ StartPromotion(p)
    \/ Approve(p) \/ WriteReady(p) \/ Refuse(p) \/ Kill(p)

Next ==
    \/ \E p \in Runner : RunStep(p)
    \/ \E p \in Proc : Promote(p) \/ Infer(p)
    \/ \E p \in Operator : OperatorPromotes(p) \/ OperatorInfers(p) \/ OperatorEnds(p)
    \/ \E f \in Input, content \in Content : WriteCheckpoint(f, content)
    \/ \E r \in Target, f \in Artifact : ChangeCandidate(r, f)

Spec == Init /\ [][Next]_vars

-----------------------------------------------------------------------------
(* Properties                                                               *)

(* Every variable has its type.                                             *)
RunTypeOK ==
    /\ run \in [Runner -> RunState]
    /\ inventory \in [Target -> UNION {[S -> Content] : S \in SUBSET Input}]
    /\ copied \in [Target -> [Weights -> Nat]]
    /\ evidence \in [run : Content, by : Proc] \cup {Missing}
    /\ passed \in BOOLEAN
    /\ approvals \in [Target -> Tree \cup {Missing}]
    /\ ready \in [Target -> Tree \cup {Missing}]
    /\ touched \subseteq Target
    /\ events \in Nat

TypeOK == PromotionTypeOK /\ InferenceTypeOK /\ RunTypeOK

(* Whoever finds ready.json finds the release with exactly the files it     *)
(* lists, the promotion manifest and the approvals for those files, and     *)
(* where the release is measured the report.                                *)
ReadyIsPromoted ==
    \A r \in Target : ready[r] # Missing =>
        /\ release[r] = ready[r]
        /\ [target |-> r, files |-> ready[r]] \in manifest
        /\ approvals[r] = ready[r]
        /\ r = Measured => passed

(* What stands between a measured release and the predictions it is judged  *)
(* by: they are of an inference of its own that succeeded, and a weight     *)
(* file that is not the one that was verified after the predictions was     *)
(* written since, or its candidate was changed.                             *)
ReadyIsEvaluated ==
    ready[Measured] # Missing =>
        /\ evidence # Missing
        /\ evidence.by \in Runner
        /\ RunAt(evidence.by, "ready") /\ InSession(evidence.by, "done")
        /\ \A k \in DOMAIN Checks :
             LET f == Checks[k].file IN
             Checks[k].kind = "tree" /\ f \in Weights /\ ready[Measured][f] # request.tree[f]
                 => copied[Measured][f] > session[evidence.by].last[k] \/ Measured \in touched

-----------------------------------------------------------------------------
(* The inductive invariant: what a run that has got so far has behind it.   *)

Progress(p) ==
    LET r == ReleaseOf(p) IN
    /\ run[p].at \notin {"idle", "refused"} => r \in Target
    /\ run[p].at \in {"gated", "copying", "promoting", "approved", "ready"} =>
         r # Measured \/ passed
    /\ run[p].at \in {"promoting", "approved", "ready"} =>
         promoter[p].at # "idle" /\ JobOf(p).target = r
    /\ run[p].at \in {"approved", "ready"} =>
         promoter[p].at = "done" /\ approvals[r] = JobOf(p).files
    /\ RunAt(p, "ready") => ready[r] = JobOf(p).files

(* A release belongs to one run, and only that one writes its ready.json.   *)
RunInv ==
    /\ \A p \in Runner : Progress(p)
    /\ \A p, q \in Runner : ReleaseOf(p) = ReleaseOf(q) /\ ReleaseOf(p) # Missing => p = q
    /\ \A r \in Target : ready[r] # Missing =>
         \E p \in Runner : RunAt(p, "ready") /\ ReleaseOf(p) = r

(* What is not as it was verified was copied after that.                    *)
Traced(p, files) ==
    \A k \in DOMAIN Checks :
        LET f == Checks[k].file IN
        Checks[k].kind = "tree" /\ f \in Weights \cap DOMAIN files
        /\ files[f] # request.tree[f] => copied[Measured][f] > session[p].last[k]

(* The run of the measured release has its own predictions, and its weights *)
(* can be followed from the inference to the request for the promotion.     *)
Evaluated(p) ==
    /\ run[p].at \in {"requested", "inferring", "collected", "gated"} => ReleaseOf(p) = Measured
    /\ ReleaseOf(p) = Measured =>
         /\ run[p].at \in {"collected", "gated", "copying", "promoting", "approved", "ready"} =>
              evidence # Missing /\ evidence.by = p /\ InSession(p, "done")
         /\ RunAt(p, "copying") => Measured \in touched \/ Traced(p, candidate[Measured])
         /\ run[p].at \in {"promoting", "approved", "ready"} =>
              Measured \in touched \/ Traced(p, JobOf(p).files)

EvidenceInv == \A p \in Runner : Evaluated(p)

VersionInv == PromotionInv /\ InferenceInv /\ RunTypeOK /\ RunInv
=============================================================================
