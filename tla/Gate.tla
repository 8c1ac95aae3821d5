--------------------------------- MODULE Gate ---------------------------------
(***************************************************************************)
(* load_and_evaluate: the gate reads an evidence manifest and, one after    *)
(* another, the files it pins, while others write them; it judges what it   *)
(* has read: no benchmark text in the training records, five reviews of     *)
(* this checkpoint, and the metrics recomputed from the raw predictions.    *)
(* The publisher reads the manifest itself before it calls the gate.        *)
(***************************************************************************)
EXTENDS Sequences, Metrics

CONSTANTS
    Benchmark,      \* the cases, in order
    Contains,       \* the texts that a text contains, once normalized
    Canonical,      \* the label that an output of a task stands for, or Invalid
    Invalid,
    Bundles,        \* what the pinned files may hold
    Spare,          \* what others may put in the place of each file
    MaxWrites       \* bound: writes by others

Case == 1 .. Len(Benchmark)
Task == {Benchmark[i].task : i \in Case}

(* The files in the order in which they are read.                            *)
Order == <<"reviews", "checkpoint", "run", "snapshot", "adapter", "cases",
           "predictions", "prepared", "records">>
File == {Order[i] : i \in 1 .. Len(Order)}

Review == {"artifact_integrity", "provenance", "license", "privacy", "safety"}

(* The configured benchmark: no identifier twice, every answer well formed,  *)
(* at least two classes in each task.                                        *)
ASSUME BenchmarkAssumption ==
    /\ Benchmark \in Seq(Range(Benchmark))
    /\ \A i, j \in Case : Benchmark[i].id = Benchmark[j].id => i = j
    /\ \A i \in Case : Canonical[Benchmark[i].task][Benchmark[i].answer] # Invalid
    /\ \A task \in Task :
           \E i, j \in Case :
               /\ Benchmark[i].task = task /\ Benchmark[j].task = task
               /\ Canonical[task][Benchmark[i].answer] # Canonical[task][Benchmark[j].answer]

(* What a file may ever hold.                                                *)
Possible(f) == {b[f] : b \in Bundles} \cup Spare[f]

ASSUME BundleAssumption ==
    /\ \A b \in Bundles : File \subseteq DOMAIN b
    /\ File \subseteq DOMAIN Spare
    /\ \A records \in Possible("records") : IsFiniteSet(records)
    /\ MaxWrites \in Nat

VARIABLES
    disk,           \* the files of the bundle
    evidence,       \* the evidence manifest: what it pins
    gate,           \* the evaluation
    result,         \* its results
    report,         \* the report file
    accepted,       \* the evidence the publisher took for its release
    writes          \* the writes by others

gateVars == <<disk, evidence, gate, result, report, accepted, writes>>

(* The manifest of a bundle pins its files and names its checkpoint and how  *)
(* many training records it has.                                             *)
ManifestOf(b) ==
    [pins |-> [f \in File |-> b[f]], checkpoint |-> b["checkpoint"],
     scanned |-> Cardinality(b["records"])]

NoBundle == [f \in File |-> {}]

GateInit ==
    \E b \in Bundles :
        /\ disk = [f \in File |-> b[f]]
        /\ evidence = ManifestOf(b)
        /\ gate = [at |-> "idle", caller |-> "none", named |-> ManifestOf(b),
                   read |-> ManifestOf(b), next |-> 1, content |-> NoBundle]
        /\ result = {}
        /\ report = {}
        /\ accepted = {}
        /\ writes = 0

GateAt(at) == gate.at = at

-----------------------------------------------------------------------------
(* Judgement *)

(* A training record overlaps with the benchmark if it is a holdout or of    *)
(* the benchmark, if a message is the prompt of a case, or if one contains   *)
(* the input of a case.                                                      *)
Overlaps(r) ==
    \/ r.holdout \/ r.source = "ctibench"
    \/ \E t \in r.texts, c \in Range(Benchmark) : t = c.prompt \/ c.input \in Contains[t]

OverlapCount(records) == Cardinality({r \in records : Overlaps(r)})

(* Each case has its prediction, in the order of the cases.                  *)
Aligned(predictions) ==
    /\ Len(predictions) = Len(Benchmark)
    /\ \A i \in Case : predictions[i].id = Benchmark[i].id

TaskTruth == [i \in Case |-> Canonical[Benchmark[i].task][Benchmark[i].answer]]
TaskPredicted(predictions) ==
    [i \in Case |-> Canonical[Benchmark[i].task][predictions[i].output]]

Of(task) == {i \in Case : Benchmark[i].task = task}

(* Faulty: over all tasks, labels are told apart by their text alone.        *)
SharedLabels(labels) == labels

(* Over all tasks, a label is that of its task.                              *)
TaskLabels(labels) == [i \in Case |-> <<Benchmark[i].task, labels[i]>>]

OverallReport(predictions) ==
    ScopeReport(Case, TaskLabels(TaskTruth), TaskLabels(TaskPredicted(predictions)))

TaskReport(task, predictions) == ScopeReport(Of(task), TaskTruth, TaskPredicted(predictions))

(* Faulty: the target is that of the whole benchmark.                        *)
OverallTargetMet(predictions) == MeetsAll(OverallReport(predictions))

TargetMet(predictions) ==
    /\ MeetsAll(OverallReport(predictions))
    /\ \A task \in Task : MeetsAll(TaskReport(task, predictions))

-----------------------------------------------------------------------------
(* What is checked of each file *)

(* What the gate demands of a manifest before it opens a file: the benchmark *)
(* is the configured one.                                                    *)
Configured(e) == e.pins["cases"] = Benchmark

ReviewsHold(reviews, e) ==
    \A name \in Review : reviews[name] = [passed |-> TRUE, checkpoint |-> e.checkpoint]

PreparedHolds(prepared, e) ==
    /\ prepared.records = e.pins["records"]
    /\ \A source \in prepared.sources : source.id # "ctibench" /\ source.class = "allow_train"
    /\ prepared.sources # {}

RecordsHold(records, e) ==
    /\ Cardinality(records) = e.scanned /\ records # {}
    /\ \A r \in records : r.sound
    /\ \A r, s \in records : r.id = s.id => r = s

Holds(f, content, e) ==
    CASE f = "reviews" -> ReviewsHold(content, e)
      [] f = "predictions" -> Aligned(content)
      [] f = "prepared" -> PreparedHolds(content, e)
      [] f = "records" -> RecordsHold(content, e)
      [] f = "cases" -> TRUE
      [] OTHER -> content # {}

-----------------------------------------------------------------------------
(* Operations *)

(* The publisher reads the manifest and compares it with the one its release *)
(* names.                                                                    *)
PublisherReads ==
    /\ GateAt("idle")
    /\ gate' = [gate EXCEPT !.caller = "publisher",
                            !.at = IF evidence = gate.named THEN "called" ELSE "refused"]
    /\ UNCHANGED <<disk, evidence, result, report, accepted, writes>>

CommandCalls ==
    /\ GateAt("idle")
    /\ gate' = [gate EXCEPT !.caller = "command", !.at = "called"]
    /\ UNCHANGED <<disk, evidence, result, report, accepted, writes>>

ReadEvidence ==
    /\ GateAt("called")
    /\ gate' = [gate EXCEPT !.read = evidence,
                            !.at = IF Configured(evidence) THEN "reading" ELSE "refused"]
    /\ UNCHANGED <<disk, evidence, result, report, accepted, writes>>

NextFile == Order[gate.next]

(* Faulty: a file that is well formed need not be the pinned one.            *)
ReadUnpinned ==
    /\ GateAt("reading") /\ gate.next \in DOMAIN Order
    /\ Holds(NextFile, disk[NextFile], gate.read)
    /\ gate' = [gate EXCEPT !.content[NextFile] = disk[NextFile], !.next = @ + 1]
    /\ UNCHANGED <<disk, evidence, result, report, accepted, writes>>

(* The bytes that are hashed are the bytes that are judged.                  *)
ReadFile ==
    /\ GateAt("reading") /\ gate.next \in DOMAIN Order
    /\ disk[NextFile] = gate.read.pins[NextFile]
    /\ Holds(NextFile, disk[NextFile], gate.read)
    /\ gate' = [gate EXCEPT !.content[NextFile] = disk[NextFile], !.next = @ + 1]
    /\ UNCHANGED <<disk, evidence, result, report, accepted, writes>>

(* Missing, changed or malformed evidence: there is a failure, no report.    *)
RefuseFile ==
    /\ GateAt("reading") /\ gate.next \in DOMAIN Order
    /\ \/ disk[NextFile] # gate.read.pins[NextFile]
       \/ ~Holds(NextFile, disk[NextFile], gate.read)
    /\ gate' = [gate EXCEPT !.at = "refused"]
    /\ UNCHANGED <<disk, evidence, result, report, accepted, writes>>

(* The quality target is reported; only an overlap fails the evaluation.     *)
Judgement(e, content) ==
    [passed |-> OverlapCount(content["records"]) = 0,
     target |-> TargetMet(content["predictions"]),
     overall |-> OverallReport(content["predictions"]),
     tasks |-> [task \in Task |-> TaskReport(task, content["predictions"])],
     evidence |-> e]

Judge ==
    /\ GateAt("reading") /\ gate.next = Len(Order) + 1
    /\ result' = {Judgement(gate.read, gate.content)}
    /\ gate' = [gate EXCEPT !.at = "judged"]
    /\ UNCHANGED <<disk, evidence, report, accepted, writes>>

(* The report is created exclusively.                                        *)
WriteReport ==
    /\ GateAt("judged") /\ gate.caller = "command" /\ report = {}
    /\ report' = result
    /\ UNCHANGED <<disk, evidence, gate, result, accepted, writes>>

(* Faulty: what the gate has judged is taken to be what was read.            *)
AcceptJudged ==
    /\ GateAt("judged") /\ gate.caller = "publisher" /\ accepted = {}
    /\ \A r \in result : r.passed
    /\ accepted' = {gate.named}
    /\ UNCHANGED <<disk, evidence, gate, result, report, writes>>

(* The publisher accepts the evaluation if the gate has judged the manifest  *)
(* that its release names.                                                   *)
Accept ==
    /\ GateAt("judged") /\ gate.caller = "publisher" /\ accepted = {}
    /\ \A r \in result : r.passed /\ r.evidence = gate.named
    /\ accepted' = {gate.named}
    /\ UNCHANGED <<disk, evidence, gate, result, report, writes>>

Others == writes < MaxWrites /\ writes' = writes + 1

WriteFile(f, content) ==
    /\ Others
    /\ disk' = [disk EXCEPT ![f] = content]
    /\ UNCHANGED <<evidence, gate, result, report, accepted>>

(* The manifest is made again for the files that are there.                  *)
WriteEvidence ==
    /\ Others
    /\ evidence' = ManifestOf(disk)
    /\ UNCHANGED <<disk, gate, result, report, accepted>>

GateNext ==
    \/ PublisherReads \/ CommandCalls \/ ReadEvidence \/ ReadFile \/ RefuseFile
    \/ Judge \/ WriteReport \/ Accept
    \/ \E f \in File : \E content \in Spare[f] : WriteFile(f, content)
    \/ WriteEvidence

GateSpec == GateInit /\ [][GateNext]_gateVars

-----------------------------------------------------------------------------
(* Properties                                                               *)

(* A pass is a statement about the pinned files, whatever is written while   *)
(* they are read: what was judged is what the manifest of the report pins,   *)
(* the five reviews passed this very checkpoint, and no training record      *)
(* holds a text of the benchmark, not even inside a longer message.          *)
PassedIsClean ==
    \A r \in result :
        r.passed =>
            LET pins == r.evidence.pins IN
            /\ gate.content = pins
            /\ \A name \in Review : pins["reviews"][name].passed
                                    /\ pins["reviews"][name].checkpoint = pins["checkpoint"]
            /\ \A training \in pins["records"] :
                   \A t \in training.texts, i \in Case :
                       Benchmark[i].input \notin Contains[t] /\ Benchmark[i].prompt # t

(* A target that is met bounds the recall of every class: with K classes in  *)
(* a task, a threshold T leaves none of them below 1 - K (1 - T), which says *)
(* nothing once K (1 - T) >= 1 (from 20 classes on, at the least threshold   *)
(* the gate accepts, 0.95), and no task has an invalid output that costs it  *)
(* more than a class of its own.                                             *)
TargetCoversEveryClass ==
    \A r \in result :
        r.target =>
            \A task \in Task :
                LET predicted == TaskPredicted(r.evidence.pins["predictions"])
                    reference == ReferenceLabels(Of(task), TaskTruth)
                    observed == ObservedLabels(Of(task), TaskTruth, predicted)
                IN
                /\ \A l \in reference :
                       Recall(Of(task), TaskTruth, predicted, l) * Den
                           + Scale * Cardinality(reference) * (Den - Num) >= Scale * Den
                /\ (\E i \in Of(task) : predicted[i] = Invalid) =>
                       (Cardinality(observed) - 1) * Den >= Num * Cardinality(observed)

(* The tasks do not help each other: over the whole benchmark each metric is *)
(* the mean of the metrics of the tasks, each task weighing as many classes  *)
(* or samples as it has.                                                     *)
OverallIsMeanOfTasks ==
    \A r \in result :
        \A metric \in {"accuracy", "balanced", "macro_f1"} :
            /\ r.overall[metric].sum =
                   SumFunction([task \in Task |-> r.tasks[task][metric].sum])
            /\ r.overall[metric].of =
                   SumFunction([task \in Task |-> r.tasks[task][metric].of])

(* The publisher accepts an evaluation only of the manifest that its release *)
(* names, although it and the gate read the file one after the other.        *)
AcceptedIsJudged ==
    \A e \in accepted : \E r \in result : r.passed /\ r.evidence = e /\ gate.content = e.pins

-----------------------------------------------------------------------------
(* What the properties rest on                                              *)

(* A value for each file, that the file may hold.                           *)
Bundled(m) == m = [f \in File |-> m[f]] /\ \A f \in File : m[f] \in Possible(f)

(* A manifest was made of files: what it says beside the pins is of them.   *)
Manifest(e) == Bundled(e.pins) /\ e = ManifestOf(e.pins)

(* Every variable has its type.                                             *)
GateTypeOK ==
    /\ Bundled(disk) /\ Manifest(evidence) /\ Manifest(gate.named) /\ Manifest(gate.read)
    /\ gate \in [at : {"idle", "called", "reading", "judged", "refused"},
                 caller : {"none", "publisher", "command"},
                 named : {gate.named}, read : {gate.read},
                 next : 1 .. Len(Order) + 1, content : {gate.content}]
    /\ gate.content = [f \in File |-> gate.content[f]]
    /\ report \subseteq result
    /\ writes \in 0 .. MaxWrites

(* What was read so far is what the manifest pins, and was found in order.  *)
ReadInv ==
    /\ gate.at \in {"idle", "called"} => gate.next = 1
    /\ gate.at = "judged" => gate.next = Len(Order) + 1
    /\ \A k \in 1 .. gate.next - 1 :
           /\ gate.content[Order[k]] = gate.read.pins[Order[k]]
           /\ Holds(Order[k], gate.content[Order[k]], gate.read)

(* There is one judgement, of what was read, and it alone is accepted.      *)
JudgedInv ==
    /\ result = IF gate.at = "judged" THEN {Judgement(gate.read, gate.content)} ELSE {}
    /\ \A e \in accepted : \E r \in result : r.passed /\ r.evidence = e

GateInv == GateTypeOK /\ ReadInv /\ JudgedInv
===============================================================================
