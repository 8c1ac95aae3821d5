-------------------------------- MODULE Corpus --------------------------------
(***************************************************************************)
(* prepare_jsonl_many and what follows it: canonical records, and the views *)
(* derived from them, are checked against the registry, redacted, stripped  *)
(* of duplicates and put into splits whose lineages do not mix; the trainer *)
(* then takes the training split if the registry still says what it said.   *)
(***************************************************************************)
EXTENDS Naturals, FiniteSets

CONSTANTS
    Text,               \* what users ask and assistants answer
    Form,               \* the normal form of a text
    Redacted,           \* a text without its secrets
    ViewOf,             \* the text of a derived view
    Group,
    Bucket,             \* the split that the hash of a group gives
    Source,
    Licence,
    BenchmarkSource,
    Rescanned,          \* the sources whose records are searched once more, in the split
    Benchmark,          \* the normal forms of what the benchmark asks
    Within,             \* which normal form, if it is long, is part of which
    Corpora,            \* what the canonical file may hold
    Registries,         \* what the registry may say
    ValidationAfter,    \* the cutoffs of a temporal split
    TestAfter,
    Tampered,           \* what others put into an input
    MaxEdits            \* bound: edits of the inputs by others

ASSUME TextAssumption ==
    Redacted \in [Text -> Text] /\ ViewOf \in [Text -> Text] /\ Text \subseteq DOMAIN Form

ASSUME BenchmarkAssumption == BenchmarkSource \in Source /\ Rescanned \subseteq Source

ASSUME BucketAssumption == Bucket \in [Group -> {"train", "validation", "test"}]

ASSUME CutoffAssumption ==
    /\ ValidationAfter \in Nat /\ TestAfter \in Nat /\ MaxEdits \in Nat
    /\ ValidationAfter < TestAfter

Class == {"allow_train", "rag_only", "eval_only", "quarantine", "prohibited"}

(* A flaw is what makes a record inadmissible, at preparation or at training. *)
Record ==
    [id : Nat, group : Group, user : Text, answer : Text, holdout : BOOLEAN,
     source : Source, licence : Licence, parent : Nat, time : Nat,
     kind : {"juliet", "procedure", "other"}, names : BOOLEAN,
     flaw : {"none", "digest", "binary", "disallowed", "roles", "length"}]

Registry == [Source -> [class : Class, licence : Licence]]

ASSUME CorporaAssumption ==
    /\ Corpora \subseteq SUBSET Record /\ \A c \in Corpora : IsFiniteSet(c)
    /\ Registries \subseteq Registry /\ Tampered \subseteq SUBSET Record

File == {"canonical", "derived"}
Split == {"train", "validation", "test", "evaluation"}
Mode == {"isolated", "temporal", "train_only"}
NoRecords == [s \in Split |-> {}]

VARIABLES
    file,               \* the canonical inputs
    scanned,            \* the inputs, and the split, that were searched for what the
                        \* benchmark asks and not written since
    edits,              \* edits of the inputs by others
    touched,            \* of each input, those between its hash and the next
    registry,           \* the source registry
    prep,               \* the preparation
    split,              \* the splits
    manifest,           \* their manifest
    trained             \* the records the trainer learns from

vars == <<file, scanned, edits, touched, registry, prep, split, manifest, trained>>

Init ==
    /\ file \in [canonical : Corpora, derived : {{}}]
    /\ scanned = {}
    /\ edits = 0
    /\ touched = [f \in File |-> 0]
    /\ registry \in Registries
    /\ prep = [at |-> "idle", mode |-> "none", next |-> "canonical", policy |-> registry,
               before |-> {}, digest |-> [f \in File |-> {}], admitted |-> {}]
    /\ split = NoRecords
    /\ manifest = {}
    /\ trained = {}

-----------------------------------------------------------------------------
(* Records *)

Allows(policy, purpose) ==
    [allow_train |-> {"train", "rag"}, rag_only |-> {"rag"}, eval_only |-> {"evaluate"},
     quarantine |-> {"manual_review"}, prohibited |-> {}][policy.class] \cap {purpose} # {}

Sanitize(r) == [r EXCEPT !.user = Redacted[@], !.answer = Redacted[@]]

ExactHash(r) == <<r.user, r.answer, r.parent, r.time, r.kind, r.names>>

(* The task of a Juliet record is another than that of what is derived.      *)
Task(r) == IF r.kind = "juliet" THEN "code" ELSE "text"

NormalHash(r) == <<Task(r), Form[r.user], Form[r.answer]>>

(* Faulty: the order is that of the identifiers alone.                       *)
ById(r, s) == r.id < s.id

(* Restrictive records come first, then the order is that of the identifiers. *)
Before(r, s) ==
    \/ r.holdout /\ ~s.holdout
    \/ r.holdout = s.holdout /\ r.id < s.id

ProvenanceHolds(r, policy) ==
    /\ r.source \in DOMAIN policy
    /\ r.licence = policy[r.source].licence
    /\ r.flaw # "digest"

Admissible(r, policy, mode) ==
    /\ ProvenanceHolds(r, policy)
    /\ r.flaw # "binary"
    /\ \/ Allows(policy[r.source], "train")
       \/ Allows(policy[r.source], "evaluate") /\ mode # "train_only"
    /\ mode = "train_only" => ~r.holdout

(* The view of a Juliet record, whose prompt must name the weakness: the     *)
(* name is taken out.                                                        *)
JulietView(r) ==
    [r EXCEPT !.id = @ + 1, !.parent = r.id, !.user = ViewOf[@], !.answer = ViewOf[@],
              !.kind = "other", !.names = FALSE, !.flaw = IF @ = "digest" THEN "none" ELSE @]

(* The view of an ATT&CK procedure whose prompt does not name the technique. *)
AttackView(r) ==
    [r EXCEPT !.id = @ + 1, !.parent = r.id, !.user = ViewOf[@], !.answer = ViewOf[@],
              !.kind = "other", !.flaw = IF @ = "digest" THEN "none" ELSE @]

-----------------------------------------------------------------------------
(* Decontamination *)

Overlaps(text) ==
    \E b \in Benchmark : text = b \/ <<text, b>> \in Within \/ <<b, text>> \in Within

Contaminated(r) ==
    r.source = BenchmarkSource \/ Overlaps(Form[r.user]) \/ Overlaps(Form[r.answer])

NoPayload(records) == \A r \in records : r.source = BenchmarkSource \/ r.flaw # "binary"

(* The records that overlap with the benchmark are taken out of the canonical *)
(* file, which is refused if there are none or no others.                    *)
Decontaminate ==
    LET clean == {r \in file.canonical : ~Contaminated(r)} IN
    /\ prep.at = "idle" /\ file.derived = {}
    /\ NoPayload(file.canonical) /\ \A r \in file.canonical : r.flaw # "digest"
    /\ clean # {} /\ clean # file.canonical
    /\ file' = [file EXCEPT !.canonical = clean]
    /\ scanned' = scanned \cup {"canonical"}
    /\ UNCHANGED <<edits, touched, registry, prep, split, manifest, trained>>

(* Nothing in an input that is added overlaps with it.                       *)
ScanInput(f) ==
    /\ prep.at = "idle" /\ file[f] # {}
    /\ NoPayload(file[f]) /\ \A r \in file[f] : ~Contaminated(r)
    /\ scanned' = scanned \cup {f}
    /\ UNCHANGED <<file, edits, touched, registry, prep, split, manifest, trained>>

-----------------------------------------------------------------------------
(* Augmentation *)

(* One question, one answer, no holdout and no executable payload.           *)
HasView(r) == ~r.holdout /\ r.flaw \notin {"roles", "binary"}

DeriveJuliet ==
    /\ prep.at = "idle" /\ file.derived = {} /\ file.canonical # {}
    /\ \A r \in file.canonical : r.kind = "juliet" /\ r.names /\ HasView(r)
    /\ file' = [file EXCEPT !.derived = {JulietView(r) : r \in file.canonical}]
    /\ scanned' = scanned \ {"derived"}
    /\ UNCHANGED <<edits, touched, registry, prep, split, manifest, trained>>

DeriveAttack ==
    LET procedures == {r \in file.canonical : r.kind = "procedure"}
        derived == {AttackView(r) : r \in {p \in procedures : ~p.names}}
    IN
    /\ prep.at = "idle" /\ file.derived = {} /\ derived # {}
    /\ \A r \in procedures : HasView(r)
    /\ file' = [file EXCEPT !.derived = derived]
    /\ scanned' = scanned \ {"derived"}
    /\ UNCHANGED <<edits, touched, registry, prep, split, manifest, trained>>

-----------------------------------------------------------------------------
(* Preparation *)

PrepAt(at) == prep.at = at

Begin(mode) ==
    /\ PrepAt("idle")
    /\ prep' = [prep EXCEPT !.at = "hashing", !.mode = mode, !.policy = registry]
    /\ UNCHANGED <<file, scanned, edits, touched, registry, split, manifest, trained>>

HashInput ==
    /\ PrepAt("hashing")
    /\ prep' = [prep EXCEPT !.at = "reading", !.before = file[prep.next]]
    /\ UNCHANGED <<file, scanned, edits, touched, registry, split, manifest, trained>>

(* Every record of the file is admissible, and no identifier is used twice.  *)
ReadInput ==
    LET read == file[prep.next] IN
    /\ PrepAt("reading")
    /\ \A r \in read : Admissible(r, prep.policy, prep.mode)
    /\ \A r \in read, s \in read \cup prep.admitted : r.id = s.id => r = s
    /\ \A r \in read, s \in prep.admitted : r.id # s.id
    /\ prep' = [prep EXCEPT !.at = "rehashing",
                            !.admitted = @ \cup {Sanitize(r) : r \in read}]
    /\ UNCHANGED <<file, scanned, edits, touched, registry, split, manifest, trained>>

(* Faulty: the file is not hashed again.                                     *)
RecordDigest ==
    /\ PrepAt("rehashing")
    /\ prep' = [prep EXCEPT !.at = IF prep.next = "canonical" THEN "hashing" ELSE "checking",
                            !.next = "derived",
                            !.digest[prep.next] = prep.before]
    /\ UNCHANGED <<file, scanned, edits, touched, registry, split, manifest, trained>>

(* The file is still what it was before it was read.                         *)
RehashInput ==
    /\ PrepAt("rehashing")
    /\ file[prep.next] = prep.before
    /\ prep' = [prep EXCEPT !.at = IF prep.next = "canonical" THEN "hashing" ELSE "checking",
                            !.next = "derived",
                            !.digest[prep.next] = prep.before]
    /\ UNCHANGED <<file, scanned, edits, touched, registry, split, manifest, trained>>

ClassOf(r) == prep.policy[r.source].class

(* Faulty: a derived record may be of any group.                             *)
AnyParentGroup(S) == \A r, s \in S : r.id = s.id => r = s

(* A derived record is of the group of its parent, if the parent is there.   *)
ParentGroupsHold(S) == \A r, s \in S : r.parent = s.id => r.group = s.group

NoTrainEvalDuplicates(S) ==
    \A r, s \in S :
        ClassOf(r) = "allow_train" /\ ClassOf(s) = "eval_only" =>
            ExactHash(r) # ExactHash(s) /\ NormalHash(r) # NormalHash(s)

Deduplicate(S) ==
    {r \in S : \A s \in S : Before(s, r) => ExactHash(s) # ExactHash(r)}

(* Faulty: a record whose prompt was seen is taken for a duplicate.          *)
DeduplicateByPrompt(S) ==
    {r \in S : \A s \in S : Before(s, r) => Form[s.user] # Form[r.user]}

DeduplicateNear(S) ==
    {r \in S : \A s \in S : Before(s, r) => NormalHash(s) # NormalHash(r)}

Kept(S) == DeduplicateNear(Deduplicate(S))

Lineage(S, g) == {r \in S : r.group = g}

(* A group is wholly of trainable or of evaluation-only sources, and a       *)
(* temporal split needs the time of each of its records.                     *)
GroupsAreEligible(S) ==
    \A g \in Group :
        /\ Cardinality({ClassOf(r) : r \in Lineage(S, g)}) <= 1
        /\ prep.mode = "temporal" =>
               \A r \in Lineage(S, g) :
                   \/ ClassOf(r) = "eval_only"
                   \/ \E h \in Lineage(S, g) : h.holdout
                   \/ r.time # 0

LatestAfter(S, cutoff) == \E r \in S : r.time >= cutoff

SplitOf(S, g) ==
    LET lineage == Lineage(S, g) IN
    IF \E r \in lineage : ClassOf(r) = "eval_only" THEN "evaluation"
    ELSE IF \E r \in lineage : r.holdout THEN "test"
    ELSE IF prep.mode = "isolated" THEN Bucket[g]
    ELSE IF LatestAfter(lineage, TestAfter) THEN "test"
    ELSE IF LatestAfter(lineage, ValidationAfter) THEN "validation"
    ELSE "train"

Assigned(S) ==
    [s \in Split |->
        IF prep.mode = "train_only" THEN IF s = "train" THEN S ELSE {}
        ELSE {r \in S : SplitOf(S, r.group) = s}]

Isolated(a, b) ==
    /\ ExactHash(a) # ExactHash(b) /\ NormalHash(a) # NormalHash(b)
    /\ Form[a.user] # Form[b.user] /\ Form[a.answer] # Form[b.answer]
    /\ a.group # b.group

SplitsAreIsolated(assigned) ==
    \A s, t \in Split : s # t => \A a \in assigned[s], b \in assigned[t] : Isolated(a, b)

SplitRecords ==
    LET kept == Kept(prep.admitted) IN
    /\ PrepAt("checking")
    /\ ParentGroupsHold(prep.admitted)
    /\ NoTrainEvalDuplicates(prep.admitted)
    /\ prep.mode # "train_only" => GroupsAreEligible(kept)
    /\ SplitsAreIsolated(Assigned(kept))
    /\ split' = Assigned(kept)
    /\ prep' = [prep EXCEPT !.at = "describing"]
    /\ UNCHANGED <<file, scanned, edits, touched, registry, manifest, trained>>

SourcesOf(records) ==
    {[id |-> r.source, class |-> ClassOf(r), licence |-> prep.policy[r.source].licence] :
         r \in records}

(* The manifest is written once the splits are there.                        *)
WriteManifest ==
    /\ PrepAt("describing")
    /\ manifest' = {[inputs |-> prep.digest, registry |-> prep.policy,
                     sources |-> SourcesOf(UNION {split[s] : s \in Split})]}
    /\ prep' = [prep EXCEPT !.at = "prepared"]
    /\ UNCHANGED <<file, scanned, edits, touched, registry, split, trained>>

(* Faulty: it is the inputs that are searched again.                         *)
SearchInputs ==
    /\ PrepAt("prepared") /\ prep.mode = "train_only" /\ trained = {}
    /\ split.train = prep.admitted
    /\ \A f \in File : NoPayload(file[f]) /\ \A r \in file[f] : ~Contaminated(r)
    /\ scanned' = scanned \cup {"train"}
    /\ UNCHANGED <<file, edits, touched, registry, prep, split, manifest, trained>>

(* Where all goes to the training split, it must hold all that was read, and *)
(* the records of some sources are searched once more.                       *)
SearchSplit ==
    LET searched == {r \in split.train : r.source \in Rescanned} IN
    /\ PrepAt("prepared") /\ prep.mode = "train_only" /\ trained = {}
    /\ split.train = prep.admitted
    /\ NoPayload(searched) /\ \A r \in searched : ~Contaminated(r)
    /\ scanned' = scanned \cup {"train"}
    /\ UNCHANGED <<file, edits, touched, registry, prep, split, manifest, trained>>

-----------------------------------------------------------------------------
(* Training *)

(* Faulty: the registry of the manifest is believed.                         *)
SourcesMightTrain(m) ==
    \A source \in m.sources : Allows(m.registry[source.id], "train")

(* Every source of the manifest may be trained on, under the registry the    *)
(* manifest was made with.                                                   *)
SourcesMayTrain(m) ==
    /\ m.registry = registry
    /\ \A source \in m.sources :
           /\ Allows(registry[source.id], "train")
           /\ source.class = registry[source.id].class
           /\ source.licence = registry[source.id].licence

RecordMayTrain(r, m) ==
    /\ r.flaw # "disallowed" /\ ~r.holdout
    /\ \E source \in m.sources : source.id = r.source /\ source.licence = r.licence

(* The turns alternate and end with the answer, whose tokens follow those of *)
(* the prompt and are not cut off.                                           *)
CompletionIsWhole(r) == r.flaw \notin {"roles", "length"}

TrainOn(supplied) ==
    /\ PrepAt("prepared") /\ trained = {}
    /\ "train" \in supplied
    /\ \A s \in supplied : split[s] # {}
    /\ \E m \in manifest :
           /\ SourcesMayTrain(m)
           /\ \A s \in supplied : \A r \in split[s] : RecordMayTrain(r, m) /\ CompletionIsWhole(r)
    /\ trained' = split.train
    /\ UNCHANGED <<file, scanned, edits, touched, registry, prep, split, manifest>>

-----------------------------------------------------------------------------
(* What goes on beside *)

(* Others write an input, at any time until it was read: anything, or what   *)
(* was there when the input being read was hashed.                           *)
EditInput(f, content) ==
    LET beingRead == f = prep.next /\ prep.at \in {"reading", "rehashing"} IN
    /\ prep.at \in {"idle", "hashing", "reading", "rehashing"}
    /\ edits < MaxEdits
    /\ file' = [file EXCEPT ![f] = content]
    /\ scanned' = scanned \ {f}
    /\ edits' = edits + 1
    /\ touched' = [touched EXCEPT ![f] = IF beingRead THEN @ + 1 ELSE @]
    /\ UNCHANGED <<registry, prep, split, manifest, trained>>

(* The registry is revised once the splits are prepared.                     *)
ReviseRegistry(policy) ==
    /\ PrepAt("prepared") /\ trained = {}
    /\ registry' = policy
    /\ UNCHANGED <<file, scanned, edits, touched, prep, split, manifest, trained>>

Next ==
    \/ Decontaminate \/ DeriveJuliet \/ DeriveAttack
    \/ \E f \in File : ScanInput(f)
    \/ \E mode \in Mode : Begin(mode)
    \/ HashInput \/ ReadInput \/ RehashInput \/ SplitRecords \/ WriteManifest \/ SearchSplit
    \/ \E supplied \in SUBSET {"train", "validation"} : TrainOn(supplied)
    \/ \E f \in File, content \in Tampered \cup {prep.before} : EditInput(f, content)
    \/ \E policy \in Registries : ReviseRegistry(policy)

Spec == Init /\ [][Next]_vars

-----------------------------------------------------------------------------
(* Properties                                                               *)

TypeOK ==
    /\ file \in [File -> SUBSET Record]
    /\ scanned \subseteq File \cup {"train"}
    /\ edits \in Nat
    /\ touched \in [File -> Nat]
    /\ registry \in Registries
    /\ prep \in [at : {"idle", "hashing", "reading", "rehashing", "checking", "describing",
                      "prepared"},
                mode : Mode \cup {"none"}, next : File, policy : Registries,
                before : SUBSET Record, digest : [File -> SUBSET Record],
                admitted : SUBSET Record]
    /\ split \in [Split -> SUBSET Record]
    /\ trained \subseteq Record

(* What is withheld from training: the holdouts and the evaluation sources.  *)
Withheld(r) == r.holdout \/ ClassOf(r) = "eval_only"

(* What is asked or answered in a record that is withheld is not asked or    *)
(* answered in the training or the validation split, whatever duplicates of  *)
(* the record, up to normalization and redaction, the other inputs hold and  *)
(* whichever of the duplicates is dropped.                                   *)
WithheldContentStaysOut ==
    \A h \in prep.admitted, s \in {"train", "validation"} :
        Withheld(h) =>
            \A r \in split[s] : Form[r.user] # Form[h.user] /\ Form[r.answer] # Form[h.answer]

(* Duplicates are all that is dropped: for every record that was read, the   *)
(* splits hold exactly one with its content, which is withheld if it is.     *)
ContentIsKept ==
    manifest # {} =>
        \A r \in prep.admitted :
            LET same(s) == {k \in split[s] : NormalHash(k) = NormalHash(r)} IN
            /\ Cardinality(UNION {same(s) : s \in Split}) = 1
            /\ Withheld(r) => same("train") = {} /\ same("validation") = {}

(* A record and the view that was derived from it are in the same split, if  *)
(* neither was dropped as a duplicate.                                       *)
ViewsFollowParents ==
    \A s, t \in Split : \A r \in split[s], p \in split[t] : r.parent = p.id => s = t

(* What is trained on was admitted under a registry that still allows it to  *)
(* be trained on and gives it the licence it claims, with no holdout and     *)
(* nothing disallowed among it and every answer learnt to its end.           *)
TrainedIsApproved ==
    \A r \in trained :
        /\ registry[r.source] = prep.policy[r.source]
        /\ Allows(registry[r.source], "train") /\ registry[r.source].licence = r.licence
        /\ r \in prep.admitted /\ ~Withheld(r) /\ r.flaw = "none"

(* Whoever writes the inputs, and whenever: once the split was searched,     *)
(* nothing of the sources it is searched for is learnt that the benchmark    *)
(* asks. Nothing else is learnt that it asks, up to redaction, if both       *)
(* inputs were searched and not written after that.                          *)
TrainedWasSearched ==
    \A r \in trained :
        /\ "train" \in scanned /\ r.source \in Rescanned => ~Contaminated(r)
        /\ File \subseteq scanned =>
               \E f \in File : \E q \in file[f] : Sanitize(q) = r /\ ~Contaminated(q)

Described == \A f \in File : touched[f] < 2

(* The manifest gives the digest of the very records that were prepared,     *)
(* unless an input was changed and put back between its hash and the next.   *)
InputsAreDescribed ==
    Described =>
        \A m \in manifest :
            prep.admitted = {Sanitize(r) : r \in m.inputs["canonical"] \cup m.inputs["derived"]}

(* The report of the run: nothing that is trained on overlaps with the       *)
(* benchmark, once the split was searched.                                   *)
OverlapIsNone ==
    "train" \in scanned => \A r \in trained : ~Contaminated(r)

(* The documented isolation: when an input record is a holdout, its whole    *)
(* lineage is kept from training.                                            *)
HoldoutLineageStaysOut ==
    \A h \in prep.admitted : h.holdout => \A r \in split.train : r.group # h.group

-----------------------------------------------------------------------------
(* What the properties rest on                                              *)

(* What is there at each stage of the preparation.                          *)
StageInv ==
    /\ prep.at = "idle" \/ (prep.at \in {"hashing", "reading"} /\ prep.next = "canonical")
           => prep.admitted = {}
    /\ prep.at = "idle" => prep.next = "canonical"
    /\ prep.at \notin {"describing", "prepared"} => split = NoRecords
    /\ prep.at # "prepared" => manifest = {} /\ trained = {}
    /\ trained \subseteq split.train

(* What was admitted, and that no identifier is used twice.                 *)
AdmittedInv ==
    /\ \A r \in prep.admitted : Admissible(r, prep.policy, prep.mode)
    /\ \A r, s \in prep.admitted : r.id = s.id => r = s

(* What can be said of the splits without saying how they were made.        *)
SplitInv ==
    prep.at \in {"describing", "prepared"} =>
        /\ \A s \in Split : split[s] \subseteq Kept(prep.admitted)
        /\ \A r \in Kept(prep.admitted) :
               /\ \E s \in Split : r \in split[s]
               /\ Withheld(r) => r \notin split.train /\ r \notin split.validation
        /\ SplitsAreIsolated(split)
        /\ ParentGroupsHold(prep.admitted) /\ NoTrainEvalDuplicates(prep.admitted)

Clean(records) == \A r \in records : ~Contaminated(r)

(* What was searched and not written is clean, and so is what was read.     *)
CleanInv ==
    /\ \A f \in File \cap scanned : Clean(file[f])
    /\ File \subseteq scanned =>
           \A r \in prep.admitted :
               \E f \in File : \E q \in file[f] : Sanitize(q) = r /\ ~Contaminated(q)
    /\ "train" \in scanned =>
           prep.at = "prepared" /\ Clean({r \in split.train : r.source \in Rescanned})

Sanitized(records) == {Sanitize(r) : r \in records}

Previous == IF prep.next = "canonical" THEN {} ELSE Sanitized(prep.digest["canonical"])

(* With a single edit, what was read is what was hashed or what is there.   *)
DigestInv ==
    /\ touched[prep.next] = 0 /\ prep.at \in {"reading", "rehashing"} =>
           file[prep.next] = prep.before
    /\ Described =>
           /\ prep.at \in {"hashing", "reading"} => prep.admitted = Previous
           /\ prep.at = "rehashing" /\ touched[prep.next] = 0 =>
                  prep.admitted = Previous \cup Sanitized(prep.before)
           /\ prep.at = "rehashing" =>
                  \/ prep.admitted = Previous \cup Sanitized(prep.before)
                  \/ prep.admitted = Previous \cup Sanitized(file[prep.next])
           /\ prep.at \in {"checking", "describing", "prepared"} =>
                  prep.admitted = Sanitized(prep.digest["canonical"])
                                      \cup Sanitized(prep.digest["derived"])

(* The manifest is of this preparation.                                     *)
ManifestInv ==
    \A m \in manifest :
        /\ m.inputs = prep.digest /\ m.registry = prep.policy
        /\ m.sources = SourcesOf(UNION {split[s] : s \in Split})

IInv ==
    /\ TypeOK /\ StageInv /\ AdmittedInv /\ SplitInv /\ CleanInv /\ DigestInv /\ ManifestInv
    /\ TrainedIsApproved
=============================================================================
