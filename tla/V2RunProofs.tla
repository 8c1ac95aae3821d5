------------------------------ MODULE V2RunProofs ------------------------------
(***************************************************************************)
(* The invariants of an attempt and of its training, for any number of      *)
(* attempts, inputs, views, contents and tensors.                           *)
(***************************************************************************)
EXTENDS V2Run, TLAPS, FiniteSetTheorems

-----------------------------------------------------------------------------
(* Adapters                                                                 *)

(* A set each of whose members the other has exactly one of has its size.   *)
LEMMA SidesAreEqual ==
    ASSUME NEW saved \in SUBSET Tensor, LoraOnly(saved), Paired(saved), NEW side \in {"a", "b"}
    PROVE  LET half == {x \in saved : x.side = side} IN
           /\ IsFiniteSet(half) /\ IsFiniteSet(ModulesOf(saved))
           /\ Cardinality(half) = Cardinality(ModulesOf(saved))
<1> DEFINE half == {x \in saved : x.side = side}
           f == [x \in half |-> x.module]
<1>1. IsFiniteSet(half)
  <2>1. half \in SUBSET Tensor
    OBVIOUS
  <2> QED
    BY <2>1, FS_Subset, TensorAssumption
<1>2. f \in [half -> ModulesOf(saved)]
  BY DEF ModulesOf
<1>3. \A x, y \in half : f[x] = f[y] => x = y
  BY DEF LoraOnly
<1>4. \A m \in ModulesOf(saved) : \E x \in half : f[x] = m
  <2> SUFFICES ASSUME NEW z \in saved PROVE \E x \in half : x.module = z.module
    BY DEF ModulesOf
  <2>1. side \in {y.side : y \in OfModule(z.module, saved)}
    BY DEF Paired
  <2>2. PICK y \in OfModule(z.module, saved) : y.side = side
    BY <2>1
  <2> QED
    BY <2>2 DEF OfModule
<1>5. f \in Bijection(half, ModulesOf(saved))
  BY <1>2, <1>3, <1>4 DEF Bijection, Injection, Surjection, IsInjective
<1>6. ExistsBijection(half, ModulesOf(saved))
  BY <1>5 DEF ExistsBijection
<1> HIDE DEF half
<1>7. /\ IsFiniteSet(ModulesOf(saved))
      /\ Cardinality(ModulesOf(saved)) = Cardinality(half)
  BY <1>1, <1>6, FS_Bijection
<1> QED
  BY <1>1, <1>7 DEF half

(* What can be in the file adapts as many modules as were trained, each     *)
(* audited and by both of its tensors.                                      *)
LEMMA AdaptersAreAudited ==
    ASSUME NEW saved \in Adapters
    PROVE  /\ saved \in SUBSET Tensor
           /\ Cardinality(ModulesOf(saved)) = Expected
           /\ \A m \in ModulesOf(saved) :
                  m \in Audited /\ Cardinality(OfModule(m, saved)) = 2
<1>1. PICK after \in SUBSET Tensor : saved \in SavedFrom(after) /\ RequireLoraSurface(after)
  BY DEF Adapters, Trained
<1>2. saved \in SUBSET Tensor /\ VerifySavedAdapter(saved, Cardinality(after))
  BY <1>1 DEF SavedFrom
<1>3. LoraOnly(saved) /\ Paired(saved) /\ Cardinality(saved) = 2 * Expected
  BY <1>1, <1>2 DEF VerifySavedAdapter, RequireLoraSurface
<1> DEFINE A == {x \in saved : x.side = "a"}
           B == {x \in saved : x.side = "b"}
           M == ModulesOf(saved)
<1>4. /\ IsFiniteSet(A) /\ IsFiniteSet(B) /\ IsFiniteSet(M)
      /\ Cardinality(A) = Cardinality(M) /\ Cardinality(B) = Cardinality(M)
  BY <1>2, <1>3, SidesAreEqual
<1>5. saved = A \cup B /\ A \cap B = {}
  <2>1. \A x \in saved : x.side \in {"a", "b", "none"}
    BY <1>2, TensorAssumption
  <2> QED
    BY <1>3, <2>1 DEF LoraOnly
<1> HIDE DEF A, B, M
<1>6. Cardinality(saved) = Cardinality(A) + Cardinality(B)
  <2>1. Cardinality({}) = 0 /\ Cardinality(A) \in Nat /\ Cardinality(B) \in Nat
    BY <1>4, FS_EmptySet, FS_CardinalityType
  <2>2. Cardinality(A \cup B) = Cardinality(A) + Cardinality(B) - Cardinality(A \cap B)
    BY <1>4, FS_Union
  <2>3. Cardinality(A \cap B) = 0
    BY <1>5, <2>1
  <2> QED
    BY <1>5, <2>1, <2>2, <2>3
<1>7. Cardinality(M) = Expected
  <2>1. Cardinality(M) \in Nat /\ Expected \in Nat
    BY <1>4, FS_CardinalityType, TensorAssumption
  <2>2. Cardinality(M) + Cardinality(M) = 2 * Expected
    BY <1>3, <1>4, <1>6
  <2> HIDE DEF M
  <2> QED
    BY <2>1, <2>2
<1>8. ASSUME NEW m \in ModulesOf(saved)
      PROVE  m \in Audited /\ Cardinality(OfModule(m, saved)) = 2
  <2>1. PICK z \in saved : z.module = m
    BY DEF ModulesOf
  <2>2. m \in Audited
    BY <1>3, <2>1 DEF LoraOnly
  <2>3. {y.side : y \in OfModule(m, saved)} = {"a", "b"}
    BY <1>3, <2>1 DEF Paired
  <2>4. PICK x \in OfModule(m, saved) : x.side = "a"
    BY <2>3
  <2>5. PICK y \in OfModule(m, saved) : y.side = "b"
    BY <2>3
  <2>6. OfModule(m, saved) = {x} \cup {y}
    BY <1>3, <2>3, <2>4, <2>5 DEF OfModule, LoraOnly
  <2>7. x # y
    BY <2>4, <2>5
  <2>8. Cardinality({x} \cup {y}) = 2
    <3>1. IsFiniteSet({x}) /\ Cardinality({x}) = 1 /\ y \notin {x}
      BY <2>7, FS_Singleton
    <3>2. Cardinality({x} \cup {y}) = Cardinality({x}) + 1
      BY <3>1, FS_AddElement, Zenon
    <3> QED
      BY <3>1, <3>2
  <2> QED
    BY <2>2, <2>6, <2>8
<1> QED
  BY <1>2, <1>7, <1>8 DEF M

-----------------------------------------------------------------------------
(* What a step of a trainer does                                            *)

LEMMA StepIs ==
    ASSUME trainer \in [Proc -> TrainerState], NEW t \in Proc, NEW at \in Phase, Step(t, at)
    PROVE  /\ trainer' \in [Proc -> TrainerState]
           /\ trainer'[t] = [trainer[t] EXCEPT !.at = at, !.next = 1]
           /\ trainer'[t].at = at /\ trainer'[t].next = 1
           /\ trainer'[t].pins = trainer[t].pins /\ trainer'[t].seen = trainer[t].seen
           /\ trainer'[t].frozen = trainer[t].frozen /\ trainer'[t].loaded = trainer[t].loaded
           /\ \A u \in Proc \ {t} : trainer'[u] = trainer[u]
  BY DEF Step, TrainerState

(* A verification, the first or the second, is of the next input.           *)
LEMMA VerifyIs ==
    ASSUME TrainingTypeOK, NEW t \in Proc, Verify(t)
    PROVE  LET f == trainer[t].next IN
           /\ trainer' \in [Proc -> TrainerState]
           /\ TrainerAt(t, "checking") /\ f \in Input /\ Verified(t, f)
           /\ trainer'[t].at = "checking" /\ trainer'[t].next = f + 1
           /\ trainer'[t].seen = (IF f = Base THEN disk[f].writes ELSE trainer[t].seen)
           /\ trainer'[t].pins = trainer[t].pins
           /\ trainer'[t].frozen = trainer[t].frozen /\ trainer'[t].loaded = trainer[t].loaded
           /\ \A u \in Proc \ {t} : trainer'[u] = trainer[u]
           /\ disk' = disk /\ root' = root
<1> DEFINE f == trainer[t].next
           seen == IF f = Base THEN disk[f].writes ELSE trainer[t].seen
<1>1. /\ trainer \in [Proc -> TrainerState] /\ TrainerAt(t, "checking") /\ f \in Input
      /\ Verified(t, f) /\ disk' = disk /\ root' = root
      /\ trainer' = [trainer EXCEPT ![t] = [trainer[t] EXCEPT !.next = f + 1, !.seen = seen]]
  <2>1. TrainerAt(t, "checking") /\ f \in Input /\ Verified(t, f) /\ disk' = disk /\ root' = root
    BY DEF Verify
  <2>2. trainer \in [Proc -> TrainerState]
    BY DEF TrainingTypeOK
  <2>3. trainer' = [trainer EXCEPT ![t] = [trainer[t] EXCEPT !.next = f + 1, !.seen = seen]]
    BY <2>2 DEF Verify
  <2> QED
    BY <2>1, <2>2, <2>3
<1>2. seen \in Nat /\ f + 1 \in Nat
  BY <1>1 DEF TrainingTypeOK, TrainerState
<1> HIDE DEF seen
<1>3. trainer' \in [Proc -> TrainerState]
      /\ trainer'[t].at = trainer[t].at /\ trainer'[t].next = f + 1
      /\ trainer'[t].seen = seen /\ trainer'[t].pins = trainer[t].pins
      /\ trainer'[t].frozen = trainer[t].frozen /\ trainer'[t].loaded = trainer[t].loaded
      /\ \A u \in Proc \ {t} : trainer'[u] = trainer[u]
  BY <1>1, <1>2 DEF TrainerState
<1> QED
  BY <1>1, <1>3 DEF TrainerAt, seen

LEMMA FreezeIs ==
    ASSUME TrainingTypeOK, NEW t \in Proc, Freeze(t)
    PROVE  LET f == trainer[t].next IN
           /\ trainer' \in [Proc -> TrainerState]
           /\ TrainerAt(t, "freezing") /\ f \in Input
           /\ f \in Frozen => disk[f].content = trainer[t].pins[f]
           /\ trainer'[t].at = "freezing" /\ trainer'[t].next = f + 1
           /\ trainer'[t].seen = trainer[t].seen /\ trainer'[t].pins = trainer[t].pins
           /\ trainer'[t].loaded = trainer[t].loaded
           /\ f \in Frozen => trainer'[t].frozen[f] = disk[f].content
           /\ \A g \in Input \ {f} : trainer'[t].frozen[g] = trainer[t].frozen[g]
           /\ \A u \in Proc \ {t} : trainer'[u] = trainer[u]
           /\ disk' = disk /\ root' = root
<1> DEFINE f == trainer[t].next
           frozen == Copies(t, f)
<1>1. /\ trainer \in [Proc -> TrainerState] /\ TrainerAt(t, "freezing") /\ f \in Input
      /\ (f \in Frozen => disk[f].content = trainer[t].pins[f])
      /\ disk' = disk /\ root' = root
      /\ trainer' = [trainer EXCEPT ![t] = [trainer[t] EXCEPT !.next = f + 1, !.frozen = frozen]]
  <2>1. /\ TrainerAt(t, "freezing") /\ f \in Input /\ disk' = disk /\ root' = root
        /\ f \in Frozen => disk[f].content = trainer[t].pins[f]
    BY DEF Freeze
  <2>2. trainer \in [Proc -> TrainerState]
    BY DEF TrainingTypeOK
  <2>3. trainer' = [trainer EXCEPT ![t] = [trainer[t] EXCEPT !.next = f + 1, !.frozen = frozen]]
    BY <2>2 DEF Freeze
  <2> QED
    BY <2>1, <2>2, <2>3
<1>2. trainer[t].frozen \in [Input -> Anything] /\ disk[f].content \in Anything /\ f + 1 \in Nat
  BY <1>1 DEF TrainingTypeOK, TrainerState
<1>3. /\ frozen \in [Input -> Anything]
      /\ f \in Frozen => frozen[f] = disk[f].content
      /\ \A g \in Input \ {f} : frozen[g] = trainer[t].frozen[g]
  BY <1>1, <1>2 DEF Copies
<1> HIDE DEF frozen
<1>4. trainer' \in [Proc -> TrainerState]
      /\ trainer'[t].at = trainer[t].at /\ trainer'[t].next = f + 1
      /\ trainer'[t].seen = trainer[t].seen /\ trainer'[t].pins = trainer[t].pins
      /\ trainer'[t].frozen = frozen /\ trainer'[t].loaded = trainer[t].loaded
      /\ \A u \in Proc \ {t} : trainer'[u] = trainer[u]
  BY <1>1, <1>2, <1>3 DEF TrainerState
<1> QED
  BY <1>1, <1>3, <1>4 DEF TrainerAt

LEMMA ReverifyIs ==
    ASSUME TrainingTypeOK, NEW t \in Proc, Reverify(t)
    PROVE  LET f == trainer[t].next IN
           /\ trainer' \in [Proc -> TrainerState]
           /\ TrainerAt(t, "rechecking") /\ f \in Input /\ Verified(t, f)
           /\ trainer'[t].at = "rechecking" /\ trainer'[t].next = f + 1
           /\ trainer'[t].seen = trainer[t].seen /\ trainer'[t].pins = trainer[t].pins
           /\ trainer'[t].frozen = trainer[t].frozen /\ trainer'[t].loaded = trainer[t].loaded
           /\ \A u \in Proc \ {t} : trainer'[u] = trainer[u]
           /\ disk' = disk /\ root' = root
  BY DEF TrainingTypeOK, Reverify, TrainerState, TrainerAt

LEMMA LoadIs ==
    ASSUME TrainingTypeOK, NEW t \in Proc, LoadBase(t)
    PROVE  /\ trainer' \in [Proc -> TrainerState]
           /\ TrainerAt(t, "loading") /\ trainer'[t].at = "claiming"
           /\ trainer'[t].next = trainer[t].next
           /\ trainer'[t].seen = trainer[t].seen /\ trainer'[t].pins = trainer[t].pins
           /\ trainer'[t].frozen = trainer[t].frozen
           /\ trainer'[t].loaded = disk[Base].content
           /\ \A u \in Proc \ {t} : trainer'[u] = trainer[u]
           /\ disk' = disk /\ root' = root
  BY InputAssumption DEF TrainingTypeOK, LoadBase, TrainerState, TrainerAt, Phase

(* Every other step of a trainer goes on to the next phase, and only the    *)
(* output directory changes.                                                *)
LEMMA OtherStepIs ==
    ASSUME TrainingTypeOK, NEW t \in Proc, TrainStep(t),
           ~Verify(t), ~Freeze(t), ~Reverify(t), ~LoadBase(t), ~RemoveEntry(t)
    PROVE  /\ \E at \in Phase : Step(t, at)
           /\ disk' = disk /\ root' \in OutputRoot
<1> USE DEF TrainingTypeOK, OutputRoot, Phase
<1>1. CASE StartFreezing(t)
  BY <1>1 DEF StartFreezing
<1>2. CASE StartLoading(t)
  BY <1>2 DEF StartLoading
<1>3. CASE ClaimOutput(t)
  BY <1>3 DEF ClaimOutput, NoRoot
<1>4. CASE MakeStaging(t)
  BY <1>4 DEF MakeStaging
<1>5. CASE FailToStage(t)
  BY <1>5 DEF FailToStage
<1>6. CASE TrainAndSave(t)
  <2>1. PICK saved \in Adapters : root' = [root EXCEPT !.adapter = "staged", !.tensors = saved]
    BY <1>6 DEF TrainAndSave
  <2>2. saved \in SUBSET Tensor
    BY AdaptersAreAudited
  <2> QED
    BY <1>6, <2>1, <2>2 DEF TrainAndSave
<1>7. CASE StartPublishing(t)
  BY <1>7 DEF StartPublishing
<1>8. CASE MoveAdapter(t)
  BY <1>8 DEF MoveAdapter
<1>9. CASE RemoveStaging(t)
  BY <1>9 DEF RemoveStaging
<1>10. CASE OpenManifest(t)
  BY <1>10 DEF OpenManifest
<1>11. CASE WriteManifest(t)
  BY <1>11 DEF WriteManifest
<1>12. CASE Finish(t)
  BY <1>12 DEF Finish
<1>13. CASE FailTraining(t)
  BY <1>13 DEF FailTraining
<1>14. CASE RemovalEnds(t)
  <2>1. Step(t, "refused") /\ disk' = disk /\ (root' = root \/ root' = NoRoot)
    BY <1>14 DEF RemovalEnds
  <2>2. NoRoot \in OutputRoot
    BY DEF NoRoot
  <2> QED
    BY <2>1, <2>2
<1>15. CASE KillTrainer(t)
  BY <1>15 DEF KillTrainer
<1> QED
  BY <1>1, <1>2, <1>3, <1>4, <1>5, <1>6, <1>7, <1>8, <1>9, <1>10, <1>11, <1>12, <1>13, <1>14,
     <1>15
  DEF TrainStep

(* A piece is taken out of a directory that stays its run's.                *)
LEMMA RemoveIs ==
    ASSUME TrainingTypeOK, NEW t \in Proc, RemoveEntry(t)
    PROVE  /\ TrainerAt(t, "removing") /\ disk' = disk /\ trainer' = trainer
           /\ root' \in OutputRoot /\ root'.by = root.by /\ root'.fate = root.fate
           /\ root'.manifest \in {root.manifest, "none"}
           /\ \/ root'.adapter = root.adapter /\ root'.tensors = root.tensors
              \/ root'.adapter \in {"partial", "none"}
  BY DEF TrainingTypeOK, RemoveEntry, OutputRoot

(* What holds of every step: nothing but this trainer and the output        *)
(* directory changes, and the pins are what they were.                      *)
LEMMA TrainStepIs ==
    ASSUME TrainingTypeOK, NEW t \in Proc, TrainStep(t)
    PROVE  /\ TrainingTypeOK'
           /\ disk' = disk
           /\ trainer'[t].pins = trainer[t].pins
           /\ \A u \in Proc \ {t} : trainer'[u] = trainer[u]
<1>1. CASE Verify(t)
  BY <1>1, VerifyIs DEF TrainingTypeOK
<1>2. CASE Freeze(t)
  BY <1>2, FreezeIs DEF TrainingTypeOK
<1>3. CASE Reverify(t)
  BY <1>3, ReverifyIs DEF TrainingTypeOK
<1>4. CASE LoadBase(t)
  BY <1>4, LoadIs DEF TrainingTypeOK
<1>5. CASE RemoveEntry(t)
  BY <1>5, RemoveIs DEF TrainingTypeOK
<1>6. CASE ~Verify(t) /\ ~Freeze(t) /\ ~Reverify(t) /\ ~LoadBase(t) /\ ~RemoveEntry(t)
  <2>1. PICK at \in Phase : Step(t, at)
    BY <1>6, OtherStepIs
  <2>2. disk' = disk /\ root' \in OutputRoot
    BY <1>6, OtherStepIs
  <2> QED
    BY <2>1, <2>2, StepIs DEF TrainingTypeOK
<1> QED
  BY <1>1, <1>2, <1>3, <1>4, <1>5, <1>6

-----------------------------------------------------------------------------
(* The output directory                                                     *)

LEMMA RootStep ==
    ASSUME TrainingTypeOK, RootInv, NEW t \in Proc, TrainStep(t)
    PROVE  /\ RootInv'
           /\ root' # root => root'.by = t \/ root' = NoRoot
           /\ root.manifest # "none" /\ root.by # t => root' = root
<1> USE FilesAssumption DEF RootInv, TrainerAt, Claimed, Published, Working, Terminal
<1>1. trainer \in [Proc -> TrainerState] /\ root \in OutputRoot
  BY DEF TrainingTypeOK
<1>2. ASSUME trainer'[t].at = trainer[t].at, root' = root,
             \A u \in Proc \ {t} : trainer'[u] = trainer[u]
      PROVE  RootInv'
  <2>1. \A u \in Proc : trainer'[u].at = trainer[u].at
    BY <1>2
  <2>2. root.by # Missing => root.by \in Proc
    BY <1>1 DEF OutputRoot
  <2> QED
    BY <1>2, <2>1, <2>2
<1>3. CASE Verify(t) \/ Freeze(t) \/ Reverify(t)
  BY <1>2, <1>3, VerifyIs, FreezeIs, ReverifyIs
<1>4. ASSUME NEW at \in Phase, Step(t, at) 
      PROVE  /\ trainer'[t].at = at
             /\ \A u \in Proc \ {t} : trainer'[u] = trainer[u]
  BY <1>1, <1>4, StepIs
<1>5. CASE LoadBase(t)
  BY <1>1, <1>5, LoadIs DEF OutputRoot
<1> USE DEF OutputRoot, Phase
<1>5a. ASSUME trainer[t].at \in Claimed, root.by = t, root'.by = t, root'.fate = "kept",
              root'.manifest = "none", root'.adapter \in {"staged", "final"},
              root'.tensors \in Adapters,
              \/ trainer'[t].at = "rechecking"
              \/ trainer'[t].at = "cleaning" /\ root'.adapter = "final",
              \A u \in Proc \ {t} : trainer'[u] = trainer[u]
       PROVE  RootInv'
  <2>1. \A u \in Proc \ {t} : trainer'[u].at \notin Claimed
    BY <1>5a
  <2>2. \A u \in Proc : trainer'[u].at \in Claimed => u = t
    BY <2>1
  <2>3. trainer'[t].at \in {"rechecking", "cleaning"}
    BY <1>5a
  <2>4. root'.by # Missing
    BY <1>5a
  <2>5. \A u \in Proc : trainer'[u].at \in Published => root'.adapter = "final"
    BY <1>5a, <2>2, <2>3
  <2>6. \A u \in Proc : trainer'[u].at # "removing"
    BY <2>2, <2>3
  <2> QED
    BY <1>5a, <2>2, <2>3, <2>4, <2>5, <2>6
<1>6. CASE StartFreezing(t) \/ StartLoading(t) \/ StartPublishing(t)
  <2>1. CASE StartFreezing(t)
    <3>1. Step(t, "freezing") /\ root' = root /\ trainer[t].at = "checking"
      BY <2>1 DEF StartFreezing
    <3> QED
      BY <1>1, <1>4, <3>1
  <2>2. CASE StartLoading(t)
    <3>1. Step(t, "loading") /\ root' = root /\ trainer[t].at = "freezing"
      BY <2>2 DEF StartLoading
    <3> QED
      BY <1>1, <1>4, <3>1
  <2>3. CASE StartPublishing(t)
    <3>1. Step(t, "renaming") /\ root' = root /\ trainer[t].at = "rechecking"
      BY <2>3 DEF StartPublishing
    <3> QED
      BY <1>1, <1>4, <3>1
  <2> QED
    BY <1>6, <2>1, <2>2, <2>3
<1>7. CASE MakeStaging(t)
  <2>1. Step(t, "training") /\ root' = [root EXCEPT !.work = TRUE] /\ trainer[t].at = "staging"
    BY <1>7 DEF MakeStaging
  <2>2. root.by = t
    BY <2>1
  <2> QED
    BY <1>1, <1>4, <2>1, <2>2
<1>8. CASE MoveAdapter(t)
  <2>1. /\ Step(t, "cleaning") /\ root' = [root EXCEPT !.adapter = "final"]
        /\ trainer[t].at = "renaming"
    BY <1>8 DEF MoveAdapter
  <2>2. root.by = t /\ root.manifest = "none"
    BY <2>1
  <2>3. root'.by = t /\ root'.manifest = "none" /\ root'.tensors = root.tensors
        /\ root'.adapter = "final" /\ root.adapter = "staged"
    BY <1>1, <1>8, <2>1, <2>2 DEF MoveAdapter
  <2>4. \A u \in Proc \ {t} : trainer[u].at \notin Claimed
    BY <2>2
  <2>5. root'.fate = root.fate /\ root.fate = "kept"
    BY <1>1, <2>1, <2>2
  <2>6. trainer'[t].at = "cleaning" /\ \A u \in Proc \ {t} : trainer'[u] = trainer[u]
    BY <1>4, <2>1
  <2> QED
    BY <1>5a, <2>1, <2>2, <2>3, <2>5, <2>6
<1>9. CASE RemoveStaging(t)
  <2>1. Step(t, "opening") /\ root' = [root EXCEPT !.work = FALSE] /\ trainer[t].at = "cleaning"
    BY <1>9 DEF RemoveStaging
  <2>2. root.by = t
    BY <2>1
  <2> QED
    BY <1>1, <1>4, <2>1, <2>2
<1>10. CASE OpenManifest(t)
  <2>1. Step(t, "writing") /\ root' = [root EXCEPT !.manifest = "torn"] /\ trainer[t].at = "opening"
    BY <1>10 DEF OpenManifest
  <2>2. root.by = t
    BY <2>1
  <2> QED
    BY <1>1, <1>4, <2>1, <2>2
<1>11. CASE WriteManifest(t)
  <2>1. /\ Step(t, "inspecting") /\ root' = [root EXCEPT !.manifest = "whole"]
        /\ trainer[t].at = "writing"
    BY <1>11 DEF WriteManifest
  <2>2. root.by = t
    BY <2>1
  <2> QED
    BY <1>1, <1>4, <2>1, <2>2
<1>12. CASE ClaimOutput(t) /\ root = NoRoot
  <2>1. Step(t, "staging") /\ root' = [NoRoot EXCEPT !.by = t]
    BY <1>12 DEF ClaimOutput
  <2>2. root' = [by |-> t, work |-> FALSE, adapter |-> "none", tensors |-> {}, manifest |-> "none",
                 fate |-> "kept"]
    BY <2>1 DEF NoRoot
  <2>3. \A u \in Proc : trainer[u].at \notin Claimed
    BY <1>12 DEF NoRoot
  <2> QED
    BY <1>1, <1>4, <1>12, <2>1, <2>2, <2>3 DEF NoRoot
<1>13. CASE ClaimOutput(t) /\ root # NoRoot
  <2>1. Step(t, "refused") /\ root' = root /\ trainer[t].at = "claiming"
    BY <1>13 DEF ClaimOutput
  <2> QED
    BY <1>1, <1>4, <2>1
<1>14. CASE FailToStage(t)
  <2>1. Step(t, "refused") /\ root' = root /\ trainer[t].at = "staging"
    BY <1>14 DEF FailToStage
  <2> QED
    BY <1>1, <1>4, <2>1
<1>15. CASE TrainAndSave(t)
  <2>1. Step(t, "rechecking") /\ trainer[t].at = "training"
    BY <1>15 DEF TrainAndSave
  <2>2. PICK saved \in Adapters : root' = [root EXCEPT !.adapter = "staged", !.tensors = saved]
    BY <1>15 DEF TrainAndSave
  <2>3. root.by = t /\ root.manifest = "none"
    BY <2>1
  <2>4. root'.by = t /\ root'.manifest = "none" /\ root'.tensors \in Adapters
        /\ root'.adapter = "staged" /\ root'.fate = root.fate /\ root.fate = "kept"
    BY <1>1, <2>1, <2>2, <2>3
  <2>5. trainer'[t].at = "rechecking" /\ \A u \in Proc \ {t} : trainer'[u] = trainer[u]
    BY <1>4, <2>1
  <2> QED
    BY <1>5a, <2>1, <2>3, <2>4, <2>5
<1>16. CASE Finish(t)
  <2>1. Step(t, "done") /\ root' = root /\ trainer[t].at = "inspecting"
    BY <1>16 DEF Finish
  <2> QED
    BY <1>1, <1>4, <2>1
<1>17. CASE FailTraining(t)
  <2>1. trainer[t].at \in Running \ {"staging", "removing"}
    BY <1>17 DEF FailTraining
  <2>2. CASE trainer[t].at \in Working /\ root.by = t
    <3>1. Step(t, "removing") /\ root' = [root EXCEPT !.fate = "doomed"]
      BY <1>17, <2>2 DEF FailTraining
    <3>2. /\ root'.by = t /\ root'.manifest = root.manifest /\ root'.adapter = root.adapter
          /\ root'.tensors = root.tensors /\ root'.fate = "doomed"
      BY <1>1, <2>2, <3>1
    <3>3. \A u \in Proc \ {t} : trainer[u].at \notin Claimed
      BY <2>2
    <3> QED
      BY <1>1, <1>4, <2>2, <3>1, <3>2, <3>3
  <2>3. CASE ~(trainer[t].at \in Working /\ root.by = t)
    <3>1. Step(t, "refused") /\ root' = root
      BY <1>17, <2>3 DEF FailTraining
    <3>2. root.by # t
      BY <2>1, <2>3 DEF Running
    <3> QED
      BY <1>1, <1>4, <2>1, <3>1, <3>2
  <2> QED
    BY <2>2, <2>3
<1>18. CASE RemoveEntry(t)
  <2>1. /\ trainer' = trainer /\ trainer[t].at = "removing"
        /\ root'.by = root.by /\ root'.fate = root.fate
        /\ root'.manifest \in {root.manifest, "none"}
        /\ \/ root'.adapter = root.adapter /\ root'.tensors = root.tensors
           \/ root'.adapter \in {"partial", "none"}
    BY <1>18, RemoveIs
  <2>2. root.by = t /\ root.fate = "doomed"
    BY <2>1
  <2>3. \A u \in Proc \ {t} : trainer[u].at \notin Claimed
    BY <2>2
  <2> QED
    BY <1>1, <2>1, <2>2, <2>3
<1>19. CASE RemovalEnds(t)
  <2>1. /\ Step(t, "refused") /\ (root' = root \/ root' = NoRoot)
        /\ trainer[t].at = "removing"
    BY <1>19 DEF RemovalEnds
  <2>2. root.by = t /\ root.fate = "doomed" /\ \A u \in Proc \ {t} : trainer[u].at \notin Claimed
    BY <2>1
  <2>3. CASE root' = root
    BY <1>1, <1>4, <2>1, <2>2, <2>3
  <2>4. CASE root' = NoRoot
    BY <1>1, <1>4, <2>1, <2>2, <2>4 DEF NoRoot
  <2> QED
    BY <2>1, <2>3, <2>4
<1>20. CASE KillTrainer(t)
  <2>1. Step(t, "killed") /\ root' = root /\ trainer[t].at \in Running
    BY <1>20 DEF KillTrainer
  <2> QED
    BY <1>1, <1>4, <2>1 DEF Running
<1> QED
  BY <1>3, <1>5, <1>6, <1>7, <1>8, <1>9, <1>10, <1>11, <1>12, <1>13, <1>14, <1>15,
     <1>16, <1>17, <1>18, <1>19, <1>20
  DEF TrainStep

-----------------------------------------------------------------------------
(* Inputs                                                                   *)

(* What a trainer knows of its inputs stays if it does nothing, its inputs  *)
(* are the same and no manifest appears in its name.                        *)
LEMMA InputsStay ==
    ASSUME NEW t \in Proc, InputsOf(t), trainer'[t] = trainer[t], disk'[Base] = disk[Base],
           Described(t)' => Described(t)
    PROVE  InputsOf(t)'
  BY DEF InputsOf, Past, BaseSeen, BaseLoaded, BaseSwapped, FrozenArePinned, ManifestNamesSplit,
         TrainerAt

LEMMA SamePredicates ==
    ASSUME NEW t \in Proc, disk' = disk,
           trainer'[t].pins = trainer[t].pins, trainer'[t].seen = trainer[t].seen,
           trainer'[t].frozen = trainer[t].frozen, trainer'[t].loaded = trainer[t].loaded
    PROVE  /\ BaseSeen(t)' = BaseSeen(t) /\ BaseLoaded(t)' = BaseLoaded(t)
           /\ BaseSwapped(t)' = BaseSwapped(t)
           /\ FrozenArePinned(t)' = FrozenArePinned(t)
           /\ ManifestNamesSplit(t)' = ManifestNamesSplit(t)
  BY DEF BaseSeen, BaseLoaded, BaseSwapped, FrozenArePinned, ManifestNamesSplit

(* What is verified is the pinned one.                                      *)
LEMMA VerifiedIs ==
    ASSUME NEW t \in Proc, NEW f \in Input, Verified(t, f)
    PROVE  /\ disk[f].content = trainer[t].pins[f]
           /\ f = Manifest => ManifestNamesSplit(t)
  BY InputAssumption
  DEF Verified, InputVerified, TreeVerified, SourceVerified, IsPinned, ManifestNamesSplit

LEMMA InputsStep ==
    ASSUME TrainingTypeOK, RootInv, InputsInv, NEW t \in Proc, TrainStep(t)
    PROVE  InputsInv'
<1> USE DEF Claimed, Published, Working, TrainerAt
<1>1. trainer \in [Proc -> TrainerState] /\ root \in OutputRoot /\ InputsOf(t)
  BY DEF TrainingTypeOK, InputsInv
<1>2. ASSUME NEW u \in Proc \ {t} PROVE InputsOf(u)'
  <2>1. trainer'[u] = trainer[u] /\ disk' = disk
    BY TrainStepIs
  <2>2. Described(u)' => Described(u)
    BY RootStep, FilesAssumption DEF Described, NoRoot
  <2> QED
    BY <2>1, <2>2, InputsStay DEF InputsInv
<1>3. SUFFICES InputsOf(t)'
  BY <1>2 DEF InputsInv
<1>4. Inputs \in Nat /\ Base \in Input /\ Manifest \in Input /\ Frozen \subseteq Input
      /\ Base \notin Frozen /\ Input \subseteq Nat /\ \A f \in Input : 1 <= f /\ f <= Inputs
  BY InputAssumption DEF Input
<1>5. trainer[t].at \notin Claimed \cup Terminal => ~Described(t)
  BY FilesAssumption DEF RootInv, Described, Terminal
<1>6. CASE Verify(t)
  <2> DEFINE f == trainer[t].next
  <2>1. /\ f \in Input /\ Verified(t, f) /\ trainer[t].at = "checking"
        /\ trainer'[t].at = "checking" /\ trainer'[t].next = f + 1
        /\ trainer'[t].seen = (IF f = Base THEN disk[f].writes ELSE trainer[t].seen)
        /\ trainer'[t].pins = trainer[t].pins
        /\ disk' = disk /\ root' = root
    BY <1>6, VerifyIs
  <2>2. ~Described(t)'
    BY <1>5, <2>1 DEF Described, Terminal
  <2>3. f \in Nat /\ Base \in Nat /\ Manifest \in Nat
    BY <1>4, <2>1
  <2>4. trainer'[t].next > Base => BaseSeen(t)'
    <3>1. CASE f = Base
      <4>1. disk[Base].content = trainer[t].pins[Base] /\ disk[Base].writes \in Nat
        BY <1>4, <2>1, <3>1, VerifiedIs DEF TrainingTypeOK
      <4> QED
        BY <2>1, <3>1, <4>1 DEF BaseSeen
    <3>2. CASE f # Base
      <4>1. f + 1 > Base => f > Base
        BY <2>3, <3>2
      <4>2. f > Base => BaseSeen(t)
        BY <1>1, <2>1 DEF InputsOf, Past
      <4>3. BaseSeen(t) => BaseSeen(t)'
        BY <2>1, <3>2 DEF BaseSeen
      <4> QED
        BY <2>1, <4>1, <4>2, <4>3
    <3> QED
      BY <3>1, <3>2
  <2>5. trainer'[t].next > Manifest => ManifestNamesSplit(t)'
    <3>1. ManifestNamesSplit(t)' = ManifestNamesSplit(t)
      BY <2>1 DEF ManifestNamesSplit
    <3>2. f = Manifest => ManifestNamesSplit(t)
      BY <2>1, VerifiedIs
    <3>3. f > Manifest => ManifestNamesSplit(t)
      BY <1>1, <2>1 DEF InputsOf, Past
    <3>4. f + 1 > Manifest => f = Manifest \/ f > Manifest
      BY <2>3
    <3> QED
      BY <2>1, <3>1, <3>2, <3>3, <3>4
  <2> QED
    BY <2>1, <2>2, <2>4, <2>5 DEF InputsOf, Past
<1>7. CASE Freeze(t)
  <2> DEFINE f == trainer[t].next
  <2>1. /\ f \in Input /\ trainer[t].at = "freezing"
        /\ f \in Frozen => disk[f].content = trainer[t].pins[f]
        /\ trainer'[t].at = "freezing" /\ trainer'[t].next = f + 1
        /\ trainer'[t].seen = trainer[t].seen /\ trainer'[t].pins = trainer[t].pins
        /\ f \in Frozen => trainer'[t].frozen[f] = disk[f].content
        /\ \A g \in Input \ {f} : trainer'[t].frozen[g] = trainer[t].frozen[g]
        /\ disk' = disk /\ root' = root
    BY <1>7, FreezeIs
  <2>2. ~Described(t)'
    BY <1>5, <2>1 DEF Described, Terminal
  <2>3. BaseSeen(t)' /\ ManifestNamesSplit(t)'
    BY <1>1, <2>1 DEF InputsOf, Past, BaseSeen, ManifestNamesSplit
  <2>4. ASSUME NEW g \in Frozen, g < f + 1 PROVE trainer'[t].frozen[g] = trainer[t].pins[g]
    <3>1. g < f => trainer[t].frozen[g] = trainer[t].pins[g]
      BY <1>1, <2>1 DEF InputsOf
    <3> QED
      BY <1>4, <2>1, <2>4, <3>1
  <2> QED
    BY <2>1, <2>2, <2>3, <2>4 DEF InputsOf, Past
<1>8. CASE LoadBase(t)
  <2>1. /\ trainer[t].at = "loading" /\ trainer'[t].at = "claiming"
        /\ trainer'[t].seen = trainer[t].seen /\ trainer'[t].pins = trainer[t].pins
        /\ trainer'[t].frozen = trainer[t].frozen /\ trainer'[t].loaded = disk[Base].content
        /\ disk' = disk /\ root' = root
    BY <1>8, LoadIs
  <2>2. ~Described(t)'
    BY <1>5, <2>1 DEF Described, Terminal
  <2>3. ManifestNamesSplit(t)' /\ FrozenArePinned(t)'
    BY <1>1, <2>1 DEF InputsOf, Past, FrozenArePinned, ManifestNamesSplit
  <2>4. BaseLoaded(t)'
    <3>1. BaseSeen(t) /\ disk[Base].writes \in Nat /\ trainer[t].seen \in Nat
      BY <1>1, <1>4, <2>1 DEF InputsOf, Past, TrainingTypeOK, TrainerState
    <3> QED
      BY <2>1, <3>1 DEF BaseSeen, BaseLoaded
  <2> QED
    BY <2>1, <2>2, <2>3, <2>4 DEF InputsOf, Past
<1>9. CASE Reverify(t)
  <2> DEFINE f == trainer[t].next
  <2>1. /\ f \in Input /\ Verified(t, f) /\ trainer[t].at = "rechecking"
        /\ trainer'[t].at = "rechecking" /\ trainer'[t].next = f + 1
        /\ trainer'[t].seen = trainer[t].seen /\ trainer'[t].pins = trainer[t].pins
        /\ trainer'[t].frozen = trainer[t].frozen /\ trainer'[t].loaded = trainer[t].loaded
        /\ disk' = disk /\ root' = root
    BY <1>9, ReverifyIs
  <2>2. ManifestNamesSplit(t) /\ FrozenArePinned(t) /\ BaseLoaded(t)
    BY <1>1, <2>1 DEF InputsOf, Past
  <2>3. trainer'[t].next > Base => BaseSwapped(t)
    <3>1. f = Base => BaseSwapped(t)
      <4>1. f = Base => disk[Base].content = trainer[t].pins[Base]
        BY <2>1, VerifiedIs
      <4>2. disk[Base].writes \in Nat /\ trainer[t].seen \in Nat
        BY <1>1, <1>4 DEF TrainingTypeOK, TrainerState
      <4> QED
        BY <2>2, <4>1, <4>2 DEF BaseLoaded, BaseSwapped
    <3>2. f > Base => BaseSwapped(t)
      BY <1>1, <2>1 DEF InputsOf, Past
    <3>3. f + 1 > Base => f = Base \/ f > Base
      <4>1. f \in Nat /\ Base \in Nat
        BY <1>4, <2>1
      <4> QED
        BY <4>1
    <3> QED
      BY <2>1, <3>1, <3>2, <3>3
  <2>4. ~Described(t)'
    BY <2>1 DEF Described, RootInv
  <2> QED
    BY <2>1, <2>2, <2>3, <2>4, SamePredicates DEF InputsOf, Past
<1>10. ASSUME NEW at \in Phase, Step(t, at), disk' = disk
       PROVE  /\ trainer'[t].at = at /\ trainer'[t].next = 1
              /\ BaseSeen(t)' = BaseSeen(t) /\ BaseLoaded(t)' = BaseLoaded(t)
              /\ BaseSwapped(t)' = BaseSwapped(t)
              /\ FrozenArePinned(t)' = FrozenArePinned(t)
              /\ ManifestNamesSplit(t)' = ManifestNamesSplit(t)
  BY <1>1, <1>10, StepIs, SamePredicates
<1>11. RootInv' /\ (root.manifest # "none" /\ root.by # t => root' = root)
  BY RootStep
<1> USE DEF Phase
<1>12. CASE StartFreezing(t)
  <2>1. Step(t, "freezing") /\ disk' = disk /\ root' = root
        /\ trainer[t].at = "checking" /\ trainer[t].next = Inputs + 1
    BY <1>12 DEF StartFreezing
  <2>2. trainer[t].next > Base /\ trainer[t].next > Manifest
    BY <1>4, <2>1
  <2>3. BaseSeen(t) /\ ManifestNamesSplit(t)
    BY <1>1, <2>1, <2>2 DEF InputsOf, Past
  <2>4. ~Described(t)'
    BY <1>5, <2>1 DEF Described, Terminal
  <2>5. \A g \in Frozen : ~ (g < 1)
    BY <1>4
  <2> QED
    BY <1>10, <2>1, <2>3, <2>4, <2>5 DEF InputsOf, Past
<1>13. CASE StartLoading(t)
  <2>1. Step(t, "loading") /\ disk' = disk /\ root' = root
        /\ trainer[t].at = "freezing" /\ trainer[t].next = Inputs + 1
    BY <1>13 DEF StartLoading
  <2>2. \A g \in Frozen : g < trainer[t].next
    BY <1>4, <2>1
  <2>3. BaseSeen(t) /\ ManifestNamesSplit(t) /\ FrozenArePinned(t)
    BY <1>1, <2>1, <2>2 DEF InputsOf, Past, FrozenArePinned
  <2>4. ~Described(t)'
    BY <1>5, <2>1 DEF Described, Terminal
  <2> QED
    BY <1>10, <2>1, <2>3, <2>4 DEF InputsOf, Past
<1>14. CASE MakeStaging(t)
  <2>1. Step(t, "training") /\ disk' = disk /\ trainer[t].at = "staging"
    BY <1>14 DEF MakeStaging
  <2>2. ManifestNamesSplit(t) /\ FrozenArePinned(t) /\ BaseLoaded(t)
    BY <1>1, <2>1 DEF InputsOf, Past
  <2>3. ~Described(t)'
    BY <1>11, <2>1, <1>14, <1>10 DEF MakeStaging, Described, RootInv, OutputRoot
  <2> QED
    BY <1>10, <2>1, <2>2, <2>3 DEF InputsOf, Past
<1>15. CASE FailToStage(t)
  <2>1. Step(t, "refused") /\ disk' = disk /\ trainer[t].at = "staging"
    BY <1>15 DEF FailToStage
  <2>2. ManifestNamesSplit(t) /\ FrozenArePinned(t) /\ BaseLoaded(t)
    BY <1>1, <2>1 DEF InputsOf, Past
  <2>3. ~Described(t)'
    BY <2>1, <1>15 DEF FailToStage, Described, RootInv
  <2> QED
    BY <1>10, <2>1, <2>2, <2>3 DEF InputsOf, Past
<1>16. CASE TrainAndSave(t)
  <2>1. Step(t, "rechecking") /\ disk' = disk /\ trainer[t].at = "training"
    BY <1>16 DEF TrainAndSave
  <2>2. ManifestNamesSplit(t) /\ FrozenArePinned(t) /\ BaseLoaded(t)
    BY <1>1, <2>1 DEF InputsOf, Past
  <2>3. ~Described(t)'
    BY <1>11, <2>1, <1>16, <1>10 DEF TrainAndSave, Described, RootInv, OutputRoot
  <2>4. ~ (1 > Base)
    BY <1>4
  <2> QED
    BY <1>10, <2>1, <2>2, <2>3, <2>4 DEF InputsOf, Past
<1>17. CASE StartPublishing(t)
  <2>1. Step(t, "renaming") /\ disk' = disk /\ root' = root
        /\ trainer[t].at = "rechecking" /\ trainer[t].next = Inputs + 1
    BY <1>17 DEF StartPublishing
  <2>2. trainer[t].next > Base
    BY <1>4, <2>1
  <2>3. ManifestNamesSplit(t) /\ FrozenArePinned(t) /\ BaseLoaded(t) /\ BaseSwapped(t)
    BY <1>1, <2>1, <2>2 DEF InputsOf, Past
  <2> QED
    BY <1>10, <2>1, <2>3 DEF InputsOf, Past
<1>18. CASE MoveAdapter(t)
  <2>1. Step(t, "cleaning") /\ disk' = disk /\ trainer[t].at = "renaming"
    BY <1>18 DEF MoveAdapter
  <2>2. ManifestNamesSplit(t) /\ FrozenArePinned(t) /\ BaseLoaded(t) /\ BaseSwapped(t)
    BY <1>1, <2>1 DEF InputsOf, Past
  <2> QED
    BY <1>10, <2>1, <2>2 DEF InputsOf, Past
<1>19. CASE RemoveStaging(t)
  <2>1. Step(t, "opening") /\ disk' = disk /\ trainer[t].at = "cleaning"
    BY <1>19 DEF RemoveStaging
  <2>2. ManifestNamesSplit(t) /\ FrozenArePinned(t) /\ BaseLoaded(t) /\ BaseSwapped(t)
    BY <1>1, <2>1 DEF InputsOf, Past
  <2> QED
    BY <1>10, <2>1, <2>2 DEF InputsOf, Past
<1>20. CASE OpenManifest(t)
  <2>1. Step(t, "writing") /\ disk' = disk /\ trainer[t].at = "opening"
    BY <1>20 DEF OpenManifest
  <2>2. ManifestNamesSplit(t) /\ FrozenArePinned(t) /\ BaseLoaded(t) /\ BaseSwapped(t)
    BY <1>1, <2>1 DEF InputsOf, Past
  <2> QED
    BY <1>10, <2>1, <2>2 DEF InputsOf, Past
<1>21. CASE WriteManifest(t)
  <2>1. Step(t, "inspecting") /\ disk' = disk /\ trainer[t].at = "writing"
    BY <1>21 DEF WriteManifest
  <2>2. ManifestNamesSplit(t) /\ FrozenArePinned(t) /\ BaseLoaded(t) /\ BaseSwapped(t)
    BY <1>1, <2>1 DEF InputsOf, Past
  <2> QED
    BY <1>10, <2>1, <2>2 DEF InputsOf, Past
<1>22. CASE Finish(t)
  <2>1. Step(t, "done") /\ disk' = disk /\ trainer[t].at = "inspecting"
    BY <1>22 DEF Finish
  <2>2. ManifestNamesSplit(t) /\ FrozenArePinned(t) /\ BaseLoaded(t) /\ BaseSwapped(t)
    BY <1>1, <2>1 DEF InputsOf, Past
  <2> QED
    BY <1>10, <2>1, <2>2 DEF InputsOf, Past
<1>23. CASE ClaimOutput(t)
  <2>1. /\ disk' = disk /\ trainer[t].at = "claiming"
        /\ (Step(t, "staging") \/ (Step(t, "refused") /\ root' = root))
    BY <1>23 DEF ClaimOutput
  <2>2. ManifestNamesSplit(t) /\ FrozenArePinned(t) /\ BaseLoaded(t) /\ ~Described(t)
    BY <1>1, <1>5, <2>1 DEF InputsOf, Past, Terminal
  <2>3. ~Described(t)'
    BY <1>10, <1>11, <2>1, <2>2 DEF Described, RootInv
  <2> QED
    BY <1>10, <2>1, <2>2, <2>3 DEF InputsOf, Past
<1>24. CASE FailTraining(t) \/ RemovalEnds(t) \/ KillTrainer(t)
  <2>1. PICK at \in {"removing", "refused", "killed"} : Step(t, at)
    BY <1>24 DEF FailTraining, RemovalEnds, KillTrainer
  <2>2. disk' = disk /\ trainer[t].at \in Running
    BY <1>24 DEF FailTraining, RemovalEnds, KillTrainer, TrainerAt, Running
  <2>3. at = "removing" => trainer[t].at \in Working
    BY <1>10, <1>24, <2>1, <2>2 DEF FailTraining, RemovalEnds, KillTrainer
  <2>4. Described(t)' => Described(t)
    <3>1. \/ root' = root \/ root' = NoRoot
          \/ root' = [root EXCEPT !.fate = "doomed"]
      BY <1>24 DEF FailTraining, RemovalEnds, KillTrainer
    <3>2. root' = NoRoot => ~Described(t)'
      BY DEF Described, NoRoot
    <3>3. root' = [root EXCEPT !.fate = "doomed"] =>
              root'.by = root.by /\ root'.manifest = root.manifest
      BY <1>1 DEF OutputRoot
    <3> QED
      BY <3>1, <3>2, <3>3 DEF Described
  <2>5. trainer'[t].at = at
    BY <1>10, <2>1, <2>2
  <2>6. /\ BaseLoaded(t)' = BaseLoaded(t)
        /\ BaseSwapped(t)' = BaseSwapped(t) /\ FrozenArePinned(t)' = FrozenArePinned(t)
        /\ ManifestNamesSplit(t)' = ManifestNamesSplit(t)
    BY <1>10, <2>1, <2>2
  <2>7. Described(t)' => FrozenArePinned(t)' /\ ManifestNamesSplit(t)' /\ BaseSwapped(t)'
    <3>1. Described(t) => FrozenArePinned(t) /\ ManifestNamesSplit(t) /\ BaseSwapped(t)
      BY <1>1 DEF InputsOf
    <3> QED
      BY <2>4, <2>6, <3>1
  <2>8. CASE at = "removing"
    <3>1. ManifestNamesSplit(t) /\ FrozenArePinned(t) /\ BaseLoaded(t)
      BY <1>1, <2>3, <2>8 DEF InputsOf, Past
    <3> QED
      BY <2>5, <2>6, <2>7, <2>8, <3>1 DEF InputsOf, Past
  <2>9. CASE at \in {"refused", "killed"}
    BY <2>5, <2>7, <2>9 DEF InputsOf, Past
  <2> QED
    BY <2>1, <2>8, <2>9
<1>25. CASE RemoveEntry(t)
  <2>1. /\ trainer' = trainer /\ disk' = disk /\ root'.by = root.by
        /\ root'.manifest \in {root.manifest, "none"}
    BY <1>25, RemoveIs
  <2>2. Described(t)' => Described(t)
    BY <2>1 DEF Described
  <2> QED
    BY <1>1, <2>1, <2>2, InputsStay
<1> QED
  BY <1>6, <1>7, <1>8, <1>9, <1>12, <1>13, <1>14, <1>15, <1>16, <1>17,
     <1>18, <1>19, <1>20, <1>21, <1>22, <1>23, <1>24, <1>25
  DEF TrainStep

-----------------------------------------------------------------------------
(* What the steps of an attempt do                                          *)

LEMMA MoveIs ==
    ASSUME attempt \in [Proc -> AttemptState], NEW t \in Proc, NEW at \in AttemptPhase,
           Move(t, at)
    PROVE  /\ attempt' \in [Proc -> AttemptState]
           /\ attempt'[t].at = at /\ attempt'[t].next = attempt[t].next
           /\ attempt'[t].corpus = attempt[t].corpus
           /\ \A u \in Proc \ {t} : attempt'[u] = attempt[u]
  BY DEF Move, AttemptState

LEMMA WriteIs ==
    ASSUME TrainingTypeOK, NEW f \in Input, NEW content \in Anything, WriteDisk(f, content)
    PROVE  /\ disk' \in [Input -> [content : Anything, writes : Nat]]
           /\ disk'[f].content = content /\ disk'[f].writes = disk[f].writes + 1
           /\ \A g \in Input \ {f} : disk'[g] = disk[g]
  BY DEF TrainingTypeOK, WriteDisk

LEMMA BeginIs ==
    ASSUME TrainingTypeOK, NEW t \in Proc, NEW pins \in [Input -> Anything],
           BeginTraining(t, pins)
    PROVE  /\ trainer' \in [Proc -> TrainerState]
           /\ trainer[t].at = "idle" /\ trainer'[t].at \in {"checking", "refused"}
           /\ trainer'[t].next = trainer[t].next /\ trainer'[t].pins = pins
           /\ \A u \in Proc \ {t} : trainer'[u] = trainer[u]
           /\ disk' = disk /\ root' = root
  BY DEF TrainingTypeOK, BeginTraining, TrainerState, TrainerAt, Phase

LEMMA PinsAreTyped ==
    ASSUME TrainingTypeOK
    PROVE  /\ PinsNow \in [Input -> Anything]
           /\ PinsNow[Train] = disk[Train].content /\ PinsNow[Manifest] = disk[Manifest].content
  BY ViewAssumption, InputAssumption DEF TrainingTypeOK, PinsNow, Anything

(* A view is begun where there is none, and described by who began it.      *)
LEMMA WriteViewIs ==
    ASSUME TypeOK, NEW t \in Proc, WriteView(t)
    PROVE  LET i == attempt[t].next IN
           /\ i \in View /\ view[i] = NoView
           /\ view'[i].records = t
           /\ \A j \in View \ {i} : view'[j] = view[j]
           /\ view' \in [View -> [records : Proc \cup {Missing}, manifest : Proc \cup {Missing}]]
<1> DEFINE i == attempt[t].next
<1>1. i \in View /\ view[i] = NoView /\ view' = [view EXCEPT ![i].records = t]
  BY DEF WriteView
<1>2. view \in [View -> [records : Proc \cup {Missing}, manifest : Proc \cup {Missing}]]
  BY DEF TypeOK
<1>3. /\ view'[i].records = t /\ \A j \in View \ {i} : view'[j] = view[j]
      /\ view' \in [View -> [records : Proc \cup {Missing}, manifest : Proc \cup {Missing}]]
  BY <1>1, <1>2
<1> QED
  BY <1>1, <1>3

LEMMA DescribeViewIs ==
    ASSUME TypeOK, NEW t \in Proc, DescribeView(t)
    PROVE  LET i == attempt[t].next IN
           /\ i \in View
           /\ view'[i].records = view[i].records /\ view'[i].manifest = t
           /\ \A j \in View \ {i} : view'[j] = view[j]
           /\ view' \in [View -> [records : Proc \cup {Missing}, manifest : Proc \cup {Missing}]]
           /\ attempt' \in [Proc -> AttemptState]
           /\ attempt[t].at = "deriving"
           /\ attempt'[t].at = "checked" /\ attempt'[t].next = i + 1
           /\ attempt'[t].corpus = attempt[t].corpus
           /\ \A u \in Proc \ {t} : attempt'[u] = attempt[u]
<1> DEFINE i == attempt[t].next
<1>1. i \in View /\ attempt[t].at = "deriving" /\ view' = [view EXCEPT ![i].manifest = t]
      /\ attempt' = [attempt EXCEPT ![t] = [attempt[t] EXCEPT !.at = "checked", !.next = i + 1]]
  BY DEF DescribeView, AttemptAt, TypeOK
<1>2. view \in [View -> [records : Proc \cup {Missing}, manifest : Proc \cup {Missing}]]
  BY DEF TypeOK
<1>3. /\ view'[i].records = view[i].records /\ view'[i].manifest = t
      /\ \A j \in View \ {i} : view'[j] = view[j]
      /\ view' \in [View -> [records : Proc \cup {Missing}, manifest : Proc \cup {Missing}]]
  BY <1>1, <1>2
<1>4. i + 1 \in Nat /\ attempt \in [Proc -> AttemptState]
  BY <1>1 DEF View, TypeOK
<1>5. /\ attempt' \in [Proc -> AttemptState]
      /\ attempt'[t].at = "checked" /\ attempt'[t].next = i + 1
      /\ attempt'[t].corpus = attempt[t].corpus
      /\ \A u \in Proc \ {t} : attempt'[u] = attempt[u]
  BY <1>1, <1>4 DEF AttemptState, AttemptPhase
<1> QED
  BY <1>1, <1>3, <1>5

LEMMA ReadCorpusIs ==
    ASSUME TypeOK, NEW t \in Proc, ReadCorpus(t)
    PROVE  /\ attempt' \in [Proc -> AttemptState]
           /\ attempt[t].at = "checked" /\ attempt[t].next = Views + 1
           /\ attempt'[t].at = "preparing" /\ attempt'[t].corpus = v1
           /\ \A u \in Proc \ {t} : attempt'[u] = attempt[u]
  BY DEF TypeOK, ReadCorpus, AttemptState, AttemptPhase, AttemptAt, Anything

-----------------------------------------------------------------------------
(* Types                                                                    *)

LEMMA TypeInit == Init => TypeOK
<1> SUFFICES ASSUME Init PROVE TypeOK
  OBVIOUS
<1> USE ViewAssumption, InputAssumption DEF Init, TrainingInit, Anything
<1>1. disk \in [Input -> [content : Anything, writes : Nat]]
  OBVIOUS
<1>2. NewTrainer \in TrainerState
  BY DEF NewTrainer, TrainerState, Phase
<1>3. root \in OutputRoot
  BY DEF NoRoot, OutputRoot
<1>4. TrainingTypeOK
  BY <1>1, <1>2, <1>3 DEF TrainingTypeOK
<1>5. attempt \in [Proc -> AttemptState]
  BY DEF AttemptState, AttemptPhase
<1>6. view \in [View -> [records : Proc \cup {Missing}, manifest : Proc \cup {Missing}]]
  BY DEF NoView
<1>7. report \in [by : Proc \cup {Missing}, train : Anything]
  BY DEF NoReport
<1> QED
  BY <1>4, <1>5, <1>6, <1>7 DEF TypeOK

LEMMA TypeStep ==
    ASSUME TypeOK, [Next]_vars
    PROVE  TypeOK'
<1>1. TrainingTypeOK /\ attempt \in [Proc -> AttemptState]
  BY DEF TypeOK
<1>2. ASSUME NEW t \in Proc, NEW at \in AttemptPhase, Move(t, at)
      PROVE  attempt' \in [Proc -> AttemptState]
  BY <1>1, <1>2, MoveIs
<1>3. ASSUME UNCHANGED trainingVars PROVE TrainingTypeOK'
  BY <1>1, <1>3 DEF TrainingTypeOK, trainingVars
<1>4. ASSUME NEW t \in Proc, Launch(t) PROVE TypeOK'
  BY <1>3, <1>4 DEF TypeOK, Launch
<1>5. ASSUME NEW t \in Proc, CheckPins(t) PROVE TypeOK'
  BY <1>2, <1>3, <1>5 DEF TypeOK, CheckPins, AttemptPhase
<1>6. ASSUME NEW t \in Proc, WriteView(t) PROVE TypeOK'
  BY <1>2, <1>3, <1>6, WriteViewIs DEF TypeOK, WriteView, AttemptPhase
<1>7. ASSUME NEW t \in Proc, DescribeView(t) PROVE TypeOK'
  BY <1>3, <1>7, DescribeViewIs DEF TypeOK, DescribeView
<1>8. ASSUME NEW t \in Proc, ReadCorpus(t) PROVE TypeOK'
  BY <1>3, <1>8, ReadCorpusIs DEF TypeOK, ReadCorpus
<1>9. ASSUME NEW t \in Proc, WriteSplit(t) PROVE TypeOK'
  <2>1. disk' \in [Input -> [content : Anything, writes : Nat]]
    <3>1. Train \in Input /\ attempt[t].corpus \in Anything
      BY <1>1, InputAssumption DEF AttemptState
    <3> QED
      BY <1>1, <1>9, <3>1, WriteIs DEF WriteSplit
  <2> QED
    BY <1>2, <1>9, <2>1 DEF TypeOK, TrainingTypeOK, WriteSplit, AttemptPhase
<1>10. ASSUME NEW t \in Proc, WriteCatalogue(t) PROVE TypeOK'
  <2>1. disk' \in [Input -> [content : Anything, writes : Nat]]
    <3>1. Manifest \in Input /\ disk[Train].content \in Anything
      BY <1>1, InputAssumption DEF TrainingTypeOK
    <3> QED
      BY <1>1, <1>10, <3>1, WriteIs DEF WriteCatalogue
  <2> QED
    BY <1>2, <1>10, <2>1 DEF TypeOK, TrainingTypeOK, WriteCatalogue, AttemptPhase
<1>11. ASSUME NEW t \in Proc, WriteReport(t) PROVE TypeOK'
  <2>1. disk[Train].content \in Anything
    BY <1>1, InputAssumption DEF TrainingTypeOK
  <2> QED
    BY <1>2, <1>3, <1>11, <2>1 DEF TypeOK, WriteReport, AttemptPhase
<1>12. ASSUME NEW t \in Proc, StartTraining(t) PROVE TypeOK'
  <2>1. TrainingTypeOK'
    BY <1>1, <1>12, PinsAreTyped, BeginIs DEF StartTraining, TrainingTypeOK
  <2> QED
    BY <1>2, <1>12, <2>1 DEF TypeOK, StartTraining, AttemptPhase
<1>13. ASSUME NEW t \in Proc, TrainV2(t) PROVE TypeOK'
  BY <1>1, <1>13, TrainStepIs DEF TypeOK, TrainV2, runVars
<1>14. ASSUME NEW t \in Proc, EndAttempt(t) PROVE TypeOK'
  BY <1>2, <1>3, <1>14 DEF TypeOK, EndAttempt, AttemptPhase
<1>15. ASSUME NEW t \in Proc, EndJob(t) PROVE TypeOK'
  BY <1>3, <1>15 DEF TypeOK, EndJob
<1>16. ASSUME NEW t \in Proc, CleanUp(t) PROVE TypeOK'
  <2>1. TrainingTypeOK'
    <3>1. disk' \in [Input -> [content : Anything, writes : Nat]]
      BY <1>1, <1>16 DEF CleanUp, TrainingTypeOK, Anything
    <3>2. root' \in OutputRoot
      BY <1>1, <1>16 DEF CleanUp, TrainingTypeOK, NoRoot, OutputRoot
    <3> QED
      BY <1>1, <1>16, <3>1, <3>2 DEF CleanUp, TrainingTypeOK
  <2>2. view' \in [View -> [records : Proc \cup {Missing}, manifest : Proc \cup {Missing}]]
    BY <1>16 DEF TypeOK, CleanUp, NoView
  <2>3. report' \in [by : Proc \cup {Missing}, train : Anything]
    BY <1>16 DEF TypeOK, CleanUp, NoReport, Anything
  <2>4. split' \in [train : Proc \cup {Missing}, manifest : Proc \cup {Missing}]
    BY <1>16 DEF TypeOK, CleanUp
  <2> QED
    BY <1>16, <2>1, <2>2, <2>3, <2>4 DEF TypeOK, CleanUp
<1>17. ASSUME NEW f \in Input, NEW content \in Content, WriteInput(f, content) PROVE TypeOK'
  <2>1. disk' \in [Input -> [content : Anything, writes : Nat]]
    BY <1>1, <1>17, WriteIs DEF WriteInput, Anything
  <2> QED
    BY <1>17, <2>1 DEF TypeOK, TrainingTypeOK, WriteInput, Others
<1>18. ASSUME NEW content \in Content, WriteV1(content) PROVE TypeOK'
  BY <1>3, <1>18 DEF TypeOK, WriteV1, Others
<1>19. CASE UNCHANGED vars
  BY <1>3, <1>19 DEF TypeOK, vars, runVars
<1> QED
  BY <1>4, <1>5, <1>6, <1>7, <1>8, <1>9, <1>10, <1>11, <1>12, <1>13, <1>14, <1>15, <1>16, <1>17,
     <1>18, <1>19
  DEF Next, AttemptStep

-----------------------------------------------------------------------------
(* The training within the attempt                                          *)

LEMMA RunningTrains ==
    ASSUME NEW t \in Proc, TrainStep(t)
    PROVE  trainer[t].at \in Running
  BY DEF TrainStep, Verify, StartFreezing, Freeze, StartLoading, LoadBase, ClaimOutput,
         MakeStaging, FailToStage, TrainAndSave, Reverify, StartPublishing, MoveAdapter,
         RemoveStaging, OpenManifest, WriteManifest, Finish, FailTraining, RemoveEntry,
         RemovalEnds, KillTrainer, TrainerAt, Running, Phase

LEMMA TrainingStays ==
    ASSUME RootInv, InputsInv, trainer' = trainer, root' = root, disk'[Base] = disk[Base]
    PROVE  RootInv' /\ InputsInv'
<1>1. RootInv'
  BY DEF RootInv, TrainerAt
<1>2. ASSUME NEW t \in Proc PROVE InputsOf(t)'
  <2>1. Described(t)' => Described(t)
    BY DEF Described
  <2> QED
    BY <2>1, InputsStay DEF InputsInv
<1> QED
  BY <1>1, <1>2 DEF InputsInv

(* A write to the base model is one more.                                   *)
LEMMA BaseWritten ==
    ASSUME TrainingTypeOK, InputsInv, RootInv, trainer' = trainer, root' = root,
           disk'[Base].writes = disk[Base].writes + 1
    PROVE  RootInv' /\ InputsInv'
<1>1. RootInv'
  BY DEF RootInv, TrainerAt
<1>2. ASSUME NEW t \in Proc PROVE InputsOf(t)'
  <2>1. disk[Base].writes \in Nat /\ trainer[t].seen \in Nat
    BY InputAssumption DEF TrainingTypeOK, TrainerState
  <2>2. BaseSeen(t) => BaseSeen(t)'
    BY <2>1 DEF BaseSeen
  <2>3. BaseLoaded(t) => BaseLoaded(t)'
    BY <2>1 DEF BaseLoaded
  <2>4. BaseSwapped(t) => BaseSwapped(t)'
    BY <2>1 DEF BaseSwapped
  <2>5. FrozenArePinned(t)' = FrozenArePinned(t) /\ ManifestNamesSplit(t)' = ManifestNamesSplit(t)
    BY DEF FrozenArePinned, ManifestNamesSplit
  <2>6. InputsOf(t)
    BY DEF InputsInv
  <2> QED
    BY <2>2, <2>3, <2>4, <2>5, <2>6 DEF InputsOf, Past, TrainerAt, Described
<1> QED
  BY <1>1, <1>2 DEF InputsInv

(* A job that ended has no trainer that goes on.                            *)
LEMMA EndedIsIdle ==
    ASSUME AttemptInv, NEW t \in Proc, JobEnded(t)
    PROVE  trainer[t].at \in {"idle"} \cup Terminal
  BY DEF AttemptInv, Ended, AttemptAt, NewTrainer, Terminal

LEMMA TrainingInvStep ==
    ASSUME TypeOK, RootInv, InputsInv, AttemptInv, [Next]_vars
    PROVE  RootInv' /\ InputsInv'
<1>1. TrainingTypeOK /\ Train \in Input /\ Manifest \in Input /\ Base \in Input
      /\ Base # Train /\ Base # Manifest
  BY InputAssumption DEF TypeOK
<1>2. ASSUME UNCHANGED trainingVars PROVE RootInv' /\ InputsInv'
  BY <1>2, TrainingStays DEF trainingVars
<1>3. ASSUME NEW t \in Proc,
             \/ Launch(t) \/ CheckPins(t) \/ WriteView(t) \/ DescribeView(t) \/ ReadCorpus(t)
             \/ WriteReport(t) \/ EndAttempt(t) \/ EndJob(t)
      PROVE  RootInv' /\ InputsInv'
  BY <1>2, <1>3
  DEF Launch, CheckPins, WriteView, DescribeView, ReadCorpus, WriteReport, EndAttempt, EndJob
<1>4. ASSUME NEW t \in Proc, WriteSplit(t) PROVE RootInv' /\ InputsInv'
  <2>1. disk'[Base] = disk[Base]
    BY <1>1, <1>4 DEF WriteSplit, WriteDisk, TrainingTypeOK
  <2> QED
    BY <1>4, <2>1, TrainingStays DEF WriteSplit
<1>5. ASSUME NEW t \in Proc, WriteCatalogue(t) PROVE RootInv' /\ InputsInv'
  <2>1. disk'[Base] = disk[Base]
    BY <1>1, <1>5 DEF WriteCatalogue, WriteDisk, TrainingTypeOK
  <2> QED
    BY <1>5, <2>1, TrainingStays DEF WriteCatalogue
<1>6. ASSUME NEW t \in Proc, StartTraining(t) PROVE RootInv' /\ InputsInv'
  <2>1. /\ trainer[t].at = "idle" /\ trainer'[t].at \in {"checking", "refused"}
        /\ trainer'[t].next = trainer[t].next
        /\ \A u \in Proc \ {t} : trainer'[u] = trainer[u]
        /\ disk' = disk /\ root' = root
    BY <1>1, <1>6, PinsAreTyped, BeginIs DEF StartTraining
  <2>2. trainer[t].next = 1 /\ ~ (1 > Base) /\ ~ (1 > Manifest)
    <3>1. trainer[t] = NewTrainer
      BY <1>6 DEF AttemptInv, StartTraining, AttemptAt
    <3>2. Base \in Nat /\ Base >= 1 /\ Manifest \in Nat /\ Manifest >= 1
      BY <1>1, InputAssumption DEF Input
    <3> QED
      BY <3>1, <3>2 DEF NewTrainer
  <2>3. root.by # t
    BY <2>1, FilesAssumption DEF RootInv, Claimed, Working, Terminal
  <2>4. root.by # Missing => root.by \in Proc
    BY <1>1 DEF TrainingTypeOK, OutputRoot
  <2>5. RootInv'
    BY <2>1, <2>3, <2>4 DEF RootInv, TrainerAt, Claimed, Working, Terminal, Published
  <2>6. InputsOf(t)'
    BY <2>1, <2>2, <2>3 DEF InputsOf, Past, TrainerAt, Claimed, Working, Published, Described
  <2>7. ASSUME NEW u \in Proc \ {t} PROVE InputsOf(u)'
    <3>1. Described(u)' => Described(u)
      BY <2>1 DEF Described
    <3> QED
      BY <2>1, <3>1, InputsStay DEF InputsInv
  <2> QED
    BY <2>5, <2>6, <2>7 DEF InputsInv
<1>7. ASSUME NEW t \in Proc, TrainV2(t) PROVE RootInv' /\ InputsInv'
  BY <1>1, <1>7, RootStep, InputsStep DEF TrainV2
<1>8. ASSUME NEW t \in Proc, CleanUp(t) PROVE RootInv' /\ InputsInv'
  <2>1. /\ trainer' = trainer /\ disk'[Base] = disk[Base]
        /\ root' = (IF root.by = t THEN NoRoot ELSE root)
    BY <1>1, <1>8 DEF CleanUp
  <2>2. CASE root.by # t
    BY <2>1, <2>2, TrainingStays
  <2>3. CASE root.by = t
    <3>1. JobEnded(t)
      BY <1>8 DEF CleanUp, JobEnded
    <3>2. trainer[t].at \notin Claimed
      BY <3>1, EndedIsIdle DEF Claimed, Working, Terminal
    <3>3. \A u \in Proc : trainer[u].at \notin Claimed
      BY <2>3, <3>2 DEF RootInv
    <3>4. RootInv'
      BY <2>1, <2>3, <3>3
      DEF RootInv, NoRoot, TrainerAt, Claimed, Working, Published
    <3>5. ASSUME NEW u \in Proc PROVE InputsOf(u)'
      <4>1. ~Described(u)'
        BY <2>1, <2>3 DEF Described, NoRoot
      <4> QED
        BY <2>1, <4>1, InputsStay DEF InputsInv
    <3> QED
      BY <3>4, <3>5 DEF InputsInv
  <2> QED
    BY <2>2, <2>3
<1>9. ASSUME NEW f \in Input, NEW content \in Content, WriteInput(f, content)
      PROVE  RootInv' /\ InputsInv'
  <2>1. /\ trainer' = trainer /\ root' = root
        /\ disk'[f].writes = disk[f].writes + 1 /\ \A g \in Input \ {f} : disk'[g] = disk[g]
    BY <1>1, <1>9, WriteIs DEF WriteInput, Anything
  <2>2. CASE f = Base
    BY <1>1, <2>1, <2>2, BaseWritten
  <2>3. CASE f # Base
    BY <1>1, <2>1, <2>3, TrainingStays
  <2> QED
    BY <2>2, <2>3
<1>10. ASSUME NEW content \in Content, WriteV1(content) PROVE RootInv' /\ InputsInv'
  BY <1>2, <1>10 DEF WriteV1
<1>11. CASE UNCHANGED vars
  BY <1>2, <1>11 DEF vars
<1> QED
  BY <1>3, <1>4, <1>5, <1>6, <1>7, <1>8, <1>9, <1>10, <1>11 DEF Next, AttemptStep

-----------------------------------------------------------------------------
(* Attempts and their jobs                                                  *)

LEMMA AttemptInvStep ==
    ASSUME TypeOK, AttemptInv, [Next]_vars
    PROVE  AttemptInv'
<1> USE DEF AttemptInv, JobEnded, Ended, AttemptAt, TrainerAt
<1>1. attempt \in [Proc -> AttemptState] /\ TrainingTypeOK
      /\ job \in [Proc -> {"none", "running", "succeeded", "failed"}] /\ v1 \in Content
  BY DEF TypeOK
<1>2. ASSUME NEW t \in Proc, Launch(t) PROVE AttemptInv'
  BY <1>1, <1>2 DEF Launch, trainingVars
<1>3. ASSUME NEW t \in Proc, NEW at \in AttemptPhase \ {"idle", "preparing", "training"},
             Move(t, at), attempt[t].at \notin {"training", "over"}, job[t] # "none",
             trainer' = trainer, job' = job
      PROVE  AttemptInv'
  <2>1. /\ attempt'[t].at = at /\ \A u \in Proc \ {t} : attempt'[u] = attempt[u]
    BY <1>1, <1>3, MoveIs
  <2>2. ~JobEnded(t)
    BY <1>3
  <2> QED
    BY <1>1, <1>3, <2>1, <2>2
<1>4. ASSUME NEW t \in Proc, attempt[t].at # "idle" PROVE job[t] # "none"
  BY <1>4
<1>5. ASSUME NEW t \in Proc,
             \/ CheckPins(t) \/ WriteView(t) \/ WriteSplit(t) \/ WriteCatalogue(t)
             \/ WriteReport(t) \/ EndAttempt(t)
      PROVE  AttemptInv'
  <2> USE DEF AttemptPhase, trainingVars
  <2>1. CASE CheckPins(t)
    BY <1>3, <2>1 DEF CheckPins
  <2>2. CASE WriteView(t)
    BY <1>3, <1>4, <2>2 DEF WriteView
  <2>3. CASE WriteSplit(t)
    BY <1>3, <1>4, <2>3 DEF WriteSplit
  <2>4. CASE WriteCatalogue(t)
    BY <1>3, <1>4, <2>4 DEF WriteCatalogue
  <2>5. CASE WriteReport(t)
    BY <1>3, <1>4, <2>5 DEF WriteReport
  <2>6. CASE EndAttempt(t)
    BY <1>3, <2>6 DEF EndAttempt
  <2> QED
    BY <1>5, <2>1, <2>2, <2>3, <2>4, <2>5, <2>6
<1>6. ASSUME NEW t \in Proc, DescribeView(t) PROVE AttemptInv'
  <2>1. /\ attempt[t].at = "deriving" /\ attempt'[t].at = "checked"
        /\ \A u \in Proc \ {t} : attempt'[u] = attempt[u]
        /\ trainer' = trainer /\ job' = job
    BY <1>6, DescribeViewIs DEF DescribeView, trainingVars
  <2> QED
    BY <1>1, <2>1
<1>7. ASSUME NEW t \in Proc, ReadCorpus(t) PROVE AttemptInv'
  <2>1. /\ attempt[t].at = "checked" /\ attempt'[t].at = "preparing"
        /\ attempt'[t].corpus = v1
        /\ \A u \in Proc \ {t} : attempt'[u] = attempt[u]
        /\ trainer' = trainer /\ job' = job
    BY <1>7, ReadCorpusIs DEF ReadCorpus, trainingVars
  <2> QED
    BY <1>1, <2>1
<1>8. ASSUME NEW t \in Proc, StartTraining(t) PROVE AttemptInv'
  <2>1. /\ attempt[t].at = "pinning" /\ attempt'[t].at = "training" /\ job' = job
        /\ \A u \in Proc \ {t} : attempt'[u] = attempt[u]
    BY <1>1, <1>8, MoveIs DEF StartTraining, AttemptPhase
  <2>2. \A u \in Proc \ {t} : trainer'[u] = trainer[u]
    BY <1>1, <1>8, PinsAreTyped, BeginIs DEF StartTraining
  <2> QED
    BY <1>1, <2>1, <2>2
<1>9. ASSUME NEW t \in Proc, TrainV2(t) PROVE AttemptInv'
  <2>1. /\ attempt[t].at = "training" /\ attempt' = attempt /\ job' = job
        /\ \A u \in Proc \ {t} : trainer'[u] = trainer[u]
    BY <1>1, <1>9, TrainStepIs DEF TrainV2, runVars
  <2>2. ~JobEnded(t)
    BY <1>9, <2>1, RunningTrains DEF TrainV2, Running
  <2> QED
    BY <1>1, <2>1, <2>2
<1>10. ASSUME NEW t \in Proc, EndJob(t) PROVE AttemptInv'
  <2>1. /\ Ended(t) /\ job[t] = "running" /\ trainer' = trainer /\ attempt' = attempt
        /\ job'[t] \in {"succeeded", "failed"} /\ \A u \in Proc \ {t} : job'[u] = job[u]
    BY <1>1, <1>10 DEF EndJob, trainingVars
  <2> QED
    BY <1>1, <2>1
<1>11. ASSUME NEW t \in Proc, CleanUp(t) PROVE AttemptInv'
  BY <1>11 DEF CleanUp
<1>12. ASSUME NEW f \in Input, NEW content \in Content, WriteInput(f, content) PROVE AttemptInv'
  BY <1>12 DEF WriteInput
<1>13. ASSUME NEW content \in Content, WriteV1(content) PROVE AttemptInv'
  BY <1>13 DEF WriteV1, trainingVars
<1>14. CASE UNCHANGED vars
  BY <1>14 DEF vars, runVars, trainingVars
<1> QED
  BY <1>2, <1>5, <1>6, <1>7, <1>8, <1>9, <1>10, <1>11, <1>12, <1>13, <1>14
  DEF Next, AttemptStep

-----------------------------------------------------------------------------
(* What an attempt has written                                              *)

LEMMA ActiveHolds ==
    ASSUME AttemptInv, NEW t \in Proc,
           \/ attempt[t].at \notin {"training", "over"}
           \/ attempt[t].at = "training" /\ trainer[t].at \in Running
    PROVE  Holding(t) /\ ~JobEnded(t)
  BY DEF AttemptInv, Ended, AttemptAt, JobEnded, Holding, Running

(* Nobody begins to hold.                                                   *)
LEMMA HoldingBefore ==
    ASSUME TypeOK, RootInv, AttemptInv, [Next]_vars, NEW u \in Proc, Holding(u)'
    PROVE  Holding(u)
<1> USE DEF Holding
<1>1. ASSUME UNCHANGED <<root, job>> PROVE Holding(u)
  BY <1>1
<1>2. ASSUME NEW t \in Proc, AttemptStep(t), ~TrainV2(t), ~Launch(t), ~EndJob(t)
      PROVE  Holding(u)
  <2>1. UNCHANGED <<root, job>>
    BY <1>2
    DEF AttemptStep, CheckPins, WriteView, DescribeView, ReadCorpus, WriteSplit, WriteCatalogue,
        WriteReport, StartTraining, BeginTraining, EndAttempt, trainingVars
  <2> QED
    BY <1>1, <2>1
<1>3. ASSUME NEW t \in Proc, TrainV2(t) PROVE Holding(u)
  <2>1. job' = job /\ attempt[t].at = "training" /\ trainer[t].at \in Running /\ TrainStep(t)
    BY <1>3, RunningTrains DEF TrainV2, runVars, AttemptAt
  <2>2. Holding(t)
    BY <2>1, ActiveHolds
  <2>3. u # t => (root'.by = u => root.by = u)
    BY <2>1, RootStep, FilesAssumption DEF TypeOK, NoRoot
  <2> QED
    BY <2>1, <2>2, <2>3
<1>4. ASSUME NEW t \in Proc, Launch(t) \/ EndJob(t) PROVE Holding(u)
  <2>1. root' = root /\ job[t] # "failed" /\ \A v \in Proc \ {t} : job'[v] = job[v]
    BY <1>4 DEF Launch, EndJob, trainingVars, TypeOK
  <2> QED
    BY <2>1
<1>5. ASSUME NEW t \in Proc, CleanUp(t) PROVE Holding(u)
  <2>1. job' = job /\ (root' = root \/ root' = NoRoot)
    BY <1>5 DEF CleanUp
  <2> QED
    BY <2>1, FilesAssumption DEF NoRoot
<1>6. ASSUME NEW f \in Input, NEW content \in Content, WriteInput(f, content) PROVE Holding(u)
  BY <1>1, <1>6 DEF WriteInput
<1>7. ASSUME NEW content \in Content, WriteV1(content) PROVE Holding(u)
  BY <1>1, <1>7 DEF WriteV1, trainingVars
<1>8. CASE UNCHANGED vars
  BY <1>1, <1>8 DEF vars, runVars, trainingVars
<1> QED
  BY <1>2, <1>3, <1>4, <1>5, <1>6, <1>7, <1>8 DEF Next

(* What an attempt wrote stays if others touch only what is not its own.    *)
LEMMA HeldStays ==
    ASSUME NEW u \in Proc, Held(u), attempt'[u] = attempt[u],
           \A i \in View : view[i].records = u => view'[i] = view[i],
           split.train = u => split' = split \/ (split.manifest # u /\ split'.train = u),
           report.by = u => report' = report
    PROVE  Held(u)'
<1> DEFINE at == attempt[u].at
<1>1. \A i \in View : Wrote(u, i) => Wrote(u, i)'
  BY DEF Wrote
<1>2. at = "deriving" => /\ attempt[u].next \in View
                         /\ view'[attempt[u].next].records = u
  BY DEF Held
<1>3. at \in WithSplit => split'.train = u
  BY DEF Held
<1>4. at \in WithCatalogue => split'.manifest = u
  BY DEF Held, WithSplit
<1>5. at \in WithReport => report'.by = u
  BY DEF Held
<1> QED
  BY <1>1, <1>2, <1>3, <1>4, <1>5 DEF Held

LEMMA HoldStep ==
    ASSUME TypeOK, RootInv, AttemptInv, SplitInv, HoldInv, [Next]_vars
    PROVE  HoldInv'
<1> USE FilesAssumption DEF WithViews, WithSplit, WithCatalogue, WithReport
<1>1. attempt \in [Proc -> AttemptState] /\ TrainingTypeOK
      /\ view \in [View -> [records : Proc \cup {Missing}, manifest : Proc \cup {Missing}]]
      /\ split \in [train : Proc \cup {Missing}, manifest : Proc \cup {Missing}]
      /\ report \in [by : Proc \cup {Missing}, train : Anything]
  BY DEF TypeOK
<1> SUFFICES ASSUME NEW u \in Proc, Holding(u)' PROVE Held(u)'
  BY DEF HoldInv
<1>2. Held(u)
  BY HoldingBefore DEF HoldInv
<1>3. ASSUME UNCHANGED <<view, split, report>>, attempt'[u] = attempt[u] PROVE Held(u)'
  BY <1>2, <1>3, HeldStays
<1>4. ASSUME NEW t \in Proc, attempt[t].at \notin {"training", "over"} PROVE Held(t)
  BY <1>4, ActiveHolds DEF HoldInv
<1>5. ASSUME NEW t \in Proc, Launch(t) \/ EndJob(t) PROVE Held(u)'
  BY <1>3, <1>5 DEF Launch, EndJob
<1>6. ASSUME NEW t \in Proc, CheckPins(t) PROVE Held(u)'
  <2>1. UNCHANGED <<view, split, report>> /\ attempt[t].at = "idle" /\ Move(t, "checked")
        /\ attempt[t] = [at |-> "idle", next |-> attempt[t].next, corpus |-> attempt[t].corpus]
    BY <1>1, <1>6 DEF CheckPins, AttemptAt, AttemptState
  <2>2. attempt'[t].at = "checked" /\ attempt'[t].next = attempt[t].next
        /\ \A v \in Proc \ {t} : attempt'[v] = attempt[v]
    BY <1>1, <2>1, MoveIs DEF AttemptPhase
  <2>3. attempt[t].next = 1
    BY <2>1 DEF AttemptInv, AttemptAt
  <2>4. \A i \in View : ~ (i < 1)
    BY DEF View
  <2>5. CASE u = t
    BY <2>2, <2>3, <2>4, <2>5 DEF Held
  <2>6. CASE u # t
    BY <1>3, <2>1, <2>2, <2>6
  <2> QED
    BY <2>5, <2>6
<1>7. ASSUME NEW t \in Proc, WriteView(t) PROVE Held(u)'
  <2> DEFINE n == attempt[t].next
  <2>1. /\ n \in View /\ view[n] = NoView /\ view'[n].records = t
        /\ \A j \in View \ {n} : view'[j] = view[j]
    BY <1>7, WriteViewIs
  <2>2. /\ attempt[t].at = "checked" /\ attempt'[t].at = "deriving" /\ attempt'[t].next = n
        /\ \A v \in Proc \ {t} : attempt'[v] = attempt[v]
        /\ UNCHANGED <<split, report>>
    BY <1>1, <1>7, MoveIs DEF WriteView, AttemptAt, AttemptPhase
  <2>3. CASE u # t
    <3>1. \A i \in View : view[i].records = u => view'[i] = view[i]
      BY <2>1 DEF NoView
    <3> QED
      BY <1>2, <2>2, <2>3, <3>1, HeldStays
  <2>4. CASE u = t
    <3>1. \A i \in View : i < n => Wrote(t, i)
      BY <1>4, <2>2 DEF Held
    <3>2. \A i \in View : i < n => i # n
      BY DEF View
    <3>3. \A i \in View : i < n => Wrote(t, i)'
      BY <2>1, <3>1, <3>2 DEF Wrote
    <3> QED
      BY <2>1, <2>2, <2>4, <3>3 DEF Held
  <2> QED
    BY <2>3, <2>4
<1>8. ASSUME NEW t \in Proc, DescribeView(t) PROVE Held(u)'
  <2> DEFINE n == attempt[t].next
  <2>1. /\ n \in View /\ view'[n].records = view[n].records /\ view'[n].manifest = t
        /\ \A j \in View \ {n} : view'[j] = view[j]
        /\ view' \in [View -> [records : Proc \cup {Missing}, manifest : Proc \cup {Missing}]]
        /\ attempt[t].at = "deriving" /\ attempt'[t].at = "checked" /\ attempt'[t].next = n + 1
        /\ \A v \in Proc \ {t} : attempt'[v] = attempt[v]
    BY <1>8, DescribeViewIs
  <2>2. UNCHANGED <<split, report>>
    BY <1>8 DEF DescribeView
  <2>3. view[n].records = t /\ \A i \in View : i < n => Wrote(t, i)
    BY <1>4, <2>1 DEF Held
  <2>4. CASE u # t
    <3>1. \A i \in View : view[i].records = u => view'[i] = view[i]
      BY <2>1, <2>3, <2>4
    <3> QED
      BY <1>2, <2>1, <2>2, <2>4, <3>1, HeldStays
  <2>5. CASE u = t
    <3>1. \A i \in View : i < n + 1 => i < n \/ i = n
      BY <2>1 DEF View
    <3>2. \A i \in View : i < n => i # n
      BY DEF View
    <3>3. view'[n] = [records |-> t, manifest |-> t]
      BY <2>1, <2>3
    <3>4. \A i \in View : i < n => Wrote(t, i)'
      BY <2>1, <2>3, <3>2 DEF Wrote
    <3>5. \A i \in View : i < n + 1 => Wrote(t, i)'
      BY <3>1, <3>3, <3>4 DEF Wrote
    <3> QED
      BY <2>1, <2>5, <3>5 DEF Held
  <2> QED
    BY <2>4, <2>5
<1>9. ASSUME NEW t \in Proc, ReadCorpus(t) PROVE Held(u)'
  <2>1. /\ attempt[t].at = "checked" /\ attempt[t].next = Views + 1
        /\ attempt'[t].at = "preparing"
        /\ \A v \in Proc \ {t} : attempt'[v] = attempt[v]
        /\ UNCHANGED <<view, split, report>>
    BY <1>9, ReadCorpusIs DEF ReadCorpus
  <2>2. CASE u # t
    BY <1>3, <2>1, <2>2
  <2>3. CASE u = t
    <3>1. \A i \in View : i < Views + 1
      BY ViewAssumption DEF View
    <3>2. \A i \in View : Wrote(t, i)
      BY <1>4, <2>1, <3>1 DEF Held
    <3> QED
      BY <2>1, <2>3, <3>2 DEF Held, Wrote
  <2> QED
    BY <2>2, <2>3
<1>10. ASSUME NEW t \in Proc, WriteSplit(t) PROVE Held(u)'
  <2>1. /\ attempt[t].at = "preparing" /\ attempt'[t].at = "splitting"
        /\ \A v \in Proc \ {t} : attempt'[v] = attempt[v]
        /\ UNCHANGED <<view, report>> /\ split' = [split EXCEPT !.train = t]
        /\ disk[Train].content = Missing
    BY <1>1, <1>10, MoveIs DEF WriteSplit, AttemptAt, AttemptPhase
  <2>2. split.train = Missing
    BY <2>1 DEF SplitInv
  <2>3. CASE u # t
    BY <1>2, <2>1, <2>2, <2>3, HeldStays
  <2>4. CASE u = t
    <3>1. \A i \in View : Wrote(t, i)
      BY <1>4, <2>1 DEF Held
    <3>2. split'.train = t
      BY <1>1, <2>1
    <3> QED
      BY <2>1, <2>4, <3>1, <3>2 DEF Held, Wrote
  <2> QED
    BY <2>3, <2>4
<1>11. ASSUME NEW t \in Proc, WriteCatalogue(t) PROVE Held(u)'
  <2>1. /\ attempt[t].at = "splitting" /\ attempt'[t].at = "reporting"
        /\ \A v \in Proc \ {t} : attempt'[v] = attempt[v]
        /\ UNCHANGED <<view, report>> /\ split' = [split EXCEPT !.manifest = t]
    BY <1>1, <1>11, MoveIs DEF WriteCatalogue, AttemptAt, AttemptPhase
  <2>2. split.train = t /\ \A i \in View : Wrote(t, i)
    BY <1>4, <2>1 DEF Held
  <2>3. CASE u # t
    BY <1>2, <2>1, <2>2, <2>3, HeldStays
  <2>4. CASE u = t
    <3>1. split'.train = t /\ split'.manifest = t
      BY <1>1, <2>1, <2>2
    <3> QED
      BY <2>1, <2>2, <2>4, <3>1 DEF Held, Wrote
  <2> QED
    BY <2>3, <2>4
<1>12. ASSUME NEW t \in Proc, WriteReport(t) PROVE Held(u)'
  <2>1. /\ attempt[t].at = "reporting" /\ attempt'[t].at = "pinning"
        /\ \A v \in Proc \ {t} : attempt'[v] = attempt[v]
        /\ UNCHANGED <<view, split>> /\ report = NoReport /\ report'.by = t
    BY <1>1, <1>12, MoveIs DEF WriteReport, AttemptAt, AttemptPhase
  <2>2. CASE u # t
    BY <1>2, <2>1, <2>2, HeldStays DEF NoReport
  <2>3. CASE u = t
    <3>1. Held(t)
      BY <1>4, <2>1
    <3> QED
      BY <2>1, <2>3, <3>1 DEF Held, Wrote
  <2> QED
    BY <2>2, <2>3
<1>13. ASSUME NEW t \in Proc, StartTraining(t) PROVE Held(u)'
  <2>1. /\ attempt[t].at = "pinning" /\ attempt'[t].at = "training"
        /\ \A v \in Proc \ {t} : attempt'[v] = attempt[v]
        /\ UNCHANGED <<view, split, report>>
    BY <1>1, <1>13, MoveIs DEF StartTraining, AttemptAt, AttemptPhase
  <2>2. CASE u # t
    BY <1>3, <2>1, <2>2
  <2>3. CASE u = t
    BY <1>2, <2>1, <2>3 DEF Held, Wrote
  <2> QED
    BY <2>2, <2>3
<1>14. ASSUME NEW t \in Proc, TrainV2(t) PROVE Held(u)'
  BY <1>3, <1>14 DEF TrainV2, runVars
<1>15. ASSUME NEW t \in Proc, EndAttempt(t) PROVE Held(u)'
  <2>1. /\ attempt'[t].at = "over"
        /\ \A v \in Proc \ {t} : attempt'[v] = attempt[v]
        /\ UNCHANGED <<view, split, report>>
    BY <1>1, <1>15, MoveIs DEF EndAttempt, AttemptPhase
  <2>2. CASE u # t
    BY <1>3, <2>1, <2>2
  <2>3. CASE u = t
    BY <2>1, <2>3 DEF Held
  <2> QED
    BY <2>2, <2>3
<1>16. ASSUME NEW t \in Proc, CleanUp(t) PROVE Held(u)'
  <2>1. u # t
    <3>1. job'[t] = "failed" /\ root'.by # t
      BY <1>16 DEF CleanUp, NoRoot
    <3> QED
      BY <3>1 DEF Holding
  <2>2. \A i \in View : view[i].records = u => view'[i] = view[i]
    BY <1>16, <2>1 DEF CleanUp
  <2>3. split.train = u => split' = split
    BY <1>16, <2>1 DEF CleanUp
  <2>4. report.by = u => report' = report
    BY <1>16, <2>1 DEF CleanUp
  <2>5. attempt' = attempt
    BY <1>16 DEF CleanUp
  <2> QED
    BY <1>2, <2>2, <2>3, <2>4, <2>5, HeldStays
<1>17. ASSUME NEW f \in Input, NEW content \in Content, WriteInput(f, content) PROVE Held(u)'
  BY <1>3, <1>17 DEF WriteInput
<1>18. ASSUME NEW content \in Content, WriteV1(content) PROVE Held(u)'
  BY <1>3, <1>18 DEF WriteV1
<1>19. CASE UNCHANGED vars
  BY <1>3, <1>19 DEF vars, runVars
<1> QED
  BY <1>5, <1>6, <1>7, <1>8, <1>9, <1>10, <1>11, <1>12, <1>13, <1>14, <1>15, <1>16, <1>17, <1>18,
     <1>19
  DEF Next, AttemptStep

LEMMA SplitStep ==
    ASSUME TypeOK, AttemptInv, SplitInv, HoldInv, [Next]_vars
    PROVE  SplitInv'
<1> USE FilesAssumption DEF SplitInv
<1>1. TrainingTypeOK /\ split \in [train : Proc \cup {Missing}, manifest : Proc \cup {Missing}]
      /\ Train \in Input /\ Manifest \in Input /\ Train # Manifest
  BY InputAssumption DEF TypeOK
<1>2. ASSUME UNCHANGED <<disk, split>> PROVE SplitInv'
  BY <1>2
<1>3. ASSUME NEW t \in Proc, AttemptStep(t), ~WriteSplit(t), ~WriteCatalogue(t), ~TrainV2(t)
      PROVE  SplitInv'
  <2>1. UNCHANGED <<disk, split>>
    BY <1>3
    DEF AttemptStep, Launch, CheckPins, WriteView, DescribeView, ReadCorpus, WriteReport,
        StartTraining, BeginTraining, EndAttempt, EndJob, trainingVars
  <2> QED
    BY <1>2, <2>1
<1>4. ASSUME NEW t \in Proc, TrainV2(t) PROVE SplitInv'
  BY <1>1, <1>2, <1>4, TrainStepIs DEF TrainV2, runVars
<1>5. ASSUME NEW t \in Proc, WriteSplit(t) PROVE SplitInv'
  <2>1. attempt[t].corpus \in Content
    BY <1>5 DEF WriteSplit, AttemptInv
  <2>2. disk'[Train].content # Missing /\ disk'[Manifest] = disk[Manifest]
    BY <1>1, <1>5, <2>1, WriteIs DEF WriteSplit, Anything
  <2>3. split'.manifest = split.manifest
    BY <1>1, <1>5 DEF WriteSplit
  <2> QED
    BY <2>2, <2>3
<1>6. ASSUME NEW t \in Proc, WriteCatalogue(t) PROVE SplitInv'
  <2>1. split.train = t
    <3>1. Holding(t) /\ attempt[t].at = "splitting"
      BY <1>6, ActiveHolds DEF WriteCatalogue, AttemptAt
    <3> QED
      BY <3>1 DEF HoldInv, Held, WithSplit
  <2>2. disk[Train].content # Missing /\ disk[Train].content \in Anything
    BY <1>1, <2>1 DEF TrainingTypeOK
  <2>3. disk'[Manifest].content # Missing /\ disk'[Train] = disk[Train]
    BY <1>1, <1>6, <2>2, WriteIs DEF WriteCatalogue
  <2>4. split'.train = split.train
    BY <1>1, <1>6 DEF WriteCatalogue
  <2> QED
    BY <2>2, <2>3, <2>4
<1>7. ASSUME NEW t \in Proc, CleanUp(t) PROVE SplitInv'
  <2>1. CASE split.train = t
    BY <1>7, <2>1 DEF CleanUp
  <2>2. CASE split.train # t
    BY <1>2, <1>7, <2>2 DEF CleanUp
  <2> QED
    BY <2>1, <2>2
<1>8. ASSUME NEW f \in Input, NEW content \in Content, WriteInput(f, content) PROVE SplitInv'
  <2>1. /\ split' = split
        /\ disk'[f].content # Missing /\ \A g \in Input \ {f} : disk'[g] = disk[g]
    BY <1>1, <1>8, WriteIs DEF WriteInput, Anything
  <2> QED
    BY <1>1, <2>1
<1>9. ASSUME NEW content \in Content, WriteV1(content) PROVE SplitInv'
  BY <1>2, <1>9 DEF WriteV1, trainingVars
<1>10. CASE UNCHANGED vars
  BY <1>2, <1>10 DEF vars, runVars, trainingVars
<1> QED
  BY <1>3, <1>4, <1>5, <1>6, <1>7, <1>8, <1>9, <1>10 DEF Next

-----------------------------------------------------------------------------
(* How often the prepared files were written                                *)

LEMMA CountedStays ==
    ASSUME NEW u \in Proc, Counted(u), attempt'[u] = attempt[u],
           attempt[u].at \in WithSplit =>
               disk'[Train] = disk[Train] /\ disk'[Manifest] = disk[Manifest],
           attempt[u].at \in WithReport =>
               report' = report /\ trainer'[u].pins = trainer[u].pins
    PROVE  Counted(u)'
  BY DEF Counted, WithSplit, WithCatalogue, WithReport, PreparedWrites, AsReported

(* Who writes one of the prepared files leaves the other as it is.          *)
LEMMA CountedMore ==
    ASSUME TrainingTypeOK, NEW u \in Proc, Counted(u),
           NEW f \in {Train, Manifest}, NEW g \in {Train, Manifest}, f # g,
           disk'[f].writes = disk[f].writes + 1, disk'[g] = disk[g],
           attempt' = attempt, trainer' = trainer, report' = report
    PROVE  Counted(u)'
<1> DEFINE at == attempt[u].at
<1>1. disk[Train].writes \in Nat /\ disk[Manifest].writes \in Nat
  BY InputAssumption DEF TrainingTypeOK
<1>2. PreparedWrites \in Nat /\ PreparedWrites' = PreparedWrites + 1
  BY <1>1 DEF PreparedWrites
<1>3. at \in WithSplit => disk'[Train].writes >= 1
  BY <1>1 DEF Counted
<1>4. at \in WithCatalogue => disk'[Manifest].writes >= 1
  BY <1>1 DEF Counted
<1>5. at \in WithCatalogue => PreparedWrites >= 2
  BY <1>1 DEF Counted, PreparedWrites, WithSplit
<1>6. at = "reporting" => PreparedWrites' # 2
  BY <1>2, <1>5 DEF WithCatalogue
<1>7. at = "pinning" => PreparedWrites' # 2
  BY <1>2, <1>5 DEF WithCatalogue, WithReport
<1>8. AsReported(g)' = AsReported(g)
  BY DEF AsReported
<1>9. at = "pinning" /\ PreparedWrites' = 3 => AsReported(Train)' \/ AsReported(Manifest)'
  <2> SUFFICES ASSUME at = "pinning", PreparedWrites' = 3 PROVE AsReported(g)'
    OBVIOUS
  <2>1. PreparedWrites = 2
    BY <1>2
  <2>2. AsReported(Train) /\ AsReported(Manifest)
    BY <2>1 DEF Counted
  <2> QED
    BY <1>8, <2>2
<1>10. at = "training" =>
           \/ trainer'[u].pins[Train] = report'.train
           \/ trainer'[u].pins[Manifest] = report'.train
           \/ PreparedWrites' >= 4
  BY <1>2 DEF Counted
<1> HIDE DEF at
<1>11. attempt'[u].at = at
  BY DEF at
<1> QED
  BY <1>3, <1>4, <1>6, <1>7, <1>9, <1>10, <1>11 DEF Counted

LEMMA CountStep ==
    ASSUME TypeOK, RootInv, AttemptInv, SplitInv, HoldInv, CountInv, [Next]_vars
    PROVE  CountInv'
<1> USE FilesAssumption DEF WithSplit, WithCatalogue, WithReport
<1>1. attempt \in [Proc -> AttemptState] /\ TrainingTypeOK
      /\ Train \in Input /\ Manifest \in Input /\ Train # Manifest
  BY InputAssumption DEF TypeOK
<1> SUFFICES ASSUME NEW u \in Proc, Holding(u)' PROVE Counted(u)'
  BY DEF CountInv
<1>2. Holding(u) /\ Held(u) /\ Counted(u)
  BY HoldingBefore DEF HoldInv, CountInv
<1>3. ASSUME NEW t \in Proc, attempt[t].at \notin {"training", "over"}
      PROVE  Held(t) /\ Counted(t)
  BY <1>3, ActiveHolds DEF HoldInv, CountInv
<1>4. ASSUME UNCHANGED <<disk, report, trainer>>, attempt'[u] = attempt[u] PROVE Counted(u)'
  BY <1>2, <1>4, CountedStays
<1>5. disk[Train].writes \in Nat /\ disk[Manifest].writes \in Nat
  BY <1>1 DEF TrainingTypeOK
<1>6. ASSUME NEW t \in Proc, Launch(t) \/ EndJob(t) PROVE Counted(u)'
  BY <1>4, <1>6 DEF Launch, EndJob, trainingVars
<1>7. ASSUME NEW t \in Proc,
             CheckPins(t) \/ WriteView(t) \/ DescribeView(t) \/ ReadCorpus(t) \/ EndAttempt(t)
      PROVE  Counted(u)'
  <2>1. /\ attempt'[t].at \notin WithSplit
        /\ \A v \in Proc \ {t} : attempt'[v] = attempt[v]
    <3>1. CASE DescribeView(t)
      BY <3>1, DescribeViewIs
    <3>2. CASE ReadCorpus(t)
      BY <3>2, ReadCorpusIs
    <3>3. CASE \E at \in {"checked", "deriving", "over"} : Move(t, at)
      BY <1>1, <3>3, MoveIs DEF AttemptPhase
    <3> QED
      BY <1>7, <3>1, <3>2, <3>3 DEF CheckPins, WriteView, EndAttempt
  <2>2. UNCHANGED <<disk, report, trainer>>
    BY <1>7
    DEF CheckPins, WriteView, DescribeView, ReadCorpus, EndAttempt, trainingVars
  <2>3. CASE u # t
    BY <1>4, <2>1, <2>2, <2>3
  <2>4. CASE u = t
    BY <2>1, <2>4 DEF Counted
  <2> QED
    BY <2>3, <2>4
<1>8. ASSUME NEW t \in Proc, WriteSplit(t) PROVE Counted(u)'
  <2>1. /\ attempt'[t].at = "splitting" /\ \A v \in Proc \ {t} : attempt'[v] = attempt[v]
        /\ disk[Train].content = Missing /\ trainer' = trainer /\ report' = report
    BY <1>1, <1>8, MoveIs DEF WriteSplit, AttemptPhase
  <2>2. disk'[Train].writes >= 1
    <3>1. attempt[t].corpus \in Anything
      BY <1>1 DEF AttemptState
    <3>2. disk'[Train].writes = disk[Train].writes + 1
      BY <1>1, <1>8, <3>1, WriteIs DEF WriteSplit
    <3> QED
      BY <1>5, <3>2
  <2>3. CASE u # t
    <3>1. attempt[u].at \notin WithSplit
      BY <1>2, <2>1 DEF SplitInv, Held
    <3> QED
      BY <1>2, <2>1, <2>3, <3>1, CountedStays
  <2>4. CASE u = t
    BY <2>1, <2>2, <2>4 DEF Counted
  <2> QED
    BY <2>3, <2>4
<1>9. ASSUME NEW t \in Proc, WriteCatalogue(t) PROVE Counted(u)'
  <2>1. /\ attempt[t].at = "splitting" /\ attempt'[t].at = "reporting"
        /\ \A v \in Proc \ {t} : attempt'[v] = attempt[v]
        /\ trainer' = trainer /\ report' = report
    BY <1>1, <1>9, MoveIs DEF WriteCatalogue, AttemptAt, AttemptPhase
  <2>2. /\ disk'[Manifest].writes = disk[Manifest].writes + 1
        /\ disk'[Manifest].content = disk[Train].content /\ disk'[Train] = disk[Train]
    <3>1. disk[Train].content \in Anything
      BY <1>1 DEF TrainingTypeOK
    <3> QED
      BY <1>1, <1>9, <3>1, WriteIs DEF WriteCatalogue
  <2>3. split.train = t /\ disk[Train].writes >= 1
    BY <1>3, <2>1 DEF Held, Counted
  <2>4. CASE u # t
    <3>1. attempt[u].at \notin WithSplit
      BY <1>2, <2>3, <2>4 DEF Held
    <3> QED
      BY <1>2, <2>1, <2>4, <3>1, CountedStays
  <2>5. CASE u = t
    <3>1. disk'[Manifest].writes >= 1
      BY <1>5, <2>2
    <3> QED
      BY <2>1, <2>2, <2>3, <2>5, <3>1 DEF Counted
  <2> QED
    BY <2>4, <2>5
<1>10. ASSUME NEW t \in Proc, WriteReport(t) PROVE Counted(u)'
  <2>1. /\ attempt[t].at = "reporting" /\ attempt'[t].at = "pinning"
        /\ \A v \in Proc \ {t} : attempt'[v] = attempt[v]
        /\ trainer' = trainer /\ disk' = disk
        /\ report = NoReport /\ report'.train = disk[Train].content
    BY <1>1, <1>10, MoveIs DEF WriteReport, AttemptAt, AttemptPhase, trainingVars
  <2>2. CASE u # t
    <3>1. attempt[u].at \notin WithReport
      BY <1>2, <2>1 DEF Held, NoReport
    <3> QED
      BY <1>2, <2>1, <2>2, <3>1, CountedStays
  <2>3. CASE u = t
    <3>1. /\ disk[Train].writes >= 1 /\ disk[Manifest].writes >= 1
          /\ PreparedWrites = 2 => disk[Train].content = disk[Manifest].content
      BY <1>3, <2>1 DEF Counted
    <3>2. AsReported(Train)'
      BY <2>1 DEF AsReported
    <3>3. PreparedWrites' = 2 => AsReported(Manifest)'
      BY <2>1, <3>1 DEF AsReported, PreparedWrites
    <3> QED
      BY <2>1, <2>3, <3>1, <3>2, <3>3 DEF Counted
  <2> QED
    BY <2>2, <2>3
<1>11. ASSUME NEW t \in Proc, StartTraining(t) PROVE Counted(u)'
  <2>1. /\ attempt[t].at = "pinning" /\ attempt'[t].at = "training" /\ report' = report
        /\ \A v \in Proc \ {t} : attempt'[v] = attempt[v]
    BY <1>1, <1>11, MoveIs DEF StartTraining, AttemptAt, AttemptPhase
  <2>2. /\ trainer'[t].pins[Train] = disk[Train].content
        /\ trainer'[t].pins[Manifest] = disk[Manifest].content
        /\ \A v \in Proc \ {t} : trainer'[v] = trainer[v]
        /\ disk' = disk
    BY <1>1, <1>11, PinsAreTyped, BeginIs DEF StartTraining
  <2>3. CASE u # t
    BY <1>2, <2>1, <2>2, <2>3, CountedStays
  <2>4. CASE u = t
    <3>1. Counted(t)
      BY <1>3, <2>1
    <3>2. disk[Train].writes >= 1 /\ disk[Manifest].writes >= 1
      BY <2>1, <3>1 DEF Counted
    <3>3. PreparedWrites \in Nat /\ PreparedWrites >= 2
      BY <1>5, <3>2 DEF PreparedWrites
    <3>4. PreparedWrites' = PreparedWrites
      BY <2>2 DEF PreparedWrites
    <3>5. \/ disk[Train].content = report.train \/ disk[Manifest].content = report.train
          \/ PreparedWrites >= 4
      <4>1. PreparedWrites = 2 \/ PreparedWrites = 3 \/ PreparedWrites >= 4
        BY <3>3
      <4> QED
        BY <2>1, <3>1, <4>1 DEF Counted, AsReported
    <3> QED
      BY <2>1, <2>2, <2>4, <3>2, <3>4, <3>5 DEF Counted
  <2> QED
    BY <2>3, <2>4
<1>12. ASSUME NEW t \in Proc, TrainV2(t) PROVE Counted(u)'
  <2>1. attempt' = attempt /\ report' = report /\ TrainStep(t)
    BY <1>12 DEF TrainV2, runVars
  <2>2. disk' = disk /\ trainer'[u].pins = trainer[u].pins
    BY <1>1, <2>1, TrainStepIs
  <2> QED
    BY <1>2, <2>1, <2>2, CountedStays
<1>13. ASSUME NEW t \in Proc, CleanUp(t) PROVE Counted(u)'
  <2>1. u # t
    <3>1. job'[t] = "failed" /\ root'.by # t
      BY <1>13 DEF CleanUp, NoRoot
    <3> QED
      BY <3>1 DEF Holding
  <2>2. attempt' = attempt /\ trainer' = trainer
    BY <1>13 DEF CleanUp
  <2>3. attempt[u].at \in WithSplit => disk' = disk
    BY <1>2, <1>13, <2>1 DEF CleanUp, Held
  <2>4. attempt[u].at \in WithReport => report' = report
    BY <1>2, <1>13, <2>1 DEF CleanUp, Held
  <2> QED
    BY <1>2, <2>2, <2>3, <2>4, CountedStays
<1>14. ASSUME NEW f \in Input, NEW content \in Content, WriteInput(f, content) PROVE Counted(u)'
  <2>1. /\ disk'[f].writes = disk[f].writes + 1 /\ \A g \in Input \ {f} : disk'[g] = disk[g]
        /\ UNCHANGED <<attempt, trainer, report>>
    BY <1>1, <1>14, WriteIs DEF WriteInput, Anything
  <2>2. CASE f \in {Train, Manifest}
    <3>1. PICK g \in {Train, Manifest} : g # f
      BY <1>1
    <3> QED
      BY <1>1, <1>2, <2>1, <2>2, <3>1, CountedMore
  <2>3. CASE f \notin {Train, Manifest}
    BY <1>1, <1>2, <2>1, <2>3, CountedStays
  <2> QED
    BY <2>2, <2>3
<1>15. ASSUME NEW content \in Content, WriteV1(content) PROVE Counted(u)'
  BY <1>4, <1>15 DEF WriteV1, trainingVars
<1>16. CASE UNCHANGED vars
  BY <1>4, <1>16 DEF vars, runVars, trainingVars
<1> QED
  BY <1>6, <1>7, <1>8, <1>9, <1>10, <1>11, <1>12, <1>13, <1>14, <1>15, <1>16
  DEF Next, AttemptStep

-----------------------------------------------------------------------------
(* The theorems                                                             *)

LEMMA InvariantInit ==
    ASSUME Init
    PROVE  IInv
<1>1. TypeOK
  BY TypeInit
<1>2. root = NoRoot /\ trainer = [t \in Proc |-> NewTrainer]
  BY DEF Init, TrainingInit
<1>3. RootInv
  BY <1>2 DEF RootInv, NoRoot, NewTrainer, TrainerAt, Claimed, Working, Published
<1>4. InputsInv
  <2> SUFFICES ASSUME NEW t \in Proc PROVE InputsOf(t)
    BY DEF InputsInv
  <2>1. trainer[t].at = "idle" /\ ~Described(t)
    BY <1>2 DEF NewTrainer, Described, NoRoot
  <2> QED
    BY <2>1 DEF InputsOf, Past, TrainerAt, Claimed, Working, Published
<1>5. attempt = [t \in Proc |-> [at |-> "idle", next |-> 1, corpus |-> Missing]]
      /\ job = [t \in Proc |-> "none"]
  BY DEF Init
<1>6. AttemptInv
  BY <1>2, <1>5 DEF AttemptInv, AttemptAt, JobEnded
<1>7. HoldInv /\ CountInv
  BY <1>5
  DEF HoldInv, Held, CountInv, Counted, WithViews, WithSplit, WithCatalogue, WithReport
<1>8. SplitInv
  BY DEF Init, SplitInv
<1> QED
  BY <1>1, <1>3, <1>4, <1>6, <1>7, <1>8 DEF IInv

LEMMA InvariantStep ==
    ASSUME IInv, [Next]_vars
    PROVE  IInv'
  BY TypeStep, TrainingInvStep, AttemptInvStep, HoldStep, CountStep, SplitStep DEF IInv

(* The inductive invariant, of any number of attempts of one revision:      *)
(* what an attempt wrote stays its own until its job failed and its files   *)
(* were removed, and a trainer is as sure of its inputs as it has verified. *)
THEOREM AttemptIsInductive == Spec => []IInv
<1>1. Init => IInv
  BY InvariantInit
<1>2. IInv /\ [Next]_vars => IInv'
  BY InvariantStep
<1> QED
  BY <1>1, <1>2, PTL DEF Spec

(* Every variable of the attempts, their jobs and trainers has its type.    *)
THEOREM TypesAreRight == Spec => []TypeOK
<1>1. IInv => TypeOK
  BY DEF IInv
<1> QED
  BY <1>1, AttemptIsInductive, PTL

(* Who has a directory with a run manifest is a trainer that claimed it.    *)
LEMMA WhoDescribed ==
    ASSUME IInv, root.manifest # "none"
    PROVE  /\ root.by \in Proc /\ Described(root.by)
           /\ root.adapter # "final" => root.fate = "doomed" /\ ~TrainerAt(root.by, "done")
           /\ trainer[root.by].at \in Claimed \cup Terminal
<1>1. root.by # Missing
  BY DEF IInv, RootInv, NoRoot
<1>2. root.by \in Proc
  BY <1>1 DEF IInv, TypeOK, TrainingTypeOK, OutputRoot
<1>3. root.adapter # "final" => root.fate = "doomed" /\ ~TrainerAt(root.by, "done")
  <2>1. root.fate \in {"kept", "doomed"}
    BY DEF IInv, TypeOK, TrainingTypeOK, OutputRoot
  <2> QED
    BY <1>2, <2>1 DEF IInv, RootInv, TrainerAt
<1>4. trainer[root.by].at \in Claimed \cup Terminal
  BY <1>1 DEF IInv, RootInv
<1> QED
  BY <1>2, <1>3, <1>4 DEF Described

(* train_sft leaves a whole run manifest only of a run that trained on the  *)
(* pinned split and configuration, whatever others write and whenever       *)
(* trainers are killed; another base model than the pinned one was swapped  *)
(* in and back between the two verifications. Where the final adapter is    *)
(* not beside it, a run that did not succeed has begun to remove both.      *)
THEOREM ManifestEarned == Spec => []ManifestIsEarned
<1>1. ASSUME IInv PROVE ManifestIsEarned
  <2> SUFFICES ASSUME root.manifest = "whole" 
               PROVE  /\ root.by \in Proc
                      /\ root.adapter # "final" => root.fate = "doomed" /\ ~TrainerAt(root.by, "done")
                      /\ FrozenArePinned(root.by) /\ BaseSwapped(root.by)
    BY DEF ManifestIsEarned, FrozenArePinned, BaseSwapped
  <2>1. /\ root.by \in Proc /\ Described(root.by)
        /\ root.adapter # "final" => root.fate = "doomed" /\ ~TrainerAt(root.by, "done")
    BY <1>1, WhoDescribed
  <2>2. InputsOf(root.by)
    BY <1>1, <2>1 DEF IInv, InputsInv
  <2> QED
    BY <2>1, <2>2 DEF InputsOf
<1> QED
  BY <1>1, AttemptIsInductive, PTL

(* The evidence that run-v2-training.py leaves is of one attempt: the views,*)
(* the split, its manifest and the report beside a run manifest are of the  *)
(* attempt that trained, because each is created exclusively; and the       *)
(* report gives the split that was trained on unless others wrote the       *)
(* prepared files twice.                                                    *)
THEOREM EvidenceOfOneAttempt == Spec => []EvidenceIsOneAttempts
<1>1. ASSUME IInv PROVE EvidenceIsOneAttempts
  <2> DEFINE t == root.by
  <2> SUFFICES ASSUME root.manifest # "none"
               PROVE  /\ \A i \in View : view[i] = [records |-> t, manifest |-> t]
                      /\ split = [train |-> t, manifest |-> t]
                      /\ report.by = t
                      /\ report.train # trainer[t].frozen[Train] => PreparedWrites >= 4
    BY DEF EvidenceIsOneAttempts, PreparedWrites
  <2>1. t \in Proc /\ Described(t) /\ trainer[t].at \in Claimed \cup Terminal
    BY <1>1, WhoDescribed
  <2>2. attempt[t].at = "training"
    BY <1>1, <2>1
    DEF IInv, AttemptInv, AttemptAt, NewTrainer, Claimed, Working, Terminal
  <2>3. Held(t) /\ Counted(t)
    BY <1>1, <2>1 DEF IInv, HoldInv, CountInv, Holding
  <2>4. FrozenArePinned(t) /\ ManifestNamesSplit(t)
    BY <1>1, <2>1 DEF IInv, InputsInv, InputsOf
  <2>5. trainer[t].frozen[Train] = trainer[t].pins[Train]
        /\ trainer[t].pins[Manifest] = trainer[t].pins[Train]
    BY <2>4, InputAssumption DEF FrozenArePinned, ManifestNamesSplit
  <2>6. \A i \in View : view[i] = [records |-> t, manifest |-> t]
    BY <2>2, <2>3 DEF Held, Wrote, WithViews, WithSplit, WithCatalogue, WithReport
  <2>7. split.train = t /\ split.manifest = t /\ report.by = t
    BY <2>2, <2>3 DEF Held, WithSplit, WithCatalogue, WithReport
  <2>8. split = [train |-> t, manifest |-> t]
    BY <1>1, <2>7 DEF IInv, TypeOK
  <2>9. report.train # trainer[t].frozen[Train] => PreparedWrites >= 4
    BY <2>2, <2>3, <2>5 DEF Counted
  <2> QED
    BY <2>6, <2>7, <2>8, <2>9
<1> QED
  BY <1>1, AttemptIsInductive, PTL

(* A final adapter beside a run manifest adapts exactly the audited modules it  *)
(* was prepared for, each by both of its tensors: verify_saved_adapter only *)
(* counts the tensors, but none is left out of a pair and none is there     *)
(* twice, so the count is the count of the modules.                         *)
THEOREM AdapterAudited == Spec => []AdapterIsAudited
<1>1. ASSUME IInv PROVE AdapterIsAudited
  <2> SUFFICES ASSUME root.manifest # "none", root.adapter = "final"
               PROVE  /\ Cardinality(ModulesOf(root.tensors)) = Expected
                      /\ \A m \in ModulesOf(root.tensors) :
                             m \in Audited /\ Cardinality(OfModule(m, root.tensors)) = 2
    BY DEF AdapterIsAudited
  <2>1. root.tensors \in Adapters
    BY <1>1 DEF IInv, RootInv
  <2> QED
    BY <2>1, AdaptersAreAudited
<1> QED
  BY <1>1, AttemptIsInductive, PTL
===============================================================================
