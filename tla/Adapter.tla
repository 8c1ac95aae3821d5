------------------------------- MODULE Adapter -------------------------------
(***************************************************************************)
(* The tensors of a LoRA adapter: which of them may be trainable in the     *)
(* model, and which may be in the file that is saved. Each adapted module   *)
(* has a tensor A and a tensor B.                                           *)
(***************************************************************************)
EXTENDS Naturals, FiniteSets

CONSTANTS
    Tensor,         \* tensors by key, with the module, the side and the values
    Audited,        \* the modules whose last name is an audited target
    Expected        \* how many modules are adapted

ASSUME TensorAssumption ==
    /\ Tensor \subseteq [key : STRING, module : STRING, side : {"a", "b", "none"},
                         value : {"nan", "zero", "some"}]
    /\ IsFiniteSet(Tensor)
    /\ Expected \in Nat

OfModule(m, tensors) == {x \in tensors : x.module = m}

(* Only A and B of audited modules, none of them twice, all of them finite.  *)
LoraOnly(tensors) ==
    /\ \A x \in tensors : x.module \in Audited /\ x.side # "none" /\ x.value # "nan"
    /\ \A x, y \in tensors : x.module = y.module /\ x.side = y.side => x = y

Paired(tensors) ==
    \A x \in tensors : {y.side : y \in OfModule(x.module, tensors)} = {"a", "b"}

ModulesOf(tensors) == {x.module : x \in tensors}

RequireLoraSurface(live) ==
    /\ Cardinality(live) = 2 * Expected
    /\ LoraOnly(live)
    /\ Cardinality(ModulesOf(live)) = Expected /\ Paired(live)

(* Faulty: the halves of the pairs are not matched.                          *)
SavedUnpaired(saved, count) ==
    /\ LoraOnly(saved)
    /\ Cardinality(saved) = count
    /\ \E x \in saved : x.value = "some"

(* What is read back has as many tensors as were trainable.                  *)
VerifySavedAdapter(saved, count) ==
    /\ LoraOnly(saved)
    /\ Paired(saved)
    /\ Cardinality(saved) = count
    /\ \E x \in saved : x.value = "some"

Fingerprint(tensors) == {<<x.key, x.value>> : x \in tensors}

(* A training that changes the trainable state and keeps its surface.        *)
Trained(live, after) ==
    /\ RequireLoraSurface(live) /\ RequireLoraSurface(after)
    /\ Fingerprint(live) # Fingerprint(after) /\ Cardinality(live) = Cardinality(after)

SavedFrom(after) == {saved \in SUBSET Tensor : VerifySavedAdapter(saved, Cardinality(after))}

Adapters ==
    UNION {SavedFrom(after) :
        after \in {s \in SUBSET Tensor : \E live \in SUBSET Tensor : Trained(live, s)}}
=============================================================================
