------------------------------- MODULE Metrics --------------------------------
(***************************************************************************)
(* The classification metrics of the gate, computed from the true and the   *)
(* predicted label of each sample of a scope. A score is a whole number of  *)
(* parts of Scale; a mean is the sum of the scores and how many they are.   *)
(***************************************************************************)
EXTENDS Naturals, FiniteSets, Functions

CONSTANTS
    Scale,          \* what a score of one counts: a multiple of every support
    Num, Den        \* the threshold of each metric is Num / Den

ASSUME ThresholdAssumption ==
    /\ Scale \in Nat \ {0} /\ Num \in Nat /\ Den \in Nat \ {0}
    /\ Num <= Den

Samples(scope, labels, l) == {i \in scope : labels[i] = l}

ReferenceLabels(scope, truth) == {truth[i] : i \in scope}

ObservedLabels(scope, truth, predicted) ==
    ReferenceLabels(scope, truth) \cup {predicted[i] : i \in scope}

Hits(scope, truth, predicted) == {i \in scope : truth[i] = predicted[i]}

TruePositives(scope, truth, predicted, l) ==
    Cardinality(Samples(scope, truth, l) \cap Samples(scope, predicted, l))

Recall(scope, truth, predicted, l) ==
    (Scale * TruePositives(scope, truth, predicted, l))
        \div Cardinality(Samples(scope, truth, l))

(* Twice the true positives, and the samples of either side that are not.    *)
F1(scope, truth, predicted, l) ==
    (Scale * 2 * TruePositives(scope, truth, predicted, l))
        \div (Cardinality(Samples(scope, truth, l)) + Cardinality(Samples(scope, predicted, l)))

Accuracy(scope, truth, predicted) ==
    [sum |-> Scale * Cardinality(Hits(scope, truth, predicted)), of |-> Cardinality(scope)]

BalancedAccuracy(scope, truth, predicted) ==
    LET reference == ReferenceLabels(scope, truth) IN
    [sum |-> SumFunction([l \in reference |-> Recall(scope, truth, predicted, l)]),
     of |-> Cardinality(reference)]

MacroF1(scope, truth, predicted) ==
    LET observed == ObservedLabels(scope, truth, predicted) IN
    [sum |-> SumFunction([l \in observed |-> F1(scope, truth, predicted, l)]),
     of |-> Cardinality(observed)]

ScopeReport(scope, truth, predicted) ==
    [accuracy |-> Accuracy(scope, truth, predicted),
     balanced |-> BalancedAccuracy(scope, truth, predicted),
     macro_f1 |-> MacroF1(scope, truth, predicted)]

Meets(mean) == mean.sum * Den >= Num * Scale * mean.of

MeetsAll(report) == \A metric \in DOMAIN report : Meets(report[metric])
===============================================================================
