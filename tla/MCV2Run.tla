------------------------------- MODULE MCV2Run -------------------------------
(* Two attempts of one revision; one view, and an input of each kind. The    *)
(* model has three modules with audited targets, two of which are adapted.   *)
EXTENDS V2Run, Sequences, TLC

CONSTANTS a1, a2

MCPinned == [f \in Input |-> 1]

MCAudited == {"q", "k", "v"}

MCTensor ==
    {[key |-> m \o "." \o s, module |-> m, side |-> s, value |-> "some"] : m \in MCAudited, s \in {"a", "b"}}
    \cup {[key |-> "q.b", module |-> "q", side |-> "b", value |-> "zero"],
          [key |-> "k2", module |-> "k", side |-> "a", value |-> "some"],
          [key |-> "v.b", module |-> "v", side |-> "b", value |-> "nan"],
          [key |-> "norm", module |-> "norm", side |-> "a", value |-> "some"]}

Interchangeable == Permutations(Proc)
=============================================================================
