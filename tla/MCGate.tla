-------------------------------- MODULE MCGate --------------------------------
(* Two CWE tasks, of three and of two cases, that share their labels; any     *)
(* predictions, three training sets and three sets of reviews.                *)
EXTENDS Gate

XSS == "CWE-79"
SQL == "CWE-89"

CaseOf(id, task, answer, input) ==
    [id |-> id, task |-> task, answer |-> answer, input |-> input, prompt |-> "prompt of " \o input]

MCBenchmark ==
    <<CaseOf(1, "rcm", XSS, "one"), CaseOf(2, "rcm", SQL, "two"), CaseOf(3, "rcm", XSS, "three"),
      CaseOf(4, "rcm-2021", XSS, "four"), CaseOf(5, "rcm-2021", SQL, "five")>>

MCText == {c.input : c \in Range(MCBenchmark)} \cup {c.prompt : c \in Range(MCBenchmark)}
          \cup {"lesson", "lesson with four"}
MCContains == [t \in MCText |-> IF t = "lesson with four" THEN {t, "four"} ELSE {t}]

Output == {XSS, SQL, " cwe-79", "I do not know"}
MCCanonical ==
    [task \in {"rcm", "rcm-2021"} |->
        [o \in Output |-> CASE o \in {XSS, " cwe-79"} -> XSS [] o = SQL -> SQL [] OTHER -> "invalid"]]

Answered(outputs) == [i \in 1 .. 5 |-> [id |-> i, output |-> outputs[i]]]

Training(id, text) ==
    [id |-> id, texts |-> {text}, source |-> "nist", holdout |-> FALSE, sound |-> TRUE]

Clean == {Training(1, "lesson")}
Leaking == {Training(1, "lesson"), Training(2, "lesson with four")}
Unsound == {[Training(1, "lesson") EXCEPT !.sound = FALSE]}

Reviewed(passed, checkpoint) ==
    [name \in Review |->
        [passed |-> passed \/ name # "safety", checkpoint |-> checkpoint]]

Prepared(records) ==
    [records |-> records, sources |-> {[id |-> "nist", class |-> "allow_train"]}]

Bundle(reviews, predictions, records) ==
    [f \in File |-> CASE f = "reviews" -> reviews
                      [] f = "cases" -> MCBenchmark
                      [] f = "predictions" -> predictions
                      [] f = "prepared" -> Prepared(records)
                      [] f = "records" -> records
                      [] OTHER -> {f}]

Right == Answered(<<XSS, SQL, XSS, XSS, SQL>>)
Swapped == [Right EXCEPT ![1] = Right[2], ![2] = Right[1]]

Outputs ==
    {<<a, b, c, d, e>> : a \in {XSS, SQL, " cwe-79"}, b, e \in {SQL, XSS}, c, d \in {XSS, SQL, "I do not know"}}

MCBundles ==
    {Bundle(Reviewed(TRUE, {"checkpoint"}), Answered(o), Clean) : o \in Outputs}
    \cup {Bundle(r, Right, t) : r \in {Reviewed(TRUE, {"checkpoint"}), Reviewed(FALSE, {"checkpoint"}),
                                       Reviewed(TRUE, {"another"})},
                                t \in {Clean, Leaking, Unsound}}

MCSpare ==
    [f \in File |-> CASE f = "reviews" -> {Reviewed(TRUE, {"another"})}
                      [] f = "checkpoint" -> {{"another"}}
                      [] f = "predictions" -> {Swapped}
                      [] f = "prepared" -> {Prepared(Leaking)}
                      [] f = "records" -> {Leaking}
                      [] f = "run" -> {{"rerun"}}
                      [] OTHER -> {}]
===============================================================================
