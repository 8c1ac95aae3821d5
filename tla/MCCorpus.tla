------------------------------- MODULE MCCorpus -------------------------------
(* Two or three records of thirteen kinds: an ATT&CK procedure and Juliet     *)
(* families, variants of the same text, two that differ in a secret only,     *)
(* holdouts, an evaluation record, one that names a parent, and flawed ones.  *)
(* The hash of a group puts g1 into training, g2 into validation, g3 into test. *)
EXTENDS Corpus

MCText == {"a", "a ", "b", "key1", "key2", "key", "yes", "no", "view", "code", "quiz", "long",
           "asked1", "asked"}
MCForm == [t \in MCText |-> IF t = "a " THEN "a" ELSE t]
MCRedacted ==
    [t \in MCText |-> IF t \in {"key1", "key2"} THEN "key"
                     ELSE IF t = "asked1" THEN "asked"
                     ELSE t]
MCViewOf ==
    [t \in MCText |-> CASE t \in {"a", "a "} -> "view"
                        [] t = "b" -> "quiz"
                        [] t \in {"yes", "no"} -> "code"
                        [] OTHER -> t]

MCGroup == {"g1", "g2", "g3"}
MCBucket ==
    [g \in MCGroup |-> IF g = "g1" THEN "train" ELSE IF g = "g2" THEN "validation" ELSE "test"]
MCSource == {"nist", "mitre", "bench"}
MCRescanned == {"nist"}
MCBenchmark == {"quiz", "long"}
MCWithin == {<<"no", "long">>, <<"long", "asked1">>, <<"long", "asked">>}
MCLicence == {"open", "closed"}

Plain(user, answer, group) ==
    [id |-> 0, group |-> group, user |-> user, answer |-> answer, holdout |-> FALSE,
     source |-> "nist", licence |-> "open", parent |-> 0, time |-> 1, kind |-> "other",
     names |-> FALSE, flaw |-> "none"]

Kinds ==
    {[Plain("a", "yes", "g1") EXCEPT !.kind = "juliet", !.names = TRUE],
     [Plain("b", "no", "g1") EXCEPT !.kind = "procedure"],
     [Plain("a", "no", "g2") EXCEPT !.kind = "procedure", !.names = TRUE, !.time = 2],
     [Plain("a ", "yes", "g3") EXCEPT !.holdout = TRUE, !.kind = "juliet", !.names = TRUE],
     [Plain("a", "yes", "g1") EXCEPT !.holdout = TRUE, !.time = 3],
     [Plain("a ", "yes", "g2") EXCEPT !.holdout = TRUE],
     [Plain("a ", "yes", "g2") EXCEPT !.source = "bench"],
     Plain("key1", "yes", "g1"),
     Plain("key2", "yes", "g3"),
     [Plain("b", "no", "g2") EXCEPT !.parent = 2, !.time = 0],
     [Plain("b", "no", "g3") EXCEPT !.flaw = "roles", !.time = 3],
     [Plain("key", "code", "g1") EXCEPT !.flaw = "disallowed"],
     [Plain("view", "code", "g3") EXCEPT !.licence = "closed"]}

Numbered(r, i) == [r EXCEPT !.id = 2 * i]

MCCorpora ==
    {{Numbered(r, 1), Numbered(s, 2), Numbered(t, 3)} : r, s, t \in Kinds}
    \cup {{Numbered(r, 1), Numbered(s, 2)} : r, s \in Kinds}

(* Others empty an input, or put what the benchmark asks into it.            *)
Asked == [Plain("asked1", "code", "g1") EXCEPT !.id = 9]
MCTampered == {{}, {Asked}, {[Asked EXCEPT !.source = "mitre"]}}

Policy(class, licence) ==
    [s \in MCSource |-> IF s = "bench" THEN [class |-> "eval_only", licence |-> "open"]
                        ELSE [class |-> class, licence |-> licence]]

MCRegistries ==
    {Policy("allow_train", "open"), Policy("allow_train", "closed"), Policy("rag_only", "open")}
===============================================================================
