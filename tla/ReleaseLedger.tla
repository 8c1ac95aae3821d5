---------------------------- MODULE ReleaseLedger ----------------------------
(***************************************************************************)
(* What publishing promises to whoever reads the hub: a release gets at     *)
(* most one commit, its tag names that commit and never moves, and it is    *)
(* recorded as published only with the commit and, where it has one, the    *)
(* tag in place.                                                            *)
(***************************************************************************)
EXTENDS Naturals

CONSTANTS
    Release,
    Untagged,       \* releases that are recorded without a tag
    CommitId        \* the numbers of commits

VARIABLES
    commits,    \* the commits of each release
    tag,        \* the commit its tag names, 0 if it has none
    record      \* the commit it is recorded with, 0 if it is not

vars == <<commits, tag, record>>

Init ==
    /\ commits = [r \in Release |-> {}]
    /\ tag = [r \in Release |-> 0]
    /\ record = [r \in Release |-> 0]

Publish(r) ==
    /\ commits[r] = {}
    /\ \E i \in CommitId : commits' = [commits EXCEPT ![r] = {i}]
    /\ UNCHANGED <<tag, record>>

Tag(r) ==
    /\ r \notin Untagged
    /\ tag[r] = 0
    /\ \E i \in commits[r] : tag' = [tag EXCEPT ![r] = i]
    /\ UNCHANGED <<commits, record>>

Record(r) ==
    /\ record[r] = 0
    /\ \E i \in commits[r] :
         /\ r \in Untagged \/ tag[r] = i
         /\ record' = [record EXCEPT ![r] = i]
    /\ UNCHANGED <<commits, tag>>

Next == \E r \in Release : Publish(r) \/ Tag(r) \/ Record(r)

Spec == Init /\ [][Next]_vars
=============================================================================
