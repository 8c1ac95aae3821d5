----------------------------- MODULE ReleaseTree -----------------------------
(***************************************************************************)
(* What promotion promises to whoever reads the release directory: a        *)
(* release appears complete and in one step, nothing is ever changed in it  *)
(* or put in its place, and a manifest describes a release that is there,   *)
(* with the files that are there.                                           *)
(***************************************************************************)
CONSTANTS
    Target,     \* the releases
    Tree,       \* complete sets of release files
    Missing     \* no release

VARIABLES
    release,    \* the files of each release
    manifest    \* the promotion manifests that were written

vars == <<release, manifest>>

Init == release = [t \in Target |-> Missing] /\ manifest = {}

Appear(t) ==
    /\ release[t] = Missing
    /\ \E files \in Tree : release' = [release EXCEPT ![t] = files]
    /\ UNCHANGED manifest

Describe(t) ==
    /\ release[t] # Missing
    /\ manifest' = manifest \cup {[target |-> t, files |-> release[t]]}
    /\ UNCHANGED release

Next == \E t \in Target : Appear(t) \/ Describe(t)

Spec == Init /\ [][Next]_vars
=============================================================================
