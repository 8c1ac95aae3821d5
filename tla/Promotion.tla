------------------------------ MODULE Promotion ------------------------------
(***************************************************************************)
(* shadowcrafter.automation.promotion: the files of a candidate directory   *)
(* are copied into a staging directory, each checked against the digest in  *)
(* the request, and the staging directory is renamed to the release.  It is *)
(* called by scripts/remote/run-9b-version.py and, for any request, by      *)
(* scripts/automation/promote-release.py.                                   *)
(* No lock is shared: several processes may promote to one target, and each *)
(* may be killed at any point.  Staging directories are named after the     *)
(* target and the process id, and process ids come back.                    *)
(***************************************************************************)
EXTENDS Files

CONSTANTS
    Target,         \* release ids; a candidate directory has the same name
    Artifact        \* the files of a release

Tree == [Artifact -> Content]
PartialTree == UNION {[S -> Content] : S \in SUBSET Artifact}
NoFiles == [f \in {} |-> Missing]

(* PromotionRequest: where the files are, and which they must be.           *)
Request == [root : Target, target : Target, files : Tree]

ASSUME MissingAssumption == Missing \notin PartialTree \cup Request

VARIABLES
    candidate,      \* the files of each candidate directory
    promoter,       \* the calls of promote_release
    staging,        \* the staging directories
    release,        \* the release directories
    manifest        \* the promotion manifests that were written

promotionVars == <<candidate, promoter, staging, release, manifest>>

-----------------------------------------------------------------------------
PromoterState ==
    [at : {"idle", "copying", "renamed", "done", "refused", "killed"},
     job : Request \cup {Missing}]

Dir(p, req) == <<req.target, p>>
JobOf(p) == promoter[p].job
DirOf(p) == Dir(p, JobOf(p))
Promoting(p) == promoter[p].at \in {"copying", "renamed"}
Turn(p, at) == promoter' = [promoter EXCEPT ![p].at = at]

PromotionInit ==
    /\ candidate = [t \in Target |-> NoFiles]
    /\ promoter = [p \in Proc |-> [at |-> "idle", job |-> Missing]]
    /\ staging = [d \in Target \X Proc |-> Missing]
    /\ release = [t \in Target |-> Missing]
    /\ manifest = {}

-----------------------------------------------------------------------------
(* The target exists, or a staging directory of this name is still there.   *)
Blocked(p, req) == release[req.target] # Missing \/ staging[Dir(p, req)] # Missing

Take(p, req, at) == promoter' = [promoter EXCEPT ![p] = [at |-> at, job |-> req]]

RefusePromotion(p, req) ==
    /\ promoter[p].at = "idle"
    /\ Blocked(p, req)
    /\ Take(p, req, "refused")
    /\ UNCHANGED <<candidate, staging, release, manifest>>

BeginPromotion(p, req) ==
    /\ promoter[p].at = "idle"
    /\ ~Blocked(p, req)
    /\ Take(p, req, "copying")
    /\ staging' = [staging EXCEPT ![Dir(p, req)] = NoFiles]
    /\ UNCHANGED <<candidate, release, manifest>>

(* Faulty: the digest is not compared.                                      *)
CopyUnchecked(p, f) ==
    LET source == candidate[JobOf(p).root] IN
    /\ promoter[p].at = "copying"
    /\ f \in DOMAIN source \ DOMAIN staging[DirOf(p)]
    /\ staging' = [staging EXCEPT ![DirOf(p)] =
                     [g \in DOMAIN @ \cup {f} |-> IF g = f THEN source[f] ELSE @[g]]]
    /\ UNCHANGED <<candidate, promoter, release, manifest>>

(* _copy_verified: the digest is of the bytes that were written.            *)
CopyFile(p, f) ==
    LET source == candidate[JobOf(p).root] IN
    /\ promoter[p].at = "copying"
    /\ f \in DOMAIN source \ DOMAIN staging[DirOf(p)]
    /\ source[f] = JobOf(p).files[f]
    /\ staging' = [staging EXCEPT ![DirOf(p)] =
                     [g \in DOMAIN @ \cup {f} |-> IF g = f THEN source[f] ELSE @[g]]]
    /\ UNCHANGED <<candidate, promoter, release, manifest>>

(* Faulty: the rename replaces what is there.                               *)
ExposeOver(p) ==
    /\ promoter[p].at = "copying"
    /\ DOMAIN staging[DirOf(p)] = Artifact
    /\ release' = [release EXCEPT ![JobOf(p).target] = staging[DirOf(p)]]
    /\ staging' = [staging EXCEPT ![DirOf(p)] = Missing]
    /\ Turn(p, "renamed")
    /\ UNCHANGED <<candidate, manifest>>

(* The rename fails where another release has appeared in the meantime.     *)
Expose(p) ==
    /\ promoter[p].at = "copying"
    /\ DOMAIN staging[DirOf(p)] = Artifact
    /\ release[JobOf(p).target] = Missing
    /\ release' = [release EXCEPT ![JobOf(p).target] = staging[DirOf(p)]]
    /\ staging' = [staging EXCEPT ![DirOf(p)] = Missing]
    /\ Turn(p, "renamed")
    /\ UNCHANGED <<candidate, manifest>>

(* A file is gone or another, the rename or any call fails: the staging     *)
(* directory is removed and the exception raised.                           *)
AbandonPromotion(p) ==
    /\ promoter[p].at = "copying"
    /\ staging' = [staging EXCEPT ![DirOf(p)] = Missing]
    /\ Turn(p, "refused")
    /\ UNCHANGED <<candidate, release, manifest>>

(* The manifest repeats the request.                                        *)
Describe(p) ==
    /\ promoter[p].at = "renamed"
    /\ manifest' = manifest \cup {[target |-> JobOf(p).target, files |-> JobOf(p).files]}
    /\ Turn(p, "done")
    /\ UNCHANGED <<candidate, staging, release>>

(* After the rename: the release stays, without a manifest.                 *)
FailToDescribe(p) ==
    /\ promoter[p].at = "renamed"
    /\ Turn(p, "refused")
    /\ UNCHANGED <<candidate, staging, release, manifest>>

KillPromoter(p) ==
    /\ Promoting(p)
    /\ Turn(p, "killed")
    /\ UNCHANGED <<candidate, staging, release, manifest>>

(* The process is gone and its id is free for another.                      *)
LeavePromotion(p) ==
    /\ promoter[p].at \in {"done", "refused", "killed"}
    /\ promoter' = [promoter EXCEPT ![p] = [at |-> "idle", job |-> Missing]]
    /\ UNCHANGED <<candidate, staging, release, manifest>>

(* The candidate directories belong to others, who may write at any time.   *)
ChangeCandidates ==
    /\ candidate' \in [Target -> PartialTree]
    /\ UNCHANGED <<promoter, staging, release, manifest>>

PromoteStep(p) ==
    \/ \E f \in Artifact : CopyFile(p, f)
    \/ Expose(p) \/ AbandonPromotion(p) \/ Describe(p) \/ FailToDescribe(p)

PromotionNext ==
    \/ \E p \in Proc :
         \/ \E req \in Request : BeginPromotion(p, req) \/ RefusePromotion(p, req)
         \/ PromoteStep(p) \/ KillPromoter(p) \/ LeavePromotion(p)
    \/ ChangeCandidates

PromotionSpec == PromotionInit /\ [][PromotionNext]_promotionVars

-----------------------------------------------------------------------------
(* Properties                                                               *)

(* Every variable has its type.                                             *)
PromotionTypeOK ==
    /\ candidate \in [Target -> PartialTree]
    /\ promoter \in [Proc -> PromoterState]
    /\ staging \in [Target \X Proc -> PartialTree \cup {Missing}]
    /\ release \in [Target -> Tree \cup {Missing}]
    /\ manifest \subseteq [target : Target, files : Tree]

(* Also when two processes promote different files to one target, when a    *)
(* staging directory was left behind, or when the candidate changes while   *)
(* it is copied: a manifest lists exactly the files of the release, and a   *)
(* call that returned has both written.                                     *)
ManifestDescribes ==
    /\ \A m \in manifest : release[m.target] = m.files
    /\ \A p \in Proc : promoter[p].at = "done" =>
         [target |-> JobOf(p).target, files |-> JobOf(p).files] \in manifest

(* What is staged so far is what was asked for, and once it is renamed the  *)
(* release is that.                                                         *)
StagedBy(p) ==
    /\ promoter[p].at # "idle" => JobOf(p) \in Request
    /\ promoter[p].at = "copying" =>
         /\ staging[DirOf(p)] \in PartialTree
         /\ \A f \in DOMAIN staging[DirOf(p)] : staging[DirOf(p)][f] = JobOf(p).files[f]
    /\ promoter[p].at = "renamed" => release[JobOf(p).target] = JobOf(p).files

StagingInv == \A p \in Proc : StagedBy(p)

PromotionInv == PromotionTypeOK /\ StagingInv /\ ManifestDescribes

(* Releases appear whole and never change, and manifests describe what is   *)
(* there.                                                                   *)
Releases == INSTANCE ReleaseTree
ImplementsReleases == Releases!Spec
=============================================================================
