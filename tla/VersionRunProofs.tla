--------------------------- MODULE VersionRunProofs ---------------------------
(***************************************************************************)
(* The invariants of Promotion and of Inference, and that promotion         *)
(* implements ReleaseTree, for any number of processes, releases, files and *)
(* contents.                                                                *)
(***************************************************************************)
EXTENDS VersionRun, TLAPS

USE FilesAssumption, MissingAssumption

-----------------------------------------------------------------------------
(* Sets of files                                                            *)

LEMMA PartialTreeIs ==
    ASSUME NEW t
    PROVE  t \in PartialTree <=> \E S \in SUBSET Artifact : t \in [S -> Content]
  BY DEF PartialTree

LEMMA NoFilesArePartial == NoFiles \in PartialTree /\ DOMAIN NoFiles = {}
<1>1. DOMAIN NoFiles = {}
  BY DEF NoFiles
<1>2. NoFiles \in [{} -> Content]
  BY DEF NoFiles
<1> QED
  BY <1>1, <1>2, PartialTreeIs

LEMMA PartialTreeFields ==
    ASSUME NEW t \in PartialTree
    PROVE  /\ DOMAIN t \subseteq Artifact
           /\ \A f \in DOMAIN t : t[f] \in Content
           /\ t # Missing
<1>1. PICK S \in SUBSET Artifact : t \in [S -> Content]
  BY PartialTreeIs
<1> QED
  BY <1>1

LEMMA PartialTreeWith ==
    ASSUME NEW t \in PartialTree, NEW f \in Artifact, NEW c \in Content
    PROVE  [g \in DOMAIN t \cup {f} |-> IF g = f THEN c ELSE t[g]] \in PartialTree
<1> DEFINE S == DOMAIN t \cup {f}
           u == [g \in S |-> IF g = f THEN c ELSE t[g]]
<1>1. S \in SUBSET Artifact
  BY PartialTreeFields
<1>2. u \in [S -> Content]
  BY PartialTreeFields
<1> HIDE DEF S, u
<1>3. u \in PartialTree
  BY <1>1, <1>2, PartialTreeIs
<1> QED
  BY <1>3 DEF S, u

LEMMA CompleteTree ==
    ASSUME NEW t \in PartialTree, DOMAIN t = Artifact
    PROVE  t \in Tree
<1>1. PICK S \in SUBSET Artifact : t \in [S -> Content]
  BY PartialTreeIs
<1> QED
  BY <1>1 DEF Tree

(* Two complete trees that agree on every file are the same.                *)
LEMMA SameTree ==
    ASSUME NEW t \in Tree, NEW u \in Tree, \A f \in Artifact : t[f] = u[f]
    PROVE  t = u
  BY DEF Tree

LEMMA TreeIsThere ==
    ASSUME NEW t \in Tree
    PROVE  t \in PartialTree /\ t # Missing /\ DOMAIN t = Artifact
<1>1. t \in PartialTree
  BY PartialTreeIs DEF Tree
<1> QED
  BY <1>1 DEF Tree

-----------------------------------------------------------------------------
(* Promotion                                                                *)

(* A call that moves keeps its request.                                     *)
LEMMA TurnFields ==
    ASSUME PromotionTypeOK, NEW p \in Proc,
           NEW at \in {"idle", "copying", "renamed", "done", "refused", "killed"},
           Turn(p, at)
    PROVE  /\ promoter' \in [Proc -> PromoterState]
           /\ promoter'[p].at = at /\ promoter'[p].job = promoter[p].job
           /\ \A q \in Proc : q # p => promoter'[q] = promoter[q]
  BY DEF PromotionTypeOK, PromoterState, Turn

LEMMA TakeFields ==
    ASSUME PromotionTypeOK, NEW p \in Proc, NEW req \in Request,
           NEW at \in {"idle", "copying", "renamed", "done", "refused", "killed"},
           Take(p, req, at)
    PROVE  /\ promoter' \in [Proc -> PromoterState]
           /\ promoter'[p].at = at /\ promoter'[p].job = req
           /\ \A q \in Proc : q # p => promoter'[q] = promoter[q]
  BY DEF PromotionTypeOK, PromoterState, Take

LEMMA RequestFields ==
    ASSUME NEW req \in Request
    PROVE  req.root \in Target /\ req.target \in Target /\ req.files \in Tree
           /\ req # Missing
  BY DEF Request

(* The staging directories of two processes are not the same.               *)
LEMMA DirsDiffer ==
    ASSUME NEW p \in Proc, NEW q \in Proc, p # q, NEW r \in Request, NEW s \in Request
    PROVE  /\ Dir(p, r) \in Target \X Proc
           /\ Dir(p, r) # Dir(q, s)
  BY RequestFields DEF Dir

(* Whoever did not move, and whose staging directory was not touched, has   *)
(* staged what it had.                                                      *)
LEMMA OthersStaged ==
    ASSUME PromotionInv, NEW p \in Proc,
           \A q \in Proc : q # p => promoter'[q] = promoter[q],
           \A q \in Proc : q # p /\ promoter[q].at = "copying" =>
               staging'[DirOf(q)] = staging[DirOf(q)],
           \A t \in Target : release[t] # Missing => release'[t] = release[t]
    PROVE  \A q \in Proc : q # p => StagedBy(q)'
<1> SUFFICES ASSUME NEW q \in Proc, q # p
             PROVE  StagedBy(q)'
  OBVIOUS
<1>1. StagedBy(q) /\ promoter'[q] = promoter[q]
  BY DEF PromotionInv, StagingInv
<1>2. promoter[q].at = "renamed" => release'[JobOf(q).target] = JobOf(q).files
  <2> SUFFICES ASSUME promoter[q].at = "renamed"
               PROVE  release'[JobOf(q).target] = JobOf(q).files
    OBVIOUS
  <2>1. JobOf(q) \in Request /\ release[JobOf(q).target] = JobOf(q).files
    BY <1>1 DEF StagedBy
  <2>2. JobOf(q).target \in Target /\ JobOf(q).files # Missing
    BY <2>1, RequestFields, TreeIsThere
  <2> QED
    BY <2>1, <2>2
<1> QED
  BY <1>1, <1>2 DEF StagedBy, JobOf, DirOf, Dir

(* What a step has to keep so that the manifests stay true.                 *)
LEMMA ManifestsKept ==
    ASSUME PromotionInv, NEW p \in Proc,
           \A q \in Proc : q # p => promoter'[q] = promoter[q],
           \A t \in Target : release[t] # Missing => release'[t] = release[t],
           manifest \subseteq manifest',
           \A m \in manifest' \ manifest : release'[m.target] = m.files,
           promoter'[p].at = "done" =>
               [target |-> JobOf(p)'.target, files |-> JobOf(p)'.files] \in manifest'
    PROVE  ManifestDescribes'
<1>1. \A m \in manifest : release'[m.target] = m.files
  <2> SUFFICES ASSUME NEW m \in manifest
               PROVE  release'[m.target] = m.files
    OBVIOUS
  <2>1. m.target \in Target /\ m.files \in Tree /\ release[m.target] = m.files
    BY DEF PromotionInv, PromotionTypeOK, ManifestDescribes
  <2>2. m.files # Missing
    BY <2>1, TreeIsThere
  <2> QED
    BY <2>1, <2>2
<1>2. \A q \in Proc : promoter'[q].at = "done" =>
        [target |-> JobOf(q)'.target, files |-> JobOf(q)'.files] \in manifest'
  BY DEF PromotionInv, ManifestDescribes, JobOf
<1> QED
  BY <1>1, <1>2 DEF ManifestDescribes

LEMMA JobIsRequest ==
    ASSUME PromotionInv, NEW p \in Proc, promoter[p].at # "idle"
    PROVE  /\ JobOf(p) \in Request /\ JobOf(p).target \in Target
           /\ JobOf(p).files \in Tree /\ DirOf(p) \in Target \X Proc
<1>1. JobOf(p) \in Request
  BY DEF PromotionInv, StagingInv, StagedBy
<1> QED
  BY <1>1, RequestFields DEF DirOf, Dir

(* The staging directory of another process is another one.                 *)
LEMMA OtherDir ==
    ASSUME PromotionInv, NEW p \in Proc, NEW req \in Request,
           NEW q \in Proc, q # p, promoter[q].at = "copying"
    PROVE  DirOf(q) # Dir(p, req) /\ DirOf(q) \in Target \X Proc
  BY JobIsRequest, DirsDiffer DEF DirOf

LEMMA PromotionInit_Inv == PromotionInit => PromotionInv
<1> SUFFICES ASSUME PromotionInit
             PROVE  PromotionInv
  OBVIOUS
<1>1. PromotionTypeOK
  BY NoFilesArePartial DEF PromotionInit, PromotionTypeOK, PromoterState
<1>2. StagingInv
  BY DEF PromotionInit, StagingInv, StagedBy
<1>3. ManifestDescribes
  BY DEF PromotionInit, ManifestDescribes
<1> QED
  BY <1>1, <1>2, <1>3 DEF PromotionInv

(* A process begins or is refused.                                          *)
LEMMA BeginKeepsInv ==
    ASSUME PromotionInv, NEW p \in Proc, NEW req \in Request,
           BeginPromotion(p, req) \/ RefusePromotion(p, req)
    PROVE  PromotionInv'
<1>1. CASE RefusePromotion(p, req)
  <2>1. /\ promoter' \in [Proc -> PromoterState]
        /\ promoter'[p].at = "refused" /\ promoter'[p].job = req
        /\ \A q \in Proc : q # p => promoter'[q] = promoter[q]
    BY <1>1, TakeFields DEF RefusePromotion, PromotionInv
  <2>2. UNCHANGED <<candidate, staging, release, manifest>>
    BY <1>1 DEF RefusePromotion
  <2>3. PromotionTypeOK'
    BY <2>1, <2>2 DEF PromotionInv, PromotionTypeOK
  <2>4. StagedBy(p)'
    BY <2>1 DEF StagedBy, JobOf
  <2>5. \A q \in Proc : q # p => StagedBy(q)'
    BY <2>1, <2>2, OthersStaged
  <2>6. ManifestDescribes'
    BY <2>1, <2>2, ManifestsKept
  <2> QED
    BY <2>3, <2>4, <2>5, <2>6 DEF PromotionInv, StagingInv
<1>2. CASE BeginPromotion(p, req)
  <2>1. /\ promoter' \in [Proc -> PromoterState]
        /\ promoter'[p].at = "copying" /\ promoter'[p].job = req
        /\ \A q \in Proc : q # p => promoter'[q] = promoter[q]
    BY <1>2, TakeFields DEF BeginPromotion, PromotionInv
  <2>2. /\ UNCHANGED <<candidate, release, manifest>>
        /\ staging' = [staging EXCEPT ![Dir(p, req)] = NoFiles]
    BY <1>2 DEF BeginPromotion
  <2>3. Dir(p, req) \in Target \X Proc
    BY RequestFields DEF Dir
  <2>4. staging \in [Target \X Proc -> PartialTree \cup {Missing}]
    BY DEF PromotionInv, PromotionTypeOK
  <2>5. staging' \in [Target \X Proc -> PartialTree \cup {Missing}]
        /\ staging'[Dir(p, req)] = NoFiles
    BY <2>2, <2>3, <2>4, NoFilesArePartial
  <2>6. PromotionTypeOK'
    BY <2>1, <2>2, <2>5 DEF PromotionInv, PromotionTypeOK
  <2>7. JobOf(p)' = req /\ DirOf(p)' = Dir(p, req)
    BY <2>1 DEF JobOf, DirOf, Dir
  <2>8. StagedBy(p)'
    BY <2>1, <2>5, <2>7, NoFilesArePartial DEF StagedBy
  <2>9. \A q \in Proc : q # p /\ promoter[q].at = "copying" =>
          staging'[DirOf(q)] = staging[DirOf(q)]
    BY <2>2, <2>4, OtherDir
  <2>10. \A q \in Proc : q # p => StagedBy(q)'
    BY <2>1, <2>2, <2>9, OthersStaged
  <2>11. ManifestDescribes'
    BY <2>1, <2>2, ManifestsKept
  <2> QED
    BY <2>6, <2>8, <2>10, <2>11 DEF PromotionInv, StagingInv
<1> QED
  BY <1>1, <1>2

LEMMA CopyKeepsInv ==
    ASSUME PromotionInv, NEW p \in Proc, NEW f \in Artifact, CopyFile(p, f)
    PROVE  PromotionInv'
<1> DEFINE source == candidate[JobOf(p).root]
           staged == staging[DirOf(p)]
           more == [g \in DOMAIN staged \cup {f} |-> IF g = f THEN source[f] ELSE staged[g]]
<1>1. /\ promoter[p].at = "copying"
      /\ f \in DOMAIN source
      /\ source[f] = JobOf(p).files[f]
      /\ staging' = [staging EXCEPT ![DirOf(p)] = more]
      /\ UNCHANGED <<candidate, promoter, release, manifest>>
  BY DEF CopyFile
<1>2. /\ JobOf(p) \in Request /\ JobOf(p).files \in Tree
      /\ DirOf(p) \in Target \X Proc
  BY <1>1, JobIsRequest
<1>3. staged \in PartialTree /\ \A g \in DOMAIN staged : staged[g] = JobOf(p).files[g]
  BY <1>1 DEF PromotionInv, StagingInv, StagedBy
<1>4. source[f] \in Content
  BY <1>1, <1>2 DEF Tree
<1>5. more \in PartialTree
  BY <1>3, <1>4, PartialTreeWith
<1>6. \A g \in DOMAIN more : more[g] = JobOf(p).files[g]
  BY <1>1, <1>3
<1> HIDE DEF more, staged, source
<1>7. staging \in [Target \X Proc -> PartialTree \cup {Missing}]
  BY DEF PromotionInv, PromotionTypeOK
<1>8. /\ staging' \in [Target \X Proc -> PartialTree \cup {Missing}]
      /\ staging'[DirOf(p)] = more
  BY <1>1, <1>2, <1>5, <1>7
<1>9. PromotionTypeOK'
  BY <1>1, <1>8 DEF PromotionInv, PromotionTypeOK
<1>10. JobOf(p)' = JobOf(p) /\ DirOf(p)' = DirOf(p)
  BY <1>1 DEF JobOf, DirOf, Dir
<1>11. StagedBy(p)'
  BY <1>1, <1>2, <1>5, <1>6, <1>8, <1>10 DEF StagedBy
<1>12. \A q \in Proc : q # p /\ promoter[q].at = "copying" =>
         staging'[DirOf(q)] = staging[DirOf(q)]
  BY <1>1, <1>2, <1>7, OtherDir DEF DirOf
<1>13. \A q \in Proc : q # p => StagedBy(q)'
  BY <1>1, <1>12, OthersStaged
<1>14. ManifestDescribes'
  BY <1>1 DEF PromotionInv, ManifestDescribes, JobOf
<1> QED
  BY <1>9, <1>11, <1>13, <1>14 DEF PromotionInv, StagingInv

(* The whole staging directory becomes the release.                         *)
LEMMA ExposeIs ==
    ASSUME PromotionInv, NEW p \in Proc, Expose(p)
    PROVE  /\ promoter[p].at = "copying" /\ promoter'[p].at = "renamed"
           /\ JobOf(p)' = JobOf(p) /\ JobOf(p).target \in Target
           /\ release[JobOf(p).target] = Missing
           /\ staging[DirOf(p)] \in Tree /\ staging[DirOf(p)] = JobOf(p).files
           /\ release' = [release EXCEPT ![JobOf(p).target] = staging[DirOf(p)]]
           /\ UNCHANGED <<candidate, manifest>>
<1>1. promoter[p].at = "copying"
  BY DEF Expose
<1>2. JobOf(p).files \in Tree /\ JobOf(p).target \in Target
  BY <1>1, JobIsRequest
<1>3. /\ staging[DirOf(p)] \in PartialTree
      /\ \A f \in DOMAIN staging[DirOf(p)] : staging[DirOf(p)][f] = JobOf(p).files[f]
  BY <1>1 DEF PromotionInv, StagingInv, StagedBy
<1>4. DOMAIN staging[DirOf(p)] = Artifact
  BY DEF Expose
<1>5. staging[DirOf(p)] \in Tree
  BY <1>3, <1>4, CompleteTree
<1>6. staging[DirOf(p)] = JobOf(p).files
  BY <1>2, <1>3, <1>4, <1>5, SameTree
<1>7. promoter'[p].at = "renamed" /\ JobOf(p)' = JobOf(p)
  BY TurnFields DEF Expose, PromotionInv, JobOf
<1> QED
  BY <1>1, <1>2, <1>5, <1>6, <1>7 DEF Expose

LEMMA ExposeKeepsInv ==
    ASSUME PromotionInv, NEW p \in Proc, Expose(p)
    PROVE  PromotionInv'
<1>1. /\ promoter[p].at = "copying" /\ promoter'[p].at = "renamed"
      /\ JobOf(p)' = JobOf(p) /\ JobOf(p).target \in Target
      /\ release[JobOf(p).target] = Missing
      /\ staging[DirOf(p)] \in Tree /\ staging[DirOf(p)] = JobOf(p).files
      /\ release' = [release EXCEPT ![JobOf(p).target] = staging[DirOf(p)]]
      /\ UNCHANGED <<candidate, manifest>>
  BY ExposeIs
<1>2. /\ promoter' \in [Proc -> PromoterState]
      /\ \A q \in Proc : q # p => promoter'[q] = promoter[q]
  BY TurnFields DEF Expose, PromotionInv
<1>3. staging' = [staging EXCEPT ![DirOf(p)] = Missing]
  BY DEF Expose
<1>4. JobOf(p) \in Request /\ DirOf(p) \in Target \X Proc
  BY <1>1, JobIsRequest
<1>5. /\ staging \in [Target \X Proc -> PartialTree \cup {Missing}]
      /\ release \in [Target -> Tree \cup {Missing}]
  BY DEF PromotionInv, PromotionTypeOK
<1>6. PromotionTypeOK'
  BY <1>1, <1>2, <1>3, <1>4, <1>5 DEF PromotionInv, PromotionTypeOK
<1>7. StagedBy(p)'
  BY <1>1, <1>4, <1>5 DEF StagedBy
<1>8. \A q \in Proc : q # p /\ promoter[q].at = "copying" =>
        staging'[DirOf(q)] = staging[DirOf(q)]
  BY <1>3, <1>4, <1>5, OtherDir DEF DirOf
<1>9. \A t \in Target : release[t] # Missing => release'[t] = release[t]
  BY <1>1, <1>5
<1>10. \A q \in Proc : q # p => StagedBy(q)'
  BY <1>2, <1>8, <1>9, OthersStaged
<1>11. ManifestDescribes'
  BY <1>1, <1>2, <1>9, ManifestsKept
<1> QED
  BY <1>6, <1>7, <1>10, <1>11 DEF PromotionInv, StagingInv

LEMMA AbandonKeepsInv ==
    ASSUME PromotionInv, NEW p \in Proc, AbandonPromotion(p)
    PROVE  PromotionInv'
<1>1. /\ promoter[p].at = "copying"
      /\ staging' = [staging EXCEPT ![DirOf(p)] = Missing]
      /\ UNCHANGED <<candidate, release, manifest>>
  BY DEF AbandonPromotion
<1>2. /\ promoter' \in [Proc -> PromoterState]
      /\ promoter'[p].at = "refused" /\ promoter'[p].job = promoter[p].job
      /\ \A q \in Proc : q # p => promoter'[q] = promoter[q]
  BY TurnFields DEF AbandonPromotion, PromotionInv
<1>3. JobOf(p) \in Request /\ DirOf(p) \in Target \X Proc
  BY <1>1, JobIsRequest
<1>4. staging \in [Target \X Proc -> PartialTree \cup {Missing}]
  BY DEF PromotionInv, PromotionTypeOK
<1>5. PromotionTypeOK'
  BY <1>1, <1>2, <1>3, <1>4 DEF PromotionInv, PromotionTypeOK
<1>6. StagedBy(p)'
  BY <1>2, <1>3 DEF StagedBy, JobOf
<1>7. \A q \in Proc : q # p /\ promoter[q].at = "copying" =>
        staging'[DirOf(q)] = staging[DirOf(q)]
  BY <1>1, <1>3, <1>4, OtherDir DEF DirOf
<1>8. \A q \in Proc : q # p => StagedBy(q)'
  BY <1>1, <1>2, <1>7, OthersStaged
<1>9. ManifestDescribes'
  BY <1>1, <1>2, ManifestsKept
<1> QED
  BY <1>5, <1>6, <1>8, <1>9 DEF PromotionInv, StagingInv

LEMMA DescribeKeepsInv ==
    ASSUME PromotionInv, NEW p \in Proc, Describe(p)
    PROVE  PromotionInv'
<1> DEFINE m == [target |-> JobOf(p).target, files |-> JobOf(p).files]
<1>1. /\ promoter[p].at = "renamed"
      /\ manifest' = manifest \cup {m}
      /\ UNCHANGED <<candidate, staging, release>>
  BY DEF Describe
<1>2. /\ promoter' \in [Proc -> PromoterState]
      /\ promoter'[p].at = "done" /\ promoter'[p].job = promoter[p].job
      /\ \A q \in Proc : q # p => promoter'[q] = promoter[q]
  BY TurnFields DEF Describe, PromotionInv
<1>3. /\ JobOf(p) \in Request /\ JobOf(p).target \in Target /\ JobOf(p).files \in Tree
      /\ JobOf(p)' = JobOf(p)
  BY <1>1, <1>2, JobIsRequest DEF JobOf
<1>4. release[JobOf(p).target] = JobOf(p).files
  BY <1>1 DEF PromotionInv, StagingInv, StagedBy
<1>5. PromotionTypeOK'
  BY <1>1, <1>2, <1>3 DEF PromotionInv, PromotionTypeOK
<1>6. StagedBy(p)'
  BY <1>2, <1>3 DEF StagedBy
<1>7. \A q \in Proc : q # p => StagedBy(q)'
  BY <1>1, <1>2, OthersStaged
<1>8. ManifestDescribes'
  <2>1. \A n \in manifest' \ manifest : release'[n.target] = n.files
    BY <1>1, <1>4
  <2>2. [target |-> JobOf(p)'.target, files |-> JobOf(p)'.files] \in manifest'
    BY <1>1, <1>3
  <2> QED
    BY <1>1, <1>2, <2>1, <2>2, ManifestsKept
<1> QED
  BY <1>5, <1>6, <1>7, <1>8 DEF PromotionInv, StagingInv

(* Only the process moves: it fails after the rename, is killed or leaves.  *)
LEMMA StopKeepsInv ==
    ASSUME PromotionInv, NEW p \in Proc,
           FailToDescribe(p) \/ KillPromoter(p) \/ LeavePromotion(p)
    PROVE  PromotionInv'
<1>1. UNCHANGED <<candidate, staging, release, manifest>>
  BY DEF FailToDescribe, KillPromoter, LeavePromotion
<1>2. /\ promoter' \in [Proc -> PromoterState]
      /\ \A q \in Proc : q # p => promoter'[q] = promoter[q]
      /\ \/ promoter'[p].at = "idle"
         \/ /\ promoter[p].at # "idle" /\ promoter'[p].job = promoter[p].job
            /\ promoter'[p].at \in {"refused", "killed"}
  <2>1. CASE FailToDescribe(p)
    BY <2>1, TurnFields DEF FailToDescribe, PromotionInv
  <2>2. CASE KillPromoter(p)
    BY <2>2, TurnFields DEF KillPromoter, Promoting, PromotionInv
  <2>3. CASE LeavePromotion(p)
    BY <2>3 DEF LeavePromotion, PromotionInv, PromotionTypeOK, PromoterState
  <2> QED
    BY <2>1, <2>2, <2>3
<1>3. PromotionTypeOK'
  BY <1>1, <1>2 DEF PromotionInv, PromotionTypeOK
<1>4. StagedBy(p)'
  BY <1>2, JobIsRequest DEF StagedBy, JobOf
<1>5. \A q \in Proc : q # p => StagedBy(q)'
  BY <1>1, <1>2, OthersStaged
<1>6. ManifestDescribes'
  BY <1>1, <1>2, ManifestsKept
<1> QED
  BY <1>3, <1>4, <1>5, <1>6 DEF PromotionInv, StagingInv

LEMMA ChangeKeepsInv ==
    ASSUME PromotionInv,
           ChangeCandidates \/ UNCHANGED promotionVars
    PROVE  PromotionInv'
<1>1. /\ candidate' \in [Target -> PartialTree]
      /\ UNCHANGED <<promoter, staging, release, manifest>>
  BY DEF ChangeCandidates, promotionVars, PromotionInv, PromotionTypeOK
<1> QED
  BY <1>1 DEF PromotionInv, PromotionTypeOK, StagingInv, StagedBy, ManifestDescribes,
              JobOf, DirOf, Dir

-----------------------------------------------------------------------------
(* Promotion: the theorems                                                  *)

LEMMA PromotionStep ==
    ASSUME PromotionInv, [PromotionNext]_promotionVars
    PROVE  PromotionInv'
<1>1. CASE ChangeCandidates \/ UNCHANGED promotionVars
  BY <1>1, ChangeKeepsInv
<1>2. ASSUME NEW p \in Proc, NEW req \in Request,
             BeginPromotion(p, req) \/ RefusePromotion(p, req)
      PROVE  PromotionInv'
  BY <1>2, BeginKeepsInv
<1>3. ASSUME NEW p \in Proc, PromoteStep(p)
      PROVE  PromotionInv'
  <2>1. CASE \E f \in Artifact : CopyFile(p, f)
    BY <2>1, CopyKeepsInv
  <2>2. CASE Expose(p)
    BY <2>2, ExposeKeepsInv
  <2>3. CASE AbandonPromotion(p)
    BY <2>3, AbandonKeepsInv
  <2>4. CASE Describe(p)
    BY <2>4, DescribeKeepsInv
  <2>5. CASE FailToDescribe(p)
    BY <2>5, StopKeepsInv
  <2> QED
    BY <1>3, <2>1, <2>2, <2>3, <2>4, <2>5 DEF PromoteStep
<1>4. ASSUME NEW p \in Proc, KillPromoter(p) \/ LeavePromotion(p)
      PROVE  PromotionInv'
  BY <1>4, StopKeepsInv
<1> QED
  BY <1>1, <1>2, <1>3, <1>4 DEF PromotionNext

(* promote_release: what is staged is what was asked for, and manifests     *)
(* describe the releases, whatever the processes and their requests.        *)
THEOREM PromotionInvariance == PromotionSpec => []PromotionInv
  BY PromotionInit_Inv, PromotionStep, PTL DEF PromotionSpec

(* A promotion manifest lists exactly the files that are in the release.    *)
THEOREM ManifestsDescribe == PromotionSpec => []ManifestDescribes
<1>1. PromotionInv => ManifestDescribes
  BY DEF PromotionInv
<1> QED
  BY <1>1, PromotionInvariance, PTL

LEMMA StepAppears ==
    ASSUME PromotionInv, [PromotionNext]_promotionVars
    PROVE  [Releases!Next]_Releases!vars
<1>1. ASSUME NEW p \in Proc, Expose(p)
      PROVE  Releases!Next
  BY <1>1, ExposeIs DEF Releases!Next, Releases!Appear
<1>2. ASSUME NEW p \in Proc, Describe(p)
      PROVE  Releases!Next
  <2>1. promoter[p].at = "renamed"
    BY <1>2 DEF Describe
  <2>2. JobOf(p).target \in Target /\ JobOf(p).files # Missing
    BY <2>1, JobIsRequest, TreeIsThere
  <2>3. release[JobOf(p).target] = JobOf(p).files
    BY <2>1 DEF PromotionInv, StagingInv, StagedBy
  <2> QED
    BY <1>2, <2>2, <2>3 DEF Describe, Releases!Next, Releases!Describe
<1> QED
  BY <1>1, <1>2 DEF PromotionNext, PromoteStep, promotionVars, BeginPromotion,
     RefusePromotion, CopyFile, AbandonPromotion, FailToDescribe, KillPromoter,
     LeavePromotion, ChangeCandidates, Releases!vars

(* Promotion implements the release directory its readers count on: a       *)
(* release appears whole, once, and is described as it is.                  *)
THEOREM PromotionImplements == PromotionSpec => ImplementsReleases
<1>1. PromotionInit => Releases!Init
  BY DEF PromotionInit, Releases!Init
<1>2. PromotionInv /\ [PromotionNext]_promotionVars => [Releases!Next]_Releases!vars
  BY StepAppears
<1> QED
  BY <1>1, <1>2, PromotionInvariance, PTL DEF PromotionSpec, Releases!Spec, ImplementsReleases

-----------------------------------------------------------------------------
(* Inference                                                                *)

LEMMA CheckFields ==
    /\ DOMAIN Checks = 1..Len(Checks) /\ Len(Checks) \in Nat
    /\ \A k \in DOMAIN Checks : Checks[k].kind \in {"pin", "tree"} /\ Checks[k].file \in Input
<1>1. Checks \in Seq(Check)
  BY CheckAssumption
<1>2. DOMAIN Checks = 1..Len(Checks) /\ Len(Checks) \in Nat
      /\ \A k \in DOMAIN Checks : Checks[k] \in Check
  BY <1>1
<1> QED
  BY <1>2 DEF Check

LEMMA WeightsAreInputs == Weights \subseteq Input
  BY CheckAssumption

Places == {"idle", "verifying", "loading", "rechecking", "publishing", "linking", "done",
           "failed", "killed"}

LEMMA SessionFields ==
    ASSUME InferenceTypeOK, NEW p \in Proc
    PROVE  /\ session[p].at \in Places /\ session[p].next \in Nat
           /\ session[p].seen \in [DOMAIN Checks -> Nat]
           /\ session[p].last \in [DOMAIN Checks -> Nat]
           /\ session[p].loaded \in [Weights -> Content \cup {Missing}]
  BY DEF InferenceTypeOK, SessionState, Places

LEMMA EnterFields ==
    ASSUME InferenceTypeOK, NEW p \in Proc, NEW at \in Places, Enter(p, at)
    PROVE  /\ session' \in [Proc -> SessionState]
           /\ session'[p].at = at /\ session'[p].next = 1
           /\ session'[p].seen = session[p].seen /\ session'[p].last = session[p].last
           /\ session'[p].loaded = session[p].loaded
           /\ \A q \in Proc : q # p => session'[q] = session[q]
<1> DEFINE s == [session[p] EXCEPT !.at = at, !.next = 1]
<1>1. session \in [Proc -> SessionState] /\ session' = [session EXCEPT ![p] = s]
  BY DEF InferenceTypeOK, Enter
<1>2. /\ s \in SessionState /\ s.at = at /\ s.next = 1
      /\ s.seen = session[p].seen /\ s.last = session[p].last
      /\ s.loaded = session[p].loaded
  BY <1>1 DEF SessionState, Places
<1> HIDE DEF s
<1> QED
  BY <1>1, <1>2

LEMMA NoSessionFields ==
    /\ NoSession \in SessionState /\ NoSession.at = "idle" /\ NoSession.next = 1
    /\ \A f \in Weights : NoSession.loaded[f] = Missing
  BY DEF NoSession, SessionState

(* What a session knows does not change while another moves.                *)
LEMMA OtherSession ==
    ASSUME NEW q \in Proc, SessionInv(q), session'[q] = session[q],
           UNCHANGED <<disk, request>>
    PROVE  SessionInv(q)'
  BY DEF SessionInv, BoundBy, Verified, Rechecked, LoadedOther, InSession

(* A session that is over, or has not begun, is bound by nothing.           *)
LEMMA NothingBound ==
    ASSUME NEW p \in Proc, session'[p].at \in {"idle", "failed", "killed"},
           NEW k \in DOMAIN Checks
    PROVE  BoundBy(p, k)'
  BY DEF BoundBy, Verified, Rechecked, LoadedOther, InSession

LEMMA EndedSession ==
    ASSUME InferenceTypeOK, NEW p \in Proc, SessionInv(p), session[p].at # "idle",
           session'[p].at \in {"failed", "killed"},
           session'[p].next \in {1, session[p].next}, request' = request
    PROVE  SessionInv(p)'
  BY CheckFields, NothingBound DEF SessionInv, InSession

(* A process enters the next phase: what was bound stays bound, and what is *)
(* newly verified or checked again is all there was to check.               *)
LEMMA PhaseKeepsSession ==
    ASSUME InferenceTypeOK, NEW p \in Proc, SessionInv(p),
           UNCHANGED <<disk, request>>,
           \/ InSession(p, "idle") /\ request # Missing /\ Enter(p, "verifying")
           \/ EndVerification(p) \/ Generate(p) \/ Seal(p)
           \/ InSession(p, "publishing") /\ Enter(p, "linking")
           \/ InSession(p, "linking") /\ Enter(p, "done")
    PROVE  SessionInv(p)'
<1>1. PICK at \in Places : Enter(p, at) /\
        \/ InSession(p, "idle") /\ request # Missing /\ at = "verifying"
        \/ EndVerification(p) /\ at = "loading"
        \/ Generate(p) /\ at = "rechecking"
        \/ Seal(p) /\ at = "publishing"
        \/ InSession(p, "publishing") /\ at = "linking"
        \/ InSession(p, "linking") /\ at = "done"
  BY DEF EndVerification, Generate, Seal, Places
<1>2. /\ session'[p].at = at /\ session'[p].next = 1
      /\ session'[p].seen = session[p].seen /\ session'[p].last = session[p].last
      /\ session'[p].loaded = session[p].loaded
  BY <1>1, EnterFields
<1>3. session[p].next \in 1..(Len(Checks) + 1)
  BY DEF SessionInv
<1>4. \/ session[p].at = "idle" /\ request # Missing /\ at = "verifying"
      \/ session[p].at = "verifying" /\ at = "loading" /\ session[p].next = Len(Checks) + 1
      \/ session[p].at = "loading" /\ at = "rechecking"
           /\ \A f \in Weights : session[p].loaded[f] # Missing
      \/ session[p].at = "rechecking" /\ at = "publishing" /\ session[p].next = Len(Checks) + 1
      \/ session[p].at = "publishing" /\ at = "linking"
      \/ session[p].at = "linking" /\ at = "done"
  BY <1>1, <1>3, CheckFields DEF EndVerification, Generate, Seal, InSession
<1>5. ASSUME NEW k \in DOMAIN Checks
      PROVE  BoundBy(p, k)'
  <2>1. BoundBy(p, k) /\ k \in 1..Len(Checks)
    BY CheckFields DEF SessionInv
  <2>2. /\ Verified(p, k)' => Verified(p, k)
        /\ Rechecked(p, k)' => Rechecked(p, k)
    BY <1>2, <1>4, <2>1, CheckFields DEF Verified, Rechecked, InSession
  <2>3. LoadedOther(p, k)' => LoadedOther(p, k)
    <3>1. CASE session[p].at = "verifying"
      BY <1>2, <3>1 DEF SessionInv, LoadedOther
    <3>2. CASE session[p].at = "idle"
      BY <1>2, <1>4, <3>2 DEF LoadedOther
    <3> QED
      BY <1>2, <1>4, <3>1, <3>2 DEF LoadedOther
  <2> QED
    BY <1>2, <2>1, <2>2, <2>3 DEF BoundBy
<1> QED
  BY <1>2, <1>3, <1>4, <1>5, CheckFields DEF SessionInv, InSession

LEMMA VerifyKeepsSession ==
    ASSUME InferenceTypeOK, NEW p \in Proc, SessionInv(p), VerifyInput(p)
    PROVE  /\ SessionInv(p)' /\ session' \in [Proc -> SessionState]
           /\ session'[p].at = session[p].at
           /\ \A q \in Proc : q # p => session'[q] = session[q]
<1> DEFINE n == session[p].next
           s == [session[p] EXCEPT !.seen[n] = Writes(n), !.next = n + 1]
<1>1. /\ session[p].at = "verifying" /\ n \in DOMAIN Checks /\ Matches(n)
      /\ session' = [session EXCEPT ![p] = s]
      /\ UNCHANGED <<disk, request, output>>
  BY DEF VerifyInput, InSession
<1>2. n \in 1..Len(Checks) /\ Len(Checks) \in Nat
  BY <1>1, CheckFields
<1>3. Writes(n) \in Nat
  BY <1>1, CheckFields DEF Writes, InferenceTypeOK
<1>4. /\ s \in SessionState /\ s.at = "verifying" /\ s.next = n + 1
      /\ s.last = session[p].last /\ s.loaded = session[p].loaded
      /\ s.seen = [session[p].seen EXCEPT ![n] = Writes(n)]
  <2> DEFINE noted == [session[p].seen EXCEPT ![n] = Writes(n)]
  <2>1. session[p] \in SessionState /\ n + 1 \in Nat
    BY <1>2 DEF InferenceTypeOK
  <2>2. noted \in [DOMAIN Checks -> Nat]
    BY <1>1, <1>3, SessionFields
  <2>3. s = [session[p] EXCEPT !.seen = noted, !.next = n + 1]
    BY <2>1 DEF SessionState
  <2> HIDE DEF noted, s
  <2>4. /\ s \in SessionState /\ s.at = "verifying" /\ s.next = n + 1
        /\ s.last = session[p].last /\ s.loaded = session[p].loaded
        /\ s.seen = noted
    BY <1>1, <2>1, <2>2, <2>3 DEF SessionState
  <2> QED
    BY <2>4 DEF noted
<1>5. /\ session' \in [Proc -> SessionState] /\ session'[p] = s
      /\ \A q \in Proc : q # p => session'[q] = session[q]
  BY <1>1, <1>4 DEF InferenceTypeOK
<1> HIDE DEF s
<1>6. ASSUME NEW k \in DOMAIN Checks
      PROVE  BoundBy(p, k)'
  <2>1. BoundBy(p, k) /\ k \in 1..Len(Checks)
    BY CheckFields DEF SessionInv
  <2>2. CASE k = n
    <3>1. s.seen[k] = Writes(k)
      BY <1>4, <2>2, SessionFields
    <3>2. disk[Checks[k].file].content = request.tree[Checks[k].file]
             \/ Checks[k].kind = "pin"
      BY <1>1, <2>2, CheckFields DEF Matches, DigestOf
    <3>3. ~Rechecked(p, k)' /\ ~LoadedOther(p, k)'
      BY <1>4, <1>5 DEF Rechecked, LoadedOther, InSession
    <3>4. session'[p].seen[k] = disk'[Checks[k].file].writes
          /\ disk'[Checks[k].file].writes \in Nat
      BY <1>1, <1>3, <1>5, <2>2, <3>1 DEF Writes
    <3>5. disk'[Checks[k].file].content = request'.tree[Checks[k].file]
             \/ Checks[k].kind = "pin"
      BY <1>1, <3>2
    <3> QED
      BY <3>3, <3>4, <3>5 DEF BoundBy
  <2>3. CASE k # n
    <3>1. s.seen[k] = session[p].seen[k]
      BY <1>4, <2>3, SessionFields
    <3>2. Verified(p, k)' => Verified(p, k)
      BY <1>1, <1>2, <1>4, <1>5, <2>1, <2>3 DEF Verified, InSession
    <3> QED
      BY <1>1, <1>4, <1>5, <2>1, <3>1, <3>2 DEF BoundBy, Rechecked, LoadedOther, InSession
  <2> QED
    BY <2>2, <2>3
<1> QED
  BY <1>1, <1>2, <1>4, <1>5, <1>6 DEF SessionInv, InSession

LEMMA LoadKeepsSession ==
    ASSUME InferenceTypeOK, NEW p \in Proc, SessionInv(p), NEW f \in Weights, LoadFile(p, f)
    PROVE  /\ SessionInv(p)' /\ session' \in [Proc -> SessionState]
           /\ session'[p].at = session[p].at
           /\ \A q \in Proc : q # p => session'[q] = session[q]
<1> DEFINE s == [session[p] EXCEPT !.loaded[f] = disk[f].content]
<1>1. /\ session[p].at = "loading" /\ session' = [session EXCEPT ![p] = s]
      /\ UNCHANGED <<disk, request, output>>
  BY DEF LoadFile, InSession, InferenceTypeOK, SessionState
<1>2. disk[f].content \in Content /\ f \in Input
  BY WeightsAreInputs DEF InferenceTypeOK
<1>3. /\ s \in SessionState /\ s.at = "loading" /\ s.next = session[p].next
      /\ s.last = session[p].last /\ s.seen = session[p].seen
      /\ s.loaded = [session[p].loaded EXCEPT ![f] = disk[f].content]
  BY <1>1, <1>2 DEF InferenceTypeOK, SessionState
<1>4. /\ session' \in [Proc -> SessionState] /\ session'[p] = s
      /\ \A q \in Proc : q # p => session'[q] = session[q]
  BY <1>1, <1>3 DEF InferenceTypeOK
<1> HIDE DEF s
<1>5. ASSUME NEW k \in DOMAIN Checks
      PROVE  BoundBy(p, k)'
  <2> DEFINE g == Checks[k].file
  <2>1. BoundBy(p, k) /\ Verified(p, k) /\ Verified(p, k)'
    BY <1>1, <1>3, <1>4 DEF SessionInv, Verified
  <2>2. ~Rechecked(p, k)'
    BY <1>1, <1>3, <1>4 DEF Rechecked, InSession
  <2>3. g \in Input /\ disk[g].writes \in Nat /\ session[p].seen[k] \in Nat
    BY CheckFields, SessionFields DEF InferenceTypeOK
  <2>4. CASE g # f
    <3>1. LoadedOther(p, k)' => LoadedOther(p, k)
      BY <1>1, <1>3, <1>4, <2>4, SessionFields DEF LoadedOther
    <3> QED
      BY <1>1, <1>3, <1>4, <2>1, <2>2, <3>1 DEF BoundBy
  <2>5. CASE g = f
    <3>1. LoadedOther(p, k)' =>
            Checks[k].kind = "tree" /\ disk[g].content # request.tree[g]
      BY <1>1, <1>3, <1>4, <2>5, SessionFields DEF LoadedOther
    <3> QED
      BY <1>1, <1>3, <1>4, <2>1, <2>2, <2>3, <3>1 DEF BoundBy
  <2> QED
    BY <2>4, <2>5
<1> QED
  BY <1>1, <1>3, <1>4, <1>5 DEF SessionInv, InSession

LEMMA RecheckKeepsSession ==
    ASSUME InferenceTypeOK, NEW p \in Proc, SessionInv(p), RecheckInput(p)
    PROVE  /\ SessionInv(p)' /\ session' \in [Proc -> SessionState]
           /\ session'[p].at = session[p].at
           /\ \A q \in Proc : q # p => session'[q] = session[q]
<1> DEFINE n == session[p].next
           s == [session[p] EXCEPT !.last[n] = Writes(n), !.next = n + 1]
<1>1. /\ session[p].at = "rechecking" /\ n \in DOMAIN Checks /\ Matches(n)
      /\ Checks[n].kind = "pin" => Writes(n) = session[p].seen[n]
      /\ session' = [session EXCEPT ![p] = s]
      /\ UNCHANGED <<disk, request, output>>
  BY DEF RecheckInput, InSession
<1>2. n \in 1..Len(Checks) /\ Len(Checks) \in Nat
  BY <1>1, CheckFields
<1>3. Writes(n) \in Nat
  BY <1>1, CheckFields DEF Writes, InferenceTypeOK
<1>4. /\ s \in SessionState /\ s.at = "rechecking" /\ s.next = n + 1
      /\ s.seen = session[p].seen /\ s.loaded = session[p].loaded
      /\ s.last = [session[p].last EXCEPT ![n] = Writes(n)]
  <2> DEFINE noted == [session[p].last EXCEPT ![n] = Writes(n)]
  <2>1. session[p] \in SessionState /\ n + 1 \in Nat
    BY <1>2 DEF InferenceTypeOK
  <2>2. noted \in [DOMAIN Checks -> Nat]
    BY <1>1, <1>3, SessionFields
  <2>3. s = [session[p] EXCEPT !.last = noted, !.next = n + 1]
    BY <2>1 DEF SessionState
  <2> HIDE DEF noted, s
  <2>4. /\ s \in SessionState /\ s.at = "rechecking" /\ s.next = n + 1
        /\ s.seen = session[p].seen /\ s.loaded = session[p].loaded
        /\ s.last = noted
    BY <1>1, <2>1, <2>2, <2>3 DEF SessionState
  <2> QED
    BY <2>4 DEF noted
<1>5. /\ session' \in [Proc -> SessionState] /\ session'[p] = s
      /\ \A q \in Proc : q # p => session'[q] = session[q]
  BY <1>1, <1>4 DEF InferenceTypeOK
<1> HIDE DEF s
<1>6. ASSUME NEW k \in DOMAIN Checks
      PROVE  BoundBy(p, k)'
  <2> DEFINE g == Checks[k].file
  <2>1. BoundBy(p, k) /\ k \in 1..Len(Checks)
    BY CheckFields DEF SessionInv
  <2>2. Verified(p, k) /\ (LoadedOther(p, k)' <=> LoadedOther(p, k))
    BY <1>1, <1>4, <1>5 DEF Verified, LoadedOther
  <2>3. g \in Input /\ disk[g].writes \in Nat /\ session[p].seen[k] \in Nat
    BY CheckFields, SessionFields DEF InferenceTypeOK
  <2>4. CASE k = n
    <3>1. s.last[k] = disk[g].writes
      BY <1>4, <2>4, SessionFields DEF Writes
    <3>2. Checks[k].kind = "tree" => disk[g].content = request.tree[g]
      BY <1>1, <2>4 DEF Matches, DigestOf
    <3>3. Checks[k].kind = "pin" => s.last[k] = s.seen[k]
      BY <1>1, <1>4, <2>4, <3>1 DEF Writes
    <3>4. LoadedOther(p, k) => s.last[k] >= s.seen[k] + 2
      <4> SUFFICES ASSUME LoadedOther(p, k)
                   PROVE  s.last[k] >= s.seen[k] + 2
        OBVIOUS
      <4>1. /\ disk[g].writes >= session[p].seen[k] + 1
            /\ disk[g].writes = session[p].seen[k] + 1 => disk[g].content # request.tree[g]
        BY <2>1 DEF BoundBy
      <4>2. disk[g].content = request.tree[g]
        BY <3>2 DEF LoadedOther
      <4> QED
        BY <1>4, <2>3, <3>1, <4>1, <4>2
    <3>5. s.last[k] <= disk[g].writes
      BY <2>3, <3>1
    <3> QED
      BY <1>1, <1>4, <1>5, <2>1, <2>2, <3>2, <3>3, <3>4, <3>5 DEF BoundBy
  <2>5. CASE k # n
    <3>1. s.last[k] = session[p].last[k]
      BY <1>4, <2>5, SessionFields
    <3>2. Rechecked(p, k)' => Rechecked(p, k)
      BY <1>1, <1>2, <1>4, <1>5, <2>1, <2>5 DEF Rechecked, InSession
    <3> QED
      BY <1>1, <1>4, <1>5, <2>1, <2>2, <3>1, <3>2 DEF BoundBy
  <2> QED
    BY <2>4, <2>5
<1> QED
  BY <1>1, <1>2, <1>4, <1>5, <1>6 DEF SessionInv, InSession

(* A step that neither begins to fill the output nor finishes it.           *)
LEMMA OutputKept ==
    ASSUME OutputInv, OutputIsOwned, output' = output, NEW p \in Proc,
           \A q \in Proc : q # p => session'[q] = session[q],
           session'[p].at \in {"linking", "done"} => session'[p].at = session[p].at
    PROVE  OutputInv' /\ OutputIsOwned'
<1>1. \A q \in Proc : session'[q].at \in {"linking", "done"} => session'[q].at = session[q].at
  OBVIOUS
<1>2. OutputInv'
  BY <1>1 DEF OutputInv, InSession
<1>3. OutputIsOwned'
  BY <1>1 DEF OutputIsOwned, InSession
<1> QED
  BY <1>2, <1>3

(* One session moves, the files do not.                                     *)
LEMMA SessionMoves ==
    ASSUME InferenceInv, NEW p \in Proc, UNCHANGED <<disk, request>>,
           session' \in [Proc -> SessionState],
           \A q \in Proc : q # p => session'[q] = session[q],
           SessionInv(p)', OutputInv', OutputIsOwned',
           output' \in [made : BOOLEAN, files : [Part -> Proc \cup {Missing}]]
    PROVE  InferenceInv'
<1>1. InferenceTypeOK'
  BY DEF InferenceInv, InferenceTypeOK
<1>2. \A q \in Proc : SessionInv(q)'
  <2> SUFFICES ASSUME NEW q \in Proc, q # p
               PROVE  SessionInv(q)'
    OBVIOUS
  <2>1. SessionInv(q) /\ session'[q] = session[q]
    BY DEF InferenceInv
  <2> QED
    BY <2>1, OtherSession
<1> QED
  BY <1>1, <1>2 DEF InferenceInv

LEMMA QuietKeepsInv ==
    ASSUME InferenceInv, NEW p \in Proc,
           \/ VerifyInput(p) \/ RecheckInput(p) \/ \E f \in Weights : LoadFile(p, f)
           \/ EndVerification(p) \/ Generate(p) \/ Seal(p)
           \/ BeginInference(p)
    PROVE  InferenceInv'
<1>1. UNCHANGED <<disk, request, output>>
  BY DEF VerifyInput, RecheckInput, LoadFile, EndVerification, Generate, Seal, BeginInference
<1>2. InferenceTypeOK /\ SessionInv(p) /\ OutputInv /\ OutputIsOwned
  BY DEF InferenceInv
<1>3. /\ SessionInv(p)' /\ session' \in [Proc -> SessionState]
      /\ \A q \in Proc : q # p => session'[q] = session[q]
      /\ session'[p].at \in {"linking", "done"} => session'[p].at = session[p].at
  <2>1. CASE VerifyInput(p) \/ RecheckInput(p) \/ \E f \in Weights : LoadFile(p, f)
    BY <1>2, <2>1, VerifyKeepsSession, RecheckKeepsSession, LoadKeepsSession
  <2>2. CASE EndVerification(p) \/ Generate(p) \/ Seal(p) \/ BeginInference(p)
    <3>1. PICK at \in {"verifying", "loading", "rechecking", "publishing"} : Enter(p, at)
      BY <2>2 DEF EndVerification, Generate, Seal, BeginInference
    <3>2. at \in Places
      BY DEF Places
    <3>3. SessionInv(p)'
      BY <1>1, <1>2, <2>2, PhaseKeepsSession DEF BeginInference
    <3> QED
      BY <1>2, <3>1, <3>2, <3>3, EnterFields
  <2> QED
    BY <2>1, <2>2
<1>4. OutputInv' /\ OutputIsOwned'
  BY <1>1, <1>2, <1>3, OutputKept
<1> QED
  BY <1>1, <1>2, <1>3, <1>4, SessionMoves DEF InferenceTypeOK

(* A call fails without touching the output, is killed, or leaves.          *)
LEMMA EndKeepsInv ==
    ASSUME InferenceInv, NEW p \in Proc,
           \/ RefuseInference(p) \/ AbandonInference(p) \/ InterruptLinking(p)
           \/ KillInference(p) \/ LeaveInference(p)
    PROVE  InferenceInv'
<1>1. UNCHANGED <<disk, request, output>>
  BY DEF RefuseInference, AbandonInference, InterruptLinking, KillInference, LeaveInference
<1>2. InferenceTypeOK /\ SessionInv(p) /\ OutputInv /\ OutputIsOwned
  BY DEF InferenceInv
<1>3. /\ SessionInv(p)' /\ session' \in [Proc -> SessionState]
      /\ \A q \in Proc : q # p => session'[q] = session[q]
      /\ session'[p].at \notin {"linking", "done"}
  <2>1. CASE RefuseInference(p) \/ AbandonInference(p) \/ InterruptLinking(p)
    <3>1. Enter(p, "failed") /\ "failed" \in Places
      BY <2>1 DEF RefuseInference, AbandonInference, InterruptLinking, Places
    <3>2. /\ session' \in [Proc -> SessionState]
          /\ session'[p].at = "failed" /\ session'[p].next = 1
          /\ \A q \in Proc : q # p => session'[q] = session[q]
      BY <1>2, <3>1, EnterFields
    <3>3. request # Missing
      BY <1>2, <2>1 DEF RefuseInference, AbandonInference, InterruptLinking, SessionInv,
                        InSession
    <3>4. \A k \in DOMAIN Checks : BoundBy(p, k)'
      BY <3>2, NothingBound
    <3> QED
      BY <1>1, <3>2, <3>3, <3>4, CheckFields DEF SessionInv, InSession
  <2>2. CASE KillInference(p)
    <3>1. /\ session[p].at # "idle"
          /\ session' = [session EXCEPT ![p].at = "killed"]
      BY <2>2 DEF KillInference, Inferring
    <3> DEFINE s == [session[p] EXCEPT !.at = "killed"]
    <3>2. session \in [Proc -> SessionState] /\ session[p] \in SessionState
      BY <1>2 DEF InferenceTypeOK
    <3>3. s \in SessionState /\ s.at = "killed" /\ s.next = session[p].next
      BY <3>2 DEF SessionState
    <3>4. session' = [session EXCEPT ![p] = s]
      BY <3>1
    <3> HIDE DEF s
    <3>5. /\ session' \in [Proc -> SessionState]
          /\ session'[p].at = "killed" /\ session'[p].next = session[p].next
          /\ \A q \in Proc : q # p => session'[q] = session[q]
      BY <3>2, <3>3, <3>4
    <3> QED
      BY <1>1, <1>2, <3>1, <3>5, EndedSession
  <2>3. CASE LeaveInference(p)
    <3>1. session' = [session EXCEPT ![p] = NoSession]
      BY <2>3 DEF LeaveInference
    <3>2. /\ session' \in [Proc -> SessionState] /\ session'[p] = NoSession
          /\ \A q \in Proc : q # p => session'[q] = session[q]
      BY <1>2, <3>1, NoSessionFields DEF InferenceTypeOK
    <3>3. \A k \in DOMAIN Checks : BoundBy(p, k)'
      BY <3>2, NoSessionFields, NothingBound
    <3>4. SessionInv(p)'
      BY <3>2, <3>3, NoSessionFields, CheckFields DEF SessionInv, InSession
    <3> QED
      BY <3>2, <3>4, NoSessionFields
  <2> QED
    BY <2>1, <2>2, <2>3
<1>4. OutputInv' /\ OutputIsOwned'
  BY <1>1, <1>2, <1>3, OutputKept
<1> QED
  BY <1>1, <1>2, <1>3, <1>4, SessionMoves DEF InferenceTypeOK

LEMMA MakeKeepsInv ==
    ASSUME InferenceInv, NEW p \in Proc, MakeOutput(p)
    PROVE  InferenceInv'
<1>1. /\ InSession(p, "publishing") /\ Enter(p, "linking") /\ "linking" \in Places
      /\ ~output.made /\ output' = [output EXCEPT !.made = TRUE]
      /\ UNCHANGED <<disk, request>>
  BY DEF MakeOutput, Places
<1>2. InferenceTypeOK /\ SessionInv(p) /\ OutputInv /\ OutputIsOwned
  BY DEF InferenceInv
<1>3. /\ session' \in [Proc -> SessionState] /\ session'[p].at = "linking"
      /\ \A q \in Proc : q # p => session'[q] = session[q]
  BY <1>1, <1>2, EnterFields
<1>4. SessionInv(p)'
  BY <1>1, <1>2, PhaseKeepsSession
<1>5. output \in [made : BOOLEAN, files : [Part -> Proc \cup {Missing}]]
  BY <1>2 DEF InferenceTypeOK
<1>6. /\ output' \in [made : BOOLEAN, files : [Part -> Proc \cup {Missing}]]
      /\ output'.made /\ output'.files = output.files
  BY <1>1, <1>5
<1>7. /\ \A part \in Part : output.files[part] = Missing
      /\ \A q \in Proc : ~InSession(q, "linking") /\ ~InSession(q, "done")
  BY <1>1, <1>2 DEF OutputInv, OutputIsOwned
<1>8. OutputInv' /\ OutputIsOwned'
  BY <1>3, <1>6, <1>7 DEF OutputInv, OutputIsOwned, InSession
<1> QED
  BY <1>1, <1>3, <1>4, <1>6, <1>8, SessionMoves

LEMMA LinkKeepsInv ==
    ASSUME InferenceInv, NEW p \in Proc, NEW part \in Part, Link(p, part)
    PROVE  InferenceInv'
<1>1. /\ InSession(p, "linking") /\ output' = [output EXCEPT !.files[part] = p]
      /\ UNCHANGED <<disk, request, session>>
  BY DEF Link
<1>2. InferenceTypeOK /\ SessionInv(p) /\ OutputInv /\ OutputIsOwned
  BY DEF InferenceInv
<1>3. output \in [made : BOOLEAN, files : [Part -> Proc \cup {Missing}]]
  BY <1>2 DEF InferenceTypeOK
<1>4. /\ output' \in [made : BOOLEAN, files : [Part -> Proc \cup {Missing}]]
      /\ output'.made = output.made
      /\ output'.files = [output.files EXCEPT ![part] = p]
  BY <1>1, <1>3
<1>5. /\ output.made /\ \A q \in Proc : InSession(q, "linking") => p = q
      /\ \A a \in Part : output.files[a] \in {Missing, p}
  BY <1>1, <1>2 DEF OutputInv
<1>6. "predictions" \in Part /\ \A q \in Proc : ~InSession(q, "done")
  BY <1>1, <1>2, <1>5 DEF OutputIsOwned, InSession, Part
<1>7. \A a \in Part : output'.files[a] \in {Missing, p}
  BY <1>3, <1>4, <1>5
<1>8. OutputInv' /\ OutputIsOwned'
  BY <1>1, <1>4, <1>5, <1>6, <1>7 DEF OutputInv, OutputIsOwned, InSession
<1>9. SessionInv(p)'
  BY <1>1, <1>2, OtherSession
<1>10. session' \in [Proc -> SessionState]
  BY <1>1, <1>2 DEF InferenceTypeOK
<1> QED
  BY <1>1, <1>4, <1>8, <1>9, <1>10, SessionMoves

LEMMA FinishKeepsInv ==
    ASSUME InferenceInv, NEW p \in Proc, FinishInference(p)
    PROVE  InferenceInv'
<1>1. /\ InSession(p, "linking") /\ Enter(p, "done") /\ "done" \in Places
      /\ \A part \in Part : output.files[part] # Missing
      /\ UNCHANGED <<disk, request, output>>
  BY DEF FinishInference, Places
<1>2. InferenceTypeOK /\ SessionInv(p) /\ OutputInv /\ OutputIsOwned
  BY DEF InferenceInv
<1>3. /\ session' \in [Proc -> SessionState] /\ session'[p].at = "done"
      /\ \A q \in Proc : q # p => session'[q] = session[q]
  BY <1>1, <1>2, EnterFields
<1>4. SessionInv(p)'
  BY <1>1, <1>2, PhaseKeepsSession
<1>5. output.made /\ \A part \in Part : output.files[part] = p
  BY <1>1, <1>2 DEF OutputInv
<1>6. OutputInv' /\ OutputIsOwned'
  BY <1>1, <1>2, <1>3, <1>5 DEF OutputInv, OutputIsOwned, InSession
<1> QED
  BY <1>1, <1>2, <1>3, <1>4, <1>6, SessionMoves DEF InferenceTypeOK

LEMMA UndoKeepsInv ==
    ASSUME InferenceInv, NEW p \in Proc, UndoOutput(p)
    PROVE  InferenceInv'
<1>1. /\ InSession(p, "linking") /\ Enter(p, "failed") /\ "failed" \in Places
      /\ output' = [made |-> FALSE, files |-> [part \in Part |-> Missing]]
      /\ UNCHANGED <<disk, request>>
  BY DEF UndoOutput, RemoveOutput, Places
<1>2. InferenceTypeOK /\ SessionInv(p) /\ OutputInv /\ OutputIsOwned
  BY DEF InferenceInv
<1>3. /\ session' \in [Proc -> SessionState]
      /\ session'[p].at = "failed" /\ session'[p].next = 1
      /\ \A q \in Proc : q # p => session'[q] = session[q]
  BY <1>1, <1>2, EnterFields
<1>4. SessionInv(p)'
  BY <1>1, <1>2, <1>3, EndedSession DEF InSession
<1>5. output' \in [made : BOOLEAN, files : [Part -> Proc \cup {Missing}]]
      /\ ~output'.made /\ \A part \in Part : output'.files[part] = Missing
  BY <1>1
<1>6. "predictions" \in Part /\ Missing \notin Proc
  BY DEF Part
<1>7. \A a \in Part : output.files[a] \in {Missing, p}
  BY <1>1, <1>2 DEF OutputInv
<1>8. \A q \in Proc : ~InSession(q, "linking")' /\ ~InSession(q, "done")'
  BY <1>1, <1>2, <1>3, <1>6, <1>7 DEF OutputInv, OutputIsOwned, InSession
<1>9. OutputInv' /\ OutputIsOwned'
  BY <1>5, <1>8 DEF OutputInv, OutputIsOwned
<1> QED
  BY <1>1, <1>3, <1>4, <1>5, <1>9, SessionMoves

(* A write can only take a file further from what was verified, or back.    *)
LEMMA WriteKeepsInv ==
    ASSUME InferenceInv, NEW f \in Input, NEW content \in Content, WriteInput(f, content)
    PROVE  InferenceInv'
<1>1. UNCHANGED <<request, session, output>>
  BY DEF WriteInput
<1>2. InferenceTypeOK /\ OutputInv /\ OutputIsOwned
  BY DEF InferenceInv
<1>3. disk \in [Input -> [content : Content, writes : Nat]]
  BY <1>2 DEF InferenceTypeOK
<1>4. disk' = [disk EXCEPT ![f] = [content |-> content, writes |-> disk[f].writes + 1]]
  BY <1>3 DEF WriteInput
<1>5. /\ disk' \in [Input -> [content : Content, writes : Nat]]
      /\ disk'[f].writes = disk[f].writes + 1
      /\ \A g \in Input : g # f => disk'[g] = disk[g]
  BY <1>3, <1>4
<1>6. InferenceTypeOK'
  BY <1>1, <1>2, <1>5 DEF InferenceTypeOK
<1>7. ASSUME NEW p \in Proc
      PROVE  SessionInv(p)'
  <2>1. SessionInv(p)
    BY DEF InferenceInv
  <2>2. ASSUME NEW k \in DOMAIN Checks
        PROVE  BoundBy(p, k)'
    <3> DEFINE g == Checks[k].file
    <3>1. BoundBy(p, k) /\ g \in Input
      BY <2>1, CheckFields DEF SessionInv
    <3>2. /\ Verified(p, k)' = Verified(p, k) /\ Rechecked(p, k)' = Rechecked(p, k)
          /\ LoadedOther(p, k)' = LoadedOther(p, k)
          /\ LoadedOther(p, k) => Verified(p, k)
      BY <1>1 DEF Verified, Rechecked, LoadedOther, InSession
    <3>3. disk[g].writes \in Nat /\ session[p].seen[k] \in Nat /\ session[p].last[k] \in Nat
      BY <1>2, <1>3, <3>1, SessionFields
    <3>4. CASE g = f
      BY <1>1, <1>5, <3>1, <3>2, <3>3, <3>4 DEF BoundBy
    <3>5. CASE g # f
      BY <1>1, <1>5, <3>1, <3>2, <3>5 DEF BoundBy
    <3> QED
      BY <3>4, <3>5
  <2> QED
    BY <1>1, <2>1, <2>2 DEF SessionInv, InSession
<1>8. OutputInv' /\ OutputIsOwned'
  BY <1>1, <1>2 DEF OutputInv, OutputIsOwned, InSession
<1> QED
  BY <1>6, <1>7, <1>8 DEF InferenceInv

(* Before there is a request nothing has begun.                             *)
LEMMA RequestKeepsInv ==
    ASSUME InferenceInv, NEW digests \in Digests, PutRequest(digests),
           UNCHANGED <<disk, session, output>>
    PROVE  InferenceInv'
<1>1. request = Missing /\ request' = digests /\ digests # Missing
  BY AbsenceAssumption DEF PutRequest
<1>2. InferenceTypeOK'
  BY <1>1 DEF InferenceInv, InferenceTypeOK
<1>3. ASSUME NEW p \in Proc
      PROVE  SessionInv(p)'
  <2>1. SessionInv(p)
    BY DEF InferenceInv
  <2>2. session[p].at = "idle"
    BY <1>1, <2>1 DEF SessionInv, InSession
  <2>3. \A k \in DOMAIN Checks : BoundBy(p, k)'
    BY <2>2, NothingBound
  <2> QED
    BY <1>1, <2>1, <2>2, <2>3 DEF SessionInv, InSession
<1>4. OutputInv' /\ OutputIsOwned'
  BY DEF InferenceInv, OutputInv, OutputIsOwned, InSession
<1> QED
  BY <1>2, <1>3, <1>4 DEF InferenceInv

LEMMA InferenceInit_Inv == InferenceInit => InferenceInv
<1> SUFFICES ASSUME InferenceInit
             PROVE  InferenceInv
  OBVIOUS
<1>1. InferenceTypeOK
  BY NoSessionFields DEF InferenceInit, InferenceTypeOK
<1>2. ASSUME NEW p \in Proc
      PROVE  SessionInv(p)
  <2>1. session[p] = NoSession
    BY DEF InferenceInit
  <2>2. \A k \in DOMAIN Checks : BoundBy(p, k)
    BY <2>1, NoSessionFields DEF BoundBy, Verified, Rechecked, LoadedOther, InSession
  <2> QED
    BY <2>1, <2>2, NoSessionFields, CheckFields DEF SessionInv, InSession
<1>3. OutputInv /\ OutputIsOwned
  BY NoSessionFields DEF InferenceInit, OutputInv, OutputIsOwned, InSession
<1> QED
  BY <1>1, <1>2, <1>3 DEF InferenceInv

LEMMA InferenceStep ==
    ASSUME InferenceInv, [InferenceNext]_inferenceVars
    PROVE  InferenceInv'
<1>1. ASSUME NEW digests \in Digests, PutRequest(digests), UNCHANGED <<disk, session, output>>
      PROVE  InferenceInv'
  BY <1>1, RequestKeepsInv
<1>2. ASSUME NEW p \in Proc, InferStep(p)
      PROVE  InferenceInv'
  <2>1. CASE \/ VerifyInput(p) \/ RecheckInput(p) \/ \E f \in Weights : LoadFile(p, f)
             \/ EndVerification(p) \/ Generate(p) \/ Seal(p)
    BY <2>1, QuietKeepsInv
  <2>2. CASE MakeOutput(p)
    BY <2>2, MakeKeepsInv
  <2>3. CASE \E part \in Part : Link(p, part)
    BY <2>3, LinkKeepsInv
  <2>4. CASE FinishInference(p)
    BY <2>4, FinishKeepsInv
  <2>5. CASE UndoOutput(p)
    BY <2>5, UndoKeepsInv
  <2>6. CASE AbandonInference(p) \/ InterruptLinking(p)
    BY <2>6, EndKeepsInv
  <2> QED
    BY <1>2, <2>1, <2>2, <2>3, <2>4, <2>5, <2>6 DEF InferStep
<1>3. ASSUME NEW p \in Proc, BeginInference(p)
      PROVE  InferenceInv'
  BY <1>3, QuietKeepsInv
<1>4. ASSUME NEW p \in Proc, RefuseInference(p) \/ KillInference(p) \/ LeaveInference(p)
      PROVE  InferenceInv'
  BY <1>4, EndKeepsInv
<1>5. ASSUME NEW f \in Input, NEW content \in Content, WriteInput(f, content)
      PROVE  InferenceInv'
  BY <1>5, WriteKeepsInv
<1>6. CASE UNCHANGED inferenceVars
  BY <1>6 DEF inferenceVars, InferenceInv, InferenceTypeOK, SessionInv, BoundBy, Verified,
              Rechecked, LoadedOther, OutputInv, OutputIsOwned, InSession
<1> QED
  BY <1>1, <1>2, <1>3, <1>4, <1>5, <1>6 DEF InferenceNext

(* run_frozen_inference: what a call has verified, loaded and verified      *)
(* again hangs together, and one call fills the output.                     *)
THEOREM InferenceInvariance == InferenceSpec => []InferenceInv
  BY InferenceInit_Inv, InferenceStep, PTL DEF InferenceSpec

(* A process gets to the phases after the verification from one of them, or *)
(* by having found that the documents agree.                                *)
LEMMA LoadsCited ==
    ASSUME InferenceInv, CitationInv, NEW p \in Proc,
           \/ BeginInference(p) \/ RefuseInference(p) \/ InferStep(p)
           \/ KillInference(p) \/ LeaveInference(p)
    PROVE  CitationInv'
<1> DEFINE Later == {"loading", "rechecking", "publishing", "linking", "done"}
<1>1. InferenceTypeOK /\ SessionInv(p) /\ request' = request
  BY DEF InferenceInv, BeginInference, RefuseInference, InferStep, KillInference, LeaveInference,
         VerifyInput, EndVerification, LoadFile, Generate, RecheckInput, Seal, MakeOutput, Link,
         FinishInference, AbandonInference, UndoOutput, InterruptLinking
<1>2. Cited' = Cited
  BY <1>1 DEF Cited, CitedBy, DigestOf
<1>3. /\ session' \in [Proc -> SessionState]
      /\ session'[p].at \in Later => session[p].at \in Later \/ Cited
      /\ \A q \in Proc : q # p => session'[q] = session[q]
  <2>1. CASE VerifyInput(p) \/ RecheckInput(p) \/ (\E f \in Weights : LoadFile(p, f))
    BY <1>1, <2>1, VerifyKeepsSession, RecheckKeepsSession, LoadKeepsSession
  <2>2. CASE \/ BeginInference(p) \/ RefuseInference(p) \/ AbandonInference(p)
             \/ InterruptLinking(p) \/ UndoOutput(p)
    <3>1. PICK at \in {"verifying", "failed"} : Enter(p, at)
      BY <2>2 DEF BeginInference, RefuseInference, AbandonInference, InterruptLinking, UndoOutput
    <3> QED
      BY <1>1, <3>1, EnterFields DEF Places
  <2>3. CASE EndVerification(p)
    <3>1. Enter(p, "loading") /\ Cited
      BY <2>3 DEF EndVerification
    <3> QED
      BY <1>1, <3>1, EnterFields DEF Places
  <2>4. CASE Generate(p) \/ Seal(p) \/ MakeOutput(p) \/ FinishInference(p)
    <3>1. /\ session[p].at \in Later
          /\ \E at \in {"rechecking", "publishing", "linking", "done"} : Enter(p, at)
      BY <2>4 DEF Generate, Seal, MakeOutput, FinishInference, InSession
    <3> QED
      BY <1>1, <3>1, EnterFields DEF Places
  <2>5. CASE \E part \in Part : Link(p, part)
    BY <1>1, <2>5 DEF Link, InferenceTypeOK
  <2>6. CASE KillInference(p)
    <3> DEFINE s == [session[p] EXCEPT !.at = "killed"]
    <3>1. session' = [session EXCEPT ![p] = s]
      BY <2>6 DEF KillInference
    <3>2. session \in [Proc -> SessionState] /\ session[p] \in SessionState
      BY <1>1 DEF InferenceTypeOK
    <3>3. s \in SessionState /\ s.at = "killed"
      BY <3>2 DEF SessionState
    <3> HIDE DEF s
    <3> QED
      BY <3>1, <3>2, <3>3
  <2>7. CASE LeaveInference(p)
    BY <1>1, <2>7, NoSessionFields DEF LeaveInference, InferenceTypeOK
  <2> QED
    BY <2>1, <2>2, <2>3, <2>4, <2>5, <2>6, <2>7 DEF InferStep
<1> QED
  BY <1>2, <1>3 DEF CitationInv

LEMMA CitationStep ==
    ASSUME InferenceInv, CitationInv, [InferenceNext]_inferenceVars
    PROVE  CitationInv'
<1>1. ASSUME NEW digests \in Digests, PutRequest(digests), UNCHANGED <<disk, session, output>>
      PROVE  CitationInv'
  <2>1. \A p \in Proc : session[p].at = "idle"
    BY <1>1 DEF PutRequest, InferenceInv, SessionInv, InSession
  <2> QED
    BY <1>1, <2>1 DEF CitationInv
<1>2. ASSUME NEW f \in Input, NEW content \in Content, WriteInput(f, content)
      PROVE  CitationInv'
  BY <1>2 DEF WriteInput, CitationInv, Cited, CitedBy, DigestOf
<1>3. CASE UNCHANGED inferenceVars
  BY <1>3 DEF inferenceVars, CitationInv, Cited, CitedBy, DigestOf
<1> QED
  BY <1>1, <1>2, <1>3, LoadsCited DEF InferenceNext

LEMMA InvBinds == InferenceInv /\ CitationInv => SuccessIsBound
<1> SUFFICES ASSUME InferenceInv, CitationInv, NEW p \in Proc,
                    session[p].at \in {"publishing", "linking", "done"}
             PROVE  /\ Cited
                    /\ \A k \in DOMAIN Checks :
                         LET s == session[p]
                             f == Checks[k].file
                         IN  IF Checks[k].kind = "pin" THEN s.last[k] = s.seen[k]
                             ELSE f \in Weights /\ s.loaded[f] # request.tree[f]
                                      => s.last[k] >= s.seen[k] + 2
  BY DEF SuccessIsBound
<1>1. SessionInv(p)
  BY DEF InferenceInv
<1>2. Cited
  BY DEF CitationInv
<1>3. ASSUME NEW k \in DOMAIN Checks
      PROVE  LET s == session[p]
                 f == Checks[k].file
             IN  IF Checks[k].kind = "pin" THEN s.last[k] = s.seen[k]
                 ELSE f \in Weights /\ s.loaded[f] # request.tree[f]
                          => s.last[k] >= s.seen[k] + 2
  <2>1. BoundBy(p, k) /\ Rechecked(p, k) /\ Checks[k].kind \in {"pin", "tree"}
    BY <1>1, CheckFields DEF SessionInv, Rechecked
  <2>2. Checks[k].file \in Weights => session[p].loaded[Checks[k].file] # Missing
    BY <1>1 DEF SessionInv
  <2> QED
    BY <2>1, <2>2 DEF BoundBy, LoadedOther
<1> QED
  BY <1>2, <1>3

(* The predictions of a call that succeeded are of the verified inputs, but *)
(* for a weight file that was replaced and put back while it ran; and the   *)
(* verified inputs agree with each other.                                   *)
THEOREM SuccessBound == InferenceSpec => []SuccessIsBound
<1>1. InferenceInit => CitationInv
  BY NoSessionFields DEF InferenceInit, CitationInv
<1> QED
  BY <1>1, InferenceInvariance, CitationStep, InvBinds, PTL DEF InferenceSpec

(* A call that returned has both its files in the output, whoever raced.    *)
THEOREM OutputOwned == InferenceSpec => []OutputIsOwned
<1>1. InferenceInv => OutputIsOwned
  BY DEF InferenceInv
<1> QED
  BY <1>1, InferenceInvariance, PTL

(* Nobody takes away the complete predictions of one run.                   *)
THEOREM OutputFinal == InferenceSpec => OutputIsFinal
<1>1. InferenceInv /\ [InferenceNext]_inferenceVars
        => [Complete /\ (\A p \in Proc : ~InSession(p, "linking")) => output' = output]_inferenceVars
  <2> SUFFICES ASSUME InferenceInv, InferenceNext, Complete,
                      \A p \in Proc : ~InSession(p, "linking")
               PROVE  output' = output
    BY DEF inferenceVars
  <2>1. output.made
    BY DEF InferenceInv, OutputInv, Complete, Part
  <2> QED
    BY <2>1 DEF InferenceNext, InferStep, PutRequest, BeginInference, RefuseInference,
       VerifyInput, EndVerification, LoadFile, Generate, RecheckInput, Seal, MakeOutput, Link,
       FinishInference, AbandonInference, UndoOutput, InterruptLinking, KillInference,
       LeaveInference, WriteInput
<1> QED
  BY <1>1, InferenceInvariance, PTL DEF InferenceSpec, OutputIsFinal

-----------------------------------------------------------------------------
(* The run: every step of it is one of promotion, of inference or of        *)
(* neither                                                                  *)

LEMMA Processes ==
    /\ Runner \subseteq Proc /\ Operator \subseteq Proc
    /\ \A p \in Operator : p \notin Runner
    /\ Measured \in Target /\ Missing \notin Target /\ RunManifest \in Input
    /\ Card \in Artifact /\ Weights \subseteq Artifact /\ CardText \in Content
  BY RunAssumption

Steps == [PromotionNext]_promotionVars /\ [InferenceNext]_inferenceVars

PartialInventory == UNION {[S -> Content] : S \in SUBSET Input}

LEMMA InventoryWith ==
    ASSUME NEW t \in PartialInventory, NEW f \in Input, NEW c \in Content
    PROVE  [g \in DOMAIN t \cup {f} |-> IF g = f THEN c ELSE t[g]] \in PartialInventory
<1>1. PICK S \in SUBSET Input : t \in [S -> Content]
  BY DEF PartialInventory
<1> DEFINE R == S \cup {f}
           u == [g \in R |-> IF g = f THEN c ELSE t[g]]
<1>2. R \in SUBSET Input /\ u \in [R -> Content] /\ DOMAIN t = S
  BY <1>1
<1> HIDE DEF R, u
<1>3. u \in PartialInventory
  BY <1>2 DEF PartialInventory
<1> QED
  BY <1>2, <1>3 DEF R, u

LEMMA WholeInventory ==
    ASSUME NEW t \in PartialInventory, DOMAIN t = Input
    PROVE  t \in [Input -> Content]
<1>1. PICK S \in SUBSET Input : t \in [S -> Content]
  BY DEF PartialInventory
<1> QED
  BY <1>1

LEMMA PartialTreeWithout ==
    ASSUME NEW t \in PartialTree, NEW f
    PROVE  [g \in DOMAIN t \ {f} |-> t[g]] \in PartialTree
<1> DEFINE S == DOMAIN t \ {f}
           u == [g \in S |-> t[g]]
<1>1. S \in SUBSET Artifact /\ u \in [S -> Content]
  BY PartialTreeFields
<1> HIDE DEF S, u
<1>2. u \in PartialTree
  BY <1>1, PartialTreeIs
<1> QED
  BY <1>2 DEF S, u

LEMMA PartialTreeChanged ==
    ASSUME NEW t \in PartialTree, NEW f \in DOMAIN t, NEW c \in Content
    PROVE  [t EXCEPT ![f] = c] \in PartialTree
<1>1. PICK S \in SUBSET Artifact : t \in [S -> Content]
  BY PartialTreeIs
<1>2. [t EXCEPT ![f] = c] \in [S -> Content]
  BY <1>1
<1> QED
  BY <1>2, PartialTreeIs

LEMMA CardIsPartial == [f \in {Card} |-> CardText] \in PartialTree
<1> DEFINE u == [f \in {Card} |-> CardText]
<1>1. {Card} \in SUBSET Artifact /\ u \in [{Card} -> Content]
  BY Processes
<1> HIDE DEF u
<1>2. u \in PartialTree
  BY <1>1, PartialTreeIs
<1> QED
  BY <1>2 DEF u

(* Whatever is done to a candidate is what others may do to it.             *)
LEMMA CandidateWritten ==
    ASSUME PromotionTypeOK, NEW r \in Target, NEW t \in PartialTree,
           candidate' = [candidate EXCEPT ![r] = t],
           UNCHANGED <<promoter, staging, release, manifest>>
    PROVE  PromotionNext
<1>1. candidate' \in [Target -> PartialTree]
  BY DEF PromotionTypeOK
<1> QED
  BY <1>1 DEF PromotionNext, ChangeCandidates

LEMMA MoveFields ==
    ASSUME RunTypeOK, NEW p \in Runner,
           NEW at \in {"surveying", "requested", "inferring", "collected", "gated", "copying",
                       "promoting", "approved", "ready", "refused", "killed"},
           Move(p, at)
    PROVE  /\ run' \in [Runner -> RunState]
           /\ run'[p].at = at /\ run'[p].release = run[p].release
           /\ \A q \in Runner : q # p => run'[q] = run[q]
  BY DEF RunTypeOK, RunState, Move

(* No run moves.                                                            *)
LEMMA RunsKept ==
    ASSUME RunInv, UNCHANGED <<run, passed, approvals, ready>>,
           \A p \in Runner : promoter[p].at # "idle" =>
               promoter'[p].job = promoter[p].job /\ promoter'[p].at # "idle",
           \A p \in Runner : promoter[p].at = "done" => promoter'[p].at = "done"
    PROVE  RunInv'
<1>1. ASSUME NEW p \in Runner
      PROVE  Progress(p)'
  <2>1. Progress(p)
    BY DEF RunInv
  <2> QED
    BY <2>1 DEF Progress, ReleaseOf, RunAt, JobOf
<1> QED
  BY <1>1 DEF RunInv, RunAt, ReleaseOf

(* One run moves, and writes to nothing that belongs to another one.        *)
LEMMA RunMoves ==
    ASSUME RunInv, NEW p \in Runner, run[p].at # "ready",
           \A q \in Runner : q # p => run'[q] = run[q] /\ promoter'[q] = promoter[q],
           run'[p].release = run[p].release,
           passed => passed',
           \A r \in Target : r # ReleaseOf(p) => approvals'[r] = approvals[r] /\ ready'[r] = ready[r],
           ready' = ready \/ run'[p].at = "ready",
           Progress(p)'
    PROVE  RunInv'
<1>1. ASSUME NEW q \in Runner
      PROVE  Progress(q)'
  <2>1. CASE q = p
    BY <2>1
  <2>2. CASE q # p
    <3>1. Progress(q) /\ run'[q] = run[q] /\ promoter'[q] = promoter[q]
      BY <2>2 DEF RunInv
    <3>2. ReleaseOf(q) \in Target => ReleaseOf(q) # ReleaseOf(p)
      BY <2>2, Processes DEF RunInv
    <3> QED
      BY <3>1, <3>2 DEF Progress, ReleaseOf, RunAt, JobOf
  <2> QED
    BY <2>1, <2>2
<1>2. \A q, r \in Runner : run'[q].release = run'[r].release /\ run'[q].release # Missing => q = r
  BY DEF RunInv, ReleaseOf
<1>3. ASSUME NEW r \in Target, ready'[r] # Missing
      PROVE  \E q \in Runner : run'[q].at = "ready" /\ run'[q].release = r
  <2>1. CASE ready[r] # Missing
    <3>1. PICK q \in Runner : run[q].at = "ready" /\ run[q].release = r
      BY <2>1 DEF RunInv, RunAt, ReleaseOf
    <3> QED
      BY <3>1
  <2>2. CASE ready[r] = Missing
    BY <1>3, <2>2 DEF ReleaseOf
  <2> QED
    BY <2>1, <2>2
<1> QED
  BY <1>1, <1>2, <1>3 DEF RunInv, RunAt, ReleaseOf

LEMMA PassedOn ==
    ASSUME RunTypeOK, run' \in [Runner -> RunState], UNCHANGED <<inventory, copied, touched>>,
           evidence' \in [run : Content, by : Proc] \cup {Missing}, passed' \in BOOLEAN,
           approvals' \in [Target -> Tree \cup {Missing}],
           ready' \in [Target -> Tree \cup {Missing}], events' \in Nat
    PROVE  RunTypeOK'
  BY DEF RunTypeOK

LEMMA TypesOfRun ==
    ASSUME RunTypeOK
    PROVE  /\ evidence \in [run : Content, by : Proc] \cup {Missing} /\ passed \in BOOLEAN
           /\ approvals \in [Target -> Tree \cup {Missing}]
           /\ ready \in [Target -> Tree \cup {Missing}] /\ events \in Nat
           /\ run \in [Runner -> RunState]
  BY DEF RunTypeOK

LEMMA ClaimKeeps ==
    ASSUME VersionInv, NEW p \in Runner, NEW r \in Target, Claim(p, r)
    PROVE  Steps /\ RunTypeOK' /\ RunInv'
<1>1. Steps
  BY DEF Claim, Steps
<1>2. /\ run' \in [Runner -> RunState]
      /\ run'[p].at = (IF Claimed(r) THEN "refused" ELSE "surveying")
      /\ run'[p].release = (IF Claimed(r) THEN Missing ELSE r)
      /\ \A q \in Runner : q # p => run'[q] = run[q]
      /\ run[p].at = "idle" /\ events' \in Nat
  BY DEF Claim, VersionInv, RunTypeOK, RunState, Event, RunAt
<1>3. UNCHANGED <<inventory, copied, evidence, passed, approvals, ready, touched>>
  BY DEF Claim
<1>4. RunTypeOK'
  BY <1>2, <1>3, PassedOn, TypesOfRun DEF VersionInv
<1>5. ASSUME NEW q \in Runner
      PROVE  Progress(q)'
  <2>1. CASE q = p
    BY <1>2, <2>1 DEF Progress, ReleaseOf, RunAt
  <2>2. CASE q # p
    <3>1. run'[q] = run[q] /\ promoter'[q] = promoter[q]
      BY <1>2, <2>2 DEF Claim, promotionVars
    <3> QED
      BY <1>3, <3>1 DEF VersionInv, RunInv, Progress, ReleaseOf, RunAt, JobOf
  <2> QED
    BY <2>1, <2>2
<1>6. ASSUME NEW q \in Runner, NEW u \in Runner,
             run'[q].release = run'[u].release, run'[q].release # Missing
      PROVE  q = u
  BY <1>2, <1>6 DEF VersionInv, RunInv, ReleaseOf, Claimed
<1>7. ASSUME NEW t \in Target, ready'[t] # Missing
      PROVE  \E q \in Runner : run'[q].at = "ready" /\ run'[q].release = t
  <2>1. PICK q \in Runner : run[q].at = "ready" /\ run[q].release = t
    BY <1>3, <1>7 DEF VersionInv, RunInv, RunAt, ReleaseOf
  <2> QED
    BY <1>2, <2>1
<1>8. RunInv'
  BY <1>5, <1>6, <1>7 DEF RunInv, RunAt, ReleaseOf
<1> QED
  BY <1>1, <1>4, <1>8

LEMMA SurveyKeeps ==
    ASSUME VersionInv, NEW p \in Runner, NEW f \in Input, Survey(p, f)
    PROVE  Steps /\ RunTypeOK' /\ RunInv'
<1>1. Steps
  BY DEF Survey, Steps
<1>2. ReleaseOf(p) \in Target
  BY DEF VersionInv, RunInv, Progress, Survey, RunAt
<1>3. inventory[ReleaseOf(p)] \in PartialInventory /\ disk[f].content \in Content
  BY <1>2 DEF VersionInv, RunTypeOK, PartialInventory, InferenceInv, InferenceTypeOK
<1> DEFINE t == [g \in DOMAIN inventory[ReleaseOf(p)] \cup {f} |->
                   IF g = f THEN disk[f].content ELSE inventory[ReleaseOf(p)][g]]
<1>4. t \in PartialInventory
  BY <1>3, InventoryWith
<1>5. inventory' = [inventory EXCEPT ![ReleaseOf(p)] = t]
  BY DEF Survey
<1> HIDE DEF t
<1>6. inventory' \in [Target -> PartialInventory]
  BY <1>2, <1>4, <1>5 DEF VersionInv, RunTypeOK, PartialInventory
<1>7. UNCHANGED <<promotionVars, run, copied, evidence, passed, approvals, ready, touched,
                  events>>
  BY DEF Survey
<1>8. RunTypeOK'
  BY <1>6, <1>7 DEF VersionInv, RunTypeOK, PartialInventory
<1>9. RunInv'
  BY <1>7, RunsKept DEF VersionInv, promotionVars
<1> QED
  BY <1>1, <1>8, <1>9

(* A run moves on to a state of which the invariant asks only a release.    *)
LEMMA EarlyMove ==
    ASSUME VersionInv, NEW p \in Runner,
           NEW at \in {"requested", "inferring", "collected", "copying", "refused", "killed"},
           Move(p, at), Active(p),
           at = "copying" => ReleaseOf(p) # Measured \/ passed,
           \A q \in Runner : q # p => promoter'[q] = promoter[q],
           UNCHANGED <<passed, approvals, ready>>
    PROVE  RunInv'
<1>1. /\ run'[p].at = at /\ run'[p].release = run[p].release
      /\ \A q \in Runner : q # p => run'[q] = run[q]
  BY MoveFields DEF VersionInv
<1>2. ReleaseOf(p) \in Target /\ run[p].at # "ready"
  BY DEF VersionInv, RunInv, Progress, Active
<1>3. Progress(p)'
  BY <1>1, <1>2 DEF Progress, ReleaseOf, RunAt
<1> QED
  BY <1>1, <1>2, <1>3, RunMoves DEF VersionInv

LEMMA QuietMove ==
    ASSUME VersionInv, NEW p \in Runner,
           NEW at \in {"requested", "inferring", "collected", "copying", "refused", "killed"},
           Move(p, at), Active(p),
           at = "copying" => ReleaseOf(p) # Measured \/ passed,
           \A q \in Runner : q # p => promoter'[q] = promoter[q],
           UNCHANGED <<inventory, copied, evidence, passed, approvals, ready, touched, events>>
    PROVE  RunTypeOK' /\ RunInv'
<1>1. run' \in [Runner -> RunState]
  BY MoveFields DEF VersionInv
<1>2. RunTypeOK'
  BY <1>1, PassedOn, TypesOfRun DEF VersionInv
<1> QED
  BY <1>2, EarlyMove

LEMMA WriteRequestKeeps ==
    ASSUME VersionInv, NEW p \in Runner, WriteRequest(p)
    PROVE  Steps /\ RunTypeOK' /\ RunInv'
<1> DEFINE pins == [f \in Input |-> disk[f].content]
           digests == [pin |-> pins, tree |-> inventory[Measured]]
<1>1. pins \in [Input -> Content]
  BY DEF VersionInv, InferenceInv, InferenceTypeOK
<1>2. inventory[Measured] \in PartialInventory /\ DOMAIN inventory[Measured] = Input
  BY Processes DEF VersionInv, RunTypeOK, PartialInventory, WriteRequest, Surveyed
<1>3. inventory[Measured] \in [Input -> Content]
  BY <1>2, WholeInventory
<1>4. PutRequest(digests) /\ UNCHANGED <<disk, session, output>>
  BY DEF WriteRequest
<1> HIDE DEF pins
<1>5. digests \in Digests
  BY <1>1, <1>3 DEF Digests
<1> HIDE DEF digests
<1>6. Steps
  BY <1>4, <1>5 DEF Steps, InferenceNext, WriteRequest
<1> QED
  BY <1>6, QuietMove DEF WriteRequest, Surveyed, RunAt, Active, promotionVars

LEMMA InferenceCallKeeps ==
    ASSUME VersionInv, NEW p \in Runner, StartInference(p) \/ StopInference(p)
    PROVE  Steps /\ RunTypeOK' /\ RunInv'
<1>1. Steps
  BY Processes DEF Steps, InferenceNext, StartInference, StopInference
<1>2. CASE StartInference(p)
  BY <1>1, <1>2, QuietMove DEF StartInference, RunAt, Active, promotionVars
<1>3. CASE StopInference(p)
  BY <1>1, <1>3, QuietMove DEF StopInference, RunAt, Active, promotionVars
<1> QED
  BY <1>2, <1>3

LEMMA CollectKeeps ==
    ASSUME VersionInv, NEW p \in Runner, Collect(p)
    PROVE  Steps /\ RunTypeOK' /\ RunInv'
<1>1. Steps
  BY DEF Steps, Collect
<1>2. disk[RunManifest].content \in Content /\ output.files["predictions"] \in Proc
  BY Processes DEF VersionInv, InferenceInv, InferenceTypeOK, Collect, Part
<1>3. evidence' \in [run : Content, by : Proc]
  BY <1>2 DEF Collect
<1>4. run' \in [Runner -> RunState]
  BY MoveFields DEF VersionInv, Collect
<1>5. RunTypeOK'
  BY <1>3, <1>4, PassedOn, TypesOfRun DEF VersionInv, Collect
<1>6. RunInv'
  BY EarlyMove DEF Collect, RunAt, Active, promotionVars
<1> QED
  BY <1>1, <1>5, <1>6

LEMMA PassGateKeeps ==
    ASSUME VersionInv, NEW p \in Runner, PassGate(p)
    PROVE  Steps /\ RunTypeOK' /\ RunInv'
<1>1. Steps
  BY DEF Steps, PassGate
<1>2. /\ run' \in [Runner -> RunState] /\ run'[p].at = "gated"
      /\ run'[p].release = run[p].release
      /\ \A q \in Runner : q # p => run'[q] = run[q]
  BY MoveFields DEF VersionInv, PassGate
<1>3. RunTypeOK'
  BY <1>2, PassedOn, TypesOfRun DEF VersionInv, PassGate
<1>4. ReleaseOf(p) \in Target /\ run[p].at = "collected"
  BY DEF VersionInv, RunInv, Progress, PassGate, RunAt
<1>5. Progress(p)'
  BY <1>2, <1>4 DEF Progress, PassGate, ReleaseOf, RunAt
<1>6. RunInv'
  BY <1>2, <1>4, <1>5, RunMoves DEF VersionInv, PassGate, promotionVars
<1> QED
  BY <1>1, <1>3, <1>6

LEMMA OpenCandidateKeeps ==
    ASSUME VersionInv, NEW p \in Runner, OpenCandidate(p)
    PROVE  Steps /\ RunTypeOK' /\ RunInv'
<1>1. Active(p) /\ (ReleaseOf(p) # Measured \/ passed)
  BY DEF OpenCandidate, Stageable, Surveyed, Active, RunAt, VersionInv, RunInv, Progress
<1>2. ReleaseOf(p) \in Target
  BY <1>1 DEF VersionInv, RunInv, Progress, Active
<1>3. PromotionNext
  BY <1>2, CardIsPartial, CandidateWritten DEF OpenCandidate, VersionInv, PromotionInv
<1>4. Steps
  BY <1>3 DEF Steps, OpenCandidate
<1> QED
  BY <1>1, <1>4, QuietMove DEF OpenCandidate

LEMMA CopyAdapterKeeps ==
    ASSUME VersionInv, NEW p \in Runner, NEW f \in Weights, CopyAdapter(p, f)
    PROVE  Steps /\ RunTypeOK' /\ RunInv'
<1>1. f \in Artifact /\ f \in Input
  BY Processes, WeightsAreInputs
<1>2. ReleaseOf(p) \in Target
  BY DEF VersionInv, RunInv, Progress, CopyAdapter, RunAt
<1>3. candidate[ReleaseOf(p)] \in PartialTree
  BY <1>2 DEF VersionInv, PromotionInv, PromotionTypeOK
<1>4. disk[f].content \in Content /\ disk[f].writes \in Nat
  BY <1>1 DEF VersionInv, InferenceInv, InferenceTypeOK
<1> DEFINE t == [g \in DOMAIN candidate[ReleaseOf(p)] \cup {f} |->
                   IF g = f THEN disk[f].content ELSE candidate[ReleaseOf(p)][g]]
<1>5. t \in PartialTree
  BY <1>1, <1>3, <1>4, PartialTreeWith
<1>6. candidate' = [candidate EXCEPT ![ReleaseOf(p)] = t]
  BY DEF CopyAdapter
<1> HIDE DEF t
<1>7. PromotionNext
  BY <1>2, <1>5, <1>6, CandidateWritten DEF CopyAdapter, VersionInv, PromotionInv
<1>8. Steps
  BY <1>7 DEF Steps, CopyAdapter
<1>9. copied' \in [Target -> [Weights -> Nat]]
  BY <1>2, <1>4 DEF CopyAdapter, VersionInv, RunTypeOK
<1>10. RunTypeOK'
  BY <1>9 DEF RunTypeOK, CopyAdapter, VersionInv
<1>11. RunInv'
  BY RunsKept DEF CopyAdapter, VersionInv
<1> QED
  BY <1>8, <1>10, <1>11

LEMMA StartPromotionKeeps ==
    ASSUME VersionInv, NEW p \in Runner, StartPromotion(p)
    PROVE  Steps /\ RunTypeOK' /\ RunInv'
<1> DEFINE req == RequestOf(ReleaseOf(p))
<1>1. run[p].at = "copying" /\ ReleaseOf(p) \in Target
  BY DEF VersionInv, RunInv, Progress, StartPromotion, RunAt
<1>2. candidate[ReleaseOf(p)] \in Tree
  BY <1>1, CompleteTree DEF VersionInv, PromotionInv, PromotionTypeOK, StartPromotion
<1>3. req \in Request /\ req.target = ReleaseOf(p)
  BY <1>1, <1>2 DEF RequestOf, Request
<1>4. BeginPromotion(p, req) \/ RefusePromotion(p, req)
  BY DEF StartPromotion
<1> HIDE DEF req
<1>5. Steps
  BY <1>3, <1>4, Processes DEF Steps, PromotionNext, StartPromotion
<1>6. PICK at \in {"copying", "refused"} : Take(p, req, at)
  BY <1>4 DEF BeginPromotion, RefusePromotion
<1>7. /\ promoter'[p].at = at /\ promoter'[p].job = req
      /\ \A q \in Proc : q # p => promoter'[q] = promoter[q]
  BY <1>3, <1>6, Processes, TakeFields DEF VersionInv, PromotionInv
<1>8. /\ run' \in [Runner -> RunState] /\ run'[p].at = "promoting"
      /\ run'[p].release = run[p].release
      /\ \A q \in Runner : q # p => run'[q] = run[q]
  BY MoveFields DEF VersionInv, StartPromotion
<1>9. RunTypeOK'
  BY <1>8, PassedOn, TypesOfRun DEF VersionInv, StartPromotion
<1>10. UNCHANGED <<passed, approvals, ready>>
  BY DEF StartPromotion
<1>11. ReleaseOf(p) # Measured \/ passed
  BY <1>1 DEF VersionInv, RunInv, Progress
<1>12. Progress(p)'
  BY <1>1, <1>3, <1>7, <1>8, <1>10, <1>11 DEF Progress, ReleaseOf, RunAt, JobOf
<1>13. RunInv'
  BY <1>1, <1>7, <1>8, <1>10, <1>12, Processes, RunMoves DEF VersionInv
<1> QED
  BY <1>5, <1>9, <1>13

LEMMA ApproveKeeps ==
    ASSUME VersionInv, NEW p \in Runner, Approve(p) \/ WriteReady(p)
    PROVE  Steps /\ RunTypeOK' /\ RunInv'
<1> DEFINE r == ReleaseOf(p)
           files == JobOf(p).files
<1>1. Steps
  BY DEF Steps, Approve, WriteReady
<1>2. /\ run[p].at \in {"promoting", "approved"} /\ promoter[p].at = "done" /\ r \in Target
      /\ JobOf(p).target = r /\ (r # Measured \/ passed)
      /\ run[p].at = "approved" => approvals[r] = files
  BY DEF VersionInv, RunInv, Progress, Approve, WriteReady, RunAt
<1>3. files \in Tree
  BY <1>2, Processes, RequestFields DEF VersionInv, PromotionInv, StagingInv, StagedBy
<1>4. UNCHANGED <<promoter, inventory, copied, evidence, passed, touched, events>>
  BY DEF Approve, WriteReady, promotionVars
<1>5. CASE Approve(p)
  <2>1. Move(p, "approved") /\ approvals' = [approvals EXCEPT ![r] = files] /\ ready' = ready
    BY <1>5 DEF Approve
  <2> HIDE DEF r, files
  <2>2. /\ run' \in [Runner -> RunState] /\ run'[p].at = "approved"
        /\ run'[p].release = run[p].release
        /\ \A q \in Runner : q # p => run'[q] = run[q]
    BY <2>1, MoveFields DEF VersionInv
  <2>3. RunTypeOK'
    BY <1>2, <1>3, <1>4, <2>1, <2>2, PassedOn, TypesOfRun DEF VersionInv
  <2>4. approvals'[r] = files /\ \A t \in Target : t # r => approvals'[t] = approvals[t]
    BY <1>2, <2>1, TypesOfRun DEF VersionInv
  <2>5. Progress(p)'
    BY <1>2, <1>4, <2>2, <2>4 DEF Progress, ReleaseOf, RunAt, JobOf, r, files
  <2>6. RunInv'
    BY <1>2, <1>4, <2>1, <2>2, <2>4, <2>5, Processes, RunMoves DEF VersionInv, r
  <2> QED
    BY <1>1, <2>3, <2>6
<1>6. CASE WriteReady(p)
  <2>1. /\ Move(p, "ready") /\ ready' = [ready EXCEPT ![r] = files] /\ approvals' = approvals
        /\ run[p].at = "approved"
    BY <1>6 DEF WriteReady, RunAt
  <2> HIDE DEF r, files
  <2>2. /\ run' \in [Runner -> RunState] /\ run'[p].at = "ready"
        /\ run'[p].release = run[p].release
        /\ \A q \in Runner : q # p => run'[q] = run[q]
    BY <2>1, MoveFields DEF VersionInv
  <2>3. RunTypeOK'
    BY <1>2, <1>3, <1>4, <2>1, <2>2, PassedOn, TypesOfRun DEF VersionInv
  <2>4. ready'[r] = files /\ \A t \in Target : t # r => ready'[t] = ready[t]
    BY <1>2, <2>1, TypesOfRun DEF VersionInv
  <2>5. Progress(p)'
    BY <1>2, <1>4, <2>1, <2>2, <2>4 DEF Progress, ReleaseOf, RunAt, JobOf, r, files
  <2>6. RunInv'
    BY <1>2, <1>4, <2>1, <2>2, <2>4, <2>5, Processes, RunMoves DEF VersionInv, r
  <2> QED
    BY <1>1, <2>3, <2>6
<1> QED
  BY <1>5, <1>6

LEMMA RefuseKeeps ==
    ASSUME VersionInv, NEW p \in Runner, Refuse(p)
    PROVE  Steps /\ RunTypeOK' /\ RunInv'
<1>1. Steps
  BY DEF Steps, Refuse
<1> QED
  BY <1>1, QuietMove DEF Refuse, promotionVars

LEMMA KillKeeps ==
    ASSUME VersionInv, NEW p \in Runner, Kill(p)
    PROVE  Steps /\ RunTypeOK' /\ RunInv'
<1>1. KillPromoter(p) \/ UNCHANGED promotionVars
  BY DEF Kill
<1>2. Steps
  BY <1>1, Processes DEF Steps, Kill, PromotionNext
<1>3. \A q \in Runner : q # p => promoter'[q] = promoter[q]
  <2>1. CASE KillPromoter(p)
    BY <2>1, Processes, TurnFields DEF KillPromoter, VersionInv, PromotionInv
  <2> QED
    BY <1>1, <2>1 DEF promotionVars
<1> QED
  BY <1>2, <1>3, QuietMove DEF Kill

(* No run moves while others do, nor is what it asked for lost.             *)
LEMMA BesideKeeps ==
    ASSUME VersionInv, UNCHANGED <<run, inventory, copied, evidence, passed, approvals, ready>>,
           touched' \subseteq Target, events' \in Nat,
           \A p \in Runner : promoter[p].at # "idle" =>
               promoter'[p].job = promoter[p].job /\ promoter'[p].at # "idle",
           \A p \in Runner : promoter[p].at = "done" => promoter'[p].at = "done"
    PROVE  RunTypeOK' /\ RunInv'
<1>1. RunTypeOK'
  BY DEF VersionInv, RunTypeOK
<1>2. RunInv'
  BY RunsKept DEF VersionInv
<1> QED
  BY <1>1, <1>2

LEMMA EventFields ==
    ASSUME RunTypeOK
    PROVE  events \in Nat /\ touched \subseteq Target /\ (Event => events' \in Nat)
  BY DEF RunTypeOK, Event

LEMMA PromoteKeeps ==
    ASSUME VersionInv, NEW p \in Proc, Promote(p)
    PROVE  Steps /\ RunTypeOK' /\ RunInv'
<1>1. PromoteStep(p) /\ UNCHANGED <<inferenceVars, runVars>>
  BY DEF Promote
<1>2. Steps
  BY <1>1 DEF Steps, PromotionNext
<1>3. \/ promoter' = promoter
      \/ promoter[p].at \in {"copying", "renamed"}
         /\ \E at \in {"renamed", "refused", "done"} : Turn(p, at)
  BY <1>1 DEF PromoteStep, CopyFile, Expose, AbandonPromotion, Describe, FailToDescribe
<1>4. /\ \A q \in Runner : promoter[q].at # "idle" =>
             promoter'[q].job = promoter[q].job /\ promoter'[q].at # "idle"
      /\ \A q \in Runner : promoter[q].at = "done" => promoter'[q].at = "done"
  <2>1. ASSUME promoter[p].at \in {"copying", "renamed"},
               NEW at \in {"renamed", "refused", "done"}, Turn(p, at)
        PROVE  /\ promoter'[p].at = at /\ promoter'[p].job = promoter[p].job
               /\ \A q \in Proc : q # p => promoter'[q] = promoter[q]
    BY <2>1, TurnFields DEF VersionInv, PromotionInv
  <2> QED
    BY <1>3, <2>1, Processes
<1> QED
  BY <1>1, <1>2, <1>4, BesideKeeps, EventFields DEF VersionInv, runVars

LEMMA InferKeeps ==
    ASSUME VersionInv, NEW p \in Proc, Infer(p)
    PROVE  Steps /\ RunTypeOK' /\ RunInv'
<1>1. Steps
  BY DEF Steps, InferenceNext, Infer
<1> QED
  BY <1>1, BesideKeeps, EventFields DEF Infer, VersionInv, runVars, promotionVars

LEMMA OperatorKeeps ==
    ASSUME VersionInv, NEW p \in Operator,
           OperatorPromotes(p) \/ OperatorInfers(p) \/ OperatorEnds(p)
    PROVE  Steps /\ RunTypeOK' /\ RunInv'
<1>1. ASSUME Steps, touched' = touched, events' \in Nat,
             UNCHANGED <<run, inventory, copied, evidence, passed, approvals, ready>>,
             \A q \in Runner : promoter'[q] = promoter[q]
      PROVE  Steps /\ RunTypeOK' /\ RunInv'
  BY <1>1, BesideKeeps, EventFields DEF VersionInv
<1>2. CASE OperatorPromotes(p)
  <2>1. PICK root \in Target, target \in Target :
            /\ candidate[root] \in Tree
            /\ \/ BeginPromotion(p, [root |-> root, target |-> target, files |-> candidate[root]])
               \/ RefusePromotion(p, [root |-> root, target |-> target, files |-> candidate[root]])
    BY <1>2 DEF OperatorPromotes
  <2> DEFINE req == [root |-> root, target |-> target, files |-> candidate[root]]
  <2>2. req \in Request /\ (BeginPromotion(p, req) \/ RefusePromotion(p, req))
    BY <2>1 DEF Request
  <2> HIDE DEF req
  <2>3. Steps
    BY <1>2, <2>2, Processes DEF Steps, PromotionNext, OperatorPromotes
  <2>4. PICK at \in {"copying", "refused"} : Take(p, req, at)
    BY <2>2 DEF BeginPromotion, RefusePromotion
  <2>5. \A q \in Runner : promoter'[q] = promoter[q]
    BY <2>2, <2>4, Processes, TakeFields DEF VersionInv, PromotionInv
  <2> QED
    BY <1>1, <1>2, <2>3, <2>5, EventFields DEF OperatorPromotes, VersionInv
<1>3. CASE OperatorInfers(p)
  <2>1. Steps
    BY <1>3, Processes DEF Steps, InferenceNext, OperatorInfers
  <2> QED
    BY <1>1, <1>3, <2>1, EventFields DEF OperatorInfers, promotionVars, VersionInv
<1>4. CASE LeaveInference(p) /\ UNCHANGED <<promotionVars, runVars>>
  <2>1. Steps
    BY <1>4, Processes DEF Steps, InferenceNext
  <2> QED
    BY <1>1, <1>4, <2>1, EventFields DEF promotionVars, runVars, VersionInv
<1>5. CASE (KillPromoter(p) \/ LeavePromotion(p)) /\ UNCHANGED <<inferenceVars, runVars>>
  <2>1. Steps
    BY <1>5, Processes DEF Steps, PromotionNext
  <2>2. \A q \in Runner : promoter'[q] = promoter[q]
    <3>1. promoter \in [Proc -> PromoterState]
      BY DEF VersionInv, PromotionInv, PromotionTypeOK
    <3> QED
      BY <1>5, <3>1, Processes DEF KillPromoter, LeavePromotion, Turn
  <2> QED
    BY <1>1, <1>5, <2>1, <2>2, EventFields DEF runVars, VersionInv
<1> QED
  BY <1>2, <1>3, <1>4, <1>5 DEF OperatorEnds

LEMMA WriteCheckpointKeeps ==
    ASSUME VersionInv, NEW f \in Input, NEW content \in Content, WriteCheckpoint(f, content)
    PROVE  Steps /\ RunTypeOK' /\ RunInv'
<1>1. Steps
  BY DEF Steps, InferenceNext, WriteCheckpoint
<1> QED
  BY <1>1, BesideKeeps, EventFields DEF WriteCheckpoint, VersionInv, promotionVars

LEMMA ChangeCandidateKeeps ==
    ASSUME VersionInv, NEW r \in Target, NEW f \in Artifact, ChangeCandidate(r, f)
    PROVE  Steps /\ RunTypeOK' /\ RunInv'
<1> DEFINE without == [g \in DOMAIN candidate[r] \ {f} |-> candidate[r][g]]
<1>1. candidate[r] \in PartialTree /\ f \in DOMAIN candidate[r]
  BY DEF VersionInv, PromotionInv, PromotionTypeOK, ChangeCandidate
<1>2. without \in PartialTree
  BY <1>1, PartialTreeWithout
<1>3. \/ candidate' = [candidate EXCEPT ![r] = without]
      \/ \E content \in Content : candidate' = [candidate EXCEPT ![r][f] = content]
  BY DEF ChangeCandidate
<1> HIDE DEF without
<1>4. \E t \in PartialTree : candidate' = [candidate EXCEPT ![r] = t]
  <2>1. ASSUME NEW content \in Content, candidate' = [candidate EXCEPT ![r][f] = content]
        PROVE  \E t \in PartialTree : candidate' = [candidate EXCEPT ![r] = t]
    <3> DEFINE t == [candidate[r] EXCEPT ![f] = content]
    <3>1. t \in PartialTree
      BY <1>1, PartialTreeChanged
    <3>2. candidate' = [candidate EXCEPT ![r] = t]
      BY <2>1
    <3> QED
      BY <3>1, <3>2
  <2> QED
    BY <1>2, <1>3, <2>1
<1>5. Steps
  BY <1>4, CandidateWritten DEF Steps, ChangeCandidate, VersionInv, PromotionInv
<1>6. touched' \subseteq Target /\ events' \in Nat
  BY EventFields DEF ChangeCandidate, VersionInv
<1> QED
  BY <1>5, <1>6, BesideKeeps DEF ChangeCandidate

LEMMA VersionStep ==
    ASSUME VersionInv, [Next]_vars
    PROVE  VersionInv'
<1>1. Steps /\ RunTypeOK' /\ RunInv'
  <2>1. ASSUME NEW p \in Runner, RunStep(p)
        PROVE  Steps /\ RunTypeOK' /\ RunInv'
    BY <2>1, ClaimKeeps, SurveyKeeps, WriteRequestKeeps, InferenceCallKeeps, CollectKeeps,
       PassGateKeeps, OpenCandidateKeeps, CopyAdapterKeeps, StartPromotionKeeps, ApproveKeeps,
       RefuseKeeps, KillKeeps DEF RunStep
  <2>2. CASE UNCHANGED vars
    <3>1. Steps
      BY <2>2 DEF Steps, vars
    <3> QED
      BY <2>2, <3>1, BesideKeeps, EventFields DEF vars, runVars, promotionVars, VersionInv
  <2> QED
    BY <2>1, <2>2, PromoteKeeps, InferKeeps, OperatorKeeps, WriteCheckpointKeeps,
       ChangeCandidateKeeps DEF Next
<1>2. PromotionInv' /\ InferenceInv'
  BY <1>1, PromotionStep, InferenceStep DEF Steps, VersionInv
<1> QED
  BY <1>1, <1>2 DEF VersionInv

LEMMA VersionInit_Inv == Init => VersionInv
<1> SUFFICES ASSUME Init
             PROVE  VersionInv
  OBVIOUS
<1>1. PromotionInv /\ InferenceInv
  BY PromotionInit_Inv, InferenceInit_Inv DEF Init
<1>2. [f \in {} |-> Missing] \in PartialInventory
  <2>1. [f \in {} |-> Missing] \in [{} -> Content]
    OBVIOUS
  <2> QED
    BY <2>1 DEF PartialInventory
<1>3. RunTypeOK
  BY <1>2 DEF Init, RunTypeOK, RunState, PartialInventory
<1>4. RunInv
  BY DEF Init, RunInv, Progress, ReleaseOf, RunAt
<1> QED
  BY <1>1, <1>3, <1>4 DEF VersionInv

(* run-9b-version.py beside operators and writers: promotion and inference  *)
(* keep their invariants, and a run has behind it what its phase says.      *)
THEOREM VersionInvariance == Spec => []VersionInv
  BY VersionInit_Inv, VersionStep, PTL DEF Spec

(* Every variable of the runs, of promotion and of inference has its type.  *)
THEOREM TypeCorrect == Spec => []TypeOK
<1>1. VersionInv => TypeOK
  BY DEF VersionInv, PromotionInv, InferenceInv, TypeOK
<1> QED
  BY <1>1, VersionInvariance, PTL

(* Whoever finds ready.json of a release finds the files it lists, their    *)
(* manifest, their approvals and, for the measured release, a gate report,  *)
(* however many runs and operators there are.                               *)
THEOREM ReadyPromoted == Spec => []ReadyIsPromoted
<1>1. VersionInv => ReadyIsPromoted
  <2> SUFFICES ASSUME VersionInv, NEW r \in Target, ready[r] # Missing
               PROVE  /\ release[r] = ready[r]
                      /\ [target |-> r, files |-> ready[r]] \in manifest
                      /\ approvals[r] = ready[r]
                      /\ r = Measured => passed
    BY DEF ReadyIsPromoted
  <2>1. PICK p \in Runner : run[p].at = "ready" /\ ReleaseOf(p) = r
    BY DEF VersionInv, RunInv, RunAt
  <2>2. /\ promoter[p].at = "done" /\ JobOf(p).target = r /\ ready[r] = JobOf(p).files
        /\ approvals[r] = JobOf(p).files /\ (r # Measured \/ passed)
    BY <2>1 DEF VersionInv, RunInv, Progress, RunAt
  <2>3. [target |-> r, files |-> ready[r]] \in manifest
    BY <2>2, Processes DEF VersionInv, PromotionInv, ManifestDescribes
  <2>4. release[r] = ready[r]
    BY <2>3 DEF VersionInv, PromotionInv, ManifestDescribes
  <2> QED
    BY <2>2, <2>3, <2>4
<1> QED
  BY <1>1, VersionInvariance, PTL

-----------------------------------------------------------------------------
(* The evidence: from the inference of a run to its ready.json              *)

LEMMA DoneStays ==
    ASSUME InferenceTypeOK, NEW p \in Proc, NEW q \in Proc, InSession(q, "done"),
           \/ InferStep(p) \/ KillInference(p) \/ BeginInference(p) \/ RefuseInference(p)
           \/ LeaveInference(p) /\ p # q
    PROVE  session'[q] = session[q] /\ request' = request
<1>1. request' = request
  BY DEF InferStep, BeginInference, RefuseInference, VerifyInput, EndVerification, LoadFile,
     Generate, RecheckInput, Seal, MakeOutput, Link, FinishInference, AbandonInference,
     UndoOutput, InterruptLinking, KillInference, LeaveInference
<1>2. session \in [Proc -> SessionState]
  BY DEF InferenceTypeOK
<1>3. p # q \/ session' = session
  BY DEF InferStep, BeginInference, RefuseInference, VerifyInput, EndVerification, LoadFile,
     Generate, RecheckInput, Seal, MakeOutput, Link, FinishInference, AbandonInference,
     UndoOutput, InterruptLinking, KillInference, LeaveInference, Inferring, InSession
<1>4. session' = session \/ \E s : session' = [session EXCEPT ![p] = s]
  BY DEF InferStep, BeginInference, RefuseInference, VerifyInput, EndVerification, LoadFile,
     Generate, RecheckInput, Seal, MakeOutput, Link, FinishInference, AbandonInference,
     UndoOutput, InterruptLinking, KillInference, LeaveInference, Enter
<1> QED
  BY <1>1, <1>2, <1>3, <1>4

(* Nothing happens that the evaluation of a run depends on.                 *)
Calm(q) ==
    /\ run'[q] = run[q]
    /\ ReleaseOf(q) = Measured =>
         /\ InSession(q, "done") => session'[q] = session[q] /\ request' = request
         /\ evidence' = evidence
         /\ copied'[Measured] = copied[Measured]
         /\ touched \subseteq touched'
         /\ Measured \in touched' \/ candidate'[Measured] = candidate[Measured]
         /\ promoter[q].at # "idle" => promoter'[q].job = promoter[q].job

LEMMA CalmKeeps ==
    ASSUME VersionInv, NEW q \in Runner, Evaluated(q), Calm(q)
    PROVE  Evaluated(q)'
<1>1. run[q].at \in {"promoting", "approved", "ready"} => promoter[q].at # "idle"
  BY DEF VersionInv, RunInv, Progress
<1> QED
  BY <1>1 DEF Evaluated, Calm, Traced, InSession, ReleaseOf, RunAt, JobOf

(* The run of the measured release is the only one.                         *)
LEMMA OtherRelease ==
    ASSUME VersionInv, NEW p \in Runner, NEW q \in Runner, p # q, ReleaseOf(q) = Measured
    PROVE  ReleaseOf(p) # Measured
  BY Processes DEF VersionInv, RunInv

LEMMA CandidateKept ==
    ASSUME VersionInv, NEW p \in Runner, OpenCandidate(p) \/ \E f \in Weights : CopyAdapter(p, f),
           ReleaseOf(p) # Measured
    PROVE  candidate'[Measured] = candidate[Measured] /\ copied'[Measured] = copied[Measured]
  BY Processes DEF VersionInv, PromotionInv, PromotionTypeOK, RunTypeOK, OpenCandidate, CopyAdapter

LEMMA OthersAreCalm ==
    ASSUME VersionInv, EvidenceInv, NEW p \in Runner, RunStep(p), NEW q \in Runner, q # p
    PROVE  Calm(q)
<1>1. run'[q] = run[q]
  <2>1. ASSUME NEW at \in {"surveying", "requested", "inferring", "collected", "gated", "copying",
                           "promoting", "approved", "ready", "refused", "killed"},
               Move(p, at)
        PROVE  run'[q] = run[q]
    BY <2>1, MoveFields DEF VersionInv
  <2>2. ASSUME NEW r \in Target, Claim(p, r)
        PROVE  run'[q] = run[q]
    BY <2>2 DEF Claim, VersionInv, RunTypeOK
  <2> QED
    BY <2>1, <2>2 DEF RunStep, Survey, WriteRequest, StartInference, StopInference, Collect,
       PassGate, OpenCandidate, CopyAdapter, StartPromotion, Approve, WriteReady, Refuse, Kill
<1> SUFFICES ASSUME ReleaseOf(q) = Measured
             PROVE  Calm(q)
  BY <1>1 DEF Calm
<1>2. ReleaseOf(p) # Measured
  BY OtherRelease
<1>3. CASE \/ \E r \in Target : Claim(p, r)
           \/ \E f \in Input : Survey(p, f)
           \/ PassGate(p) \/ Approve(p) \/ WriteReady(p) \/ Refuse(p)
  BY <1>1, <1>3 DEF Calm, Claim, Survey, PassGate, Approve, WriteReady, Refuse, promotionVars,
     inferenceVars
<1>4. CASE WriteRequest(p) \/ Collect(p)
  BY <1>2, <1>4 DEF EvidenceInv, Evaluated, WriteRequest, Collect, RunAt
<1>5. CASE StartInference(p) \/ StopInference(p)
  BY <1>2, <1>5 DEF EvidenceInv, Evaluated, StartInference, StopInference, RunAt
<1>6. CASE OpenCandidate(p) \/ \E f \in Weights : CopyAdapter(p, f)
  <2>1. UNCHANGED <<promoter, session, request, evidence, touched>>
    BY <1>6 DEF OpenCandidate, CopyAdapter, inferenceVars
  <2> QED
    BY <1>1, <1>2, <1>6, <2>1, CandidateKept DEF Calm
<1>7. CASE StartPromotion(p) \/ Kill(p)
  <2>1. UNCHANGED <<candidate, session, request, evidence, copied, touched>>
    BY <1>7 DEF StartPromotion, Kill, BeginPromotion, RefusePromotion, KillPromoter,
       promotionVars, inferenceVars
  <2>2. promoter'[q] = promoter[q]
    <3>1. promoter \in [Proc -> PromoterState]
      BY DEF VersionInv, PromotionInv, PromotionTypeOK
    <3>2. promoter' = promoter \/ \E x : promoter' = [promoter EXCEPT ![p] = x]
      BY <1>7 DEF StartPromotion, Kill, BeginPromotion, RefusePromotion, Take, KillPromoter,
         Turn, promotionVars
    <3> QED
      BY <3>1, <3>2, Processes
  <2> QED
    BY <1>1, <2>1, <2>2 DEF Calm
<1> QED
  BY <1>3, <1>4, <1>5, <1>6, <1>7 DEF RunStep

LEMMA CopyIsTraced ==
    ASSUME VersionInv, NEW p \in Runner, Evaluated(p), NEW f \in Weights, CopyAdapter(p, f)
    PROVE  Evaluated(p)'
<1>1. /\ run[p].at = "copying" /\ UNCHANGED <<run, session, request, evidence, touched, promoter>>
  BY DEF CopyAdapter, RunAt, inferenceVars
<1> SUFFICES ASSUME ReleaseOf(p) = Measured, Measured \notin touched
             PROVE  Traced(p, candidate[Measured])'
  BY <1>1 DEF Evaluated, InSession, ReleaseOf, RunAt
<1>2. InSession(p, "done") /\ Traced(p, candidate[Measured])
  BY <1>1 DEF Evaluated, RunAt
<1>3. candidate[Measured] \in PartialTree /\ copied[Measured] \in [Weights -> Nat]
  BY Processes DEF VersionInv, PromotionInv, PromotionTypeOK, RunTypeOK
<1>4. /\ candidate'[Measured] = [g \in DOMAIN candidate[Measured] \cup {f} |->
             IF g = f THEN disk[f].content ELSE candidate[Measured][g]]
      /\ copied'[Measured] = [copied[Measured] EXCEPT ![f] = disk[f].writes]
  BY <1>3, Processes DEF CopyAdapter, VersionInv, PromotionInv, PromotionTypeOK, RunTypeOK
<1>5. ASSUME NEW k \in DOMAIN Checks, Checks[k].kind = "tree",
             Checks[k].file \in Weights, Checks[k].file \in DOMAIN candidate'[Measured],
             candidate'[Measured][Checks[k].file] # request.tree[Checks[k].file]
      PROVE  copied'[Measured][Checks[k].file] > session[p].last[k]
  <2>1. CASE Checks[k].file = f
    <3>1. disk[f].content # request.tree[f] /\ copied'[Measured][f] = disk[f].writes
      BY <1>3, <1>4, <1>5, <2>1
    <3>2. BoundBy(p, k) /\ Rechecked(p, k)
      BY <1>2, Processes DEF VersionInv, InferenceInv, SessionInv, Rechecked, InSession
    <3>3. session[p].last[k] <= disk[f].writes /\ disk[f].writes # session[p].last[k]
      BY <1>5, <2>1, <3>1, <3>2 DEF BoundBy
    <3>4. session[p].last[k] \in Nat
      BY SessionFields, Processes DEF VersionInv, InferenceInv
    <3>5. disk[f].writes \in Nat
      BY WeightsAreInputs DEF VersionInv, InferenceInv, InferenceTypeOK
    <3> QED
      BY <2>1, <3>1, <3>3, <3>4, <3>5
  <2>2. CASE Checks[k].file # f
    <3>1. /\ Checks[k].file \in DOMAIN candidate[Measured]
          /\ candidate[Measured][Checks[k].file] # request.tree[Checks[k].file]
          /\ copied'[Measured][Checks[k].file] = copied[Measured][Checks[k].file]
      BY <1>3, <1>4, <1>5, <2>2
    <3> QED
      BY <1>2, <1>5, <3>1 DEF Traced
  <2> QED
    BY <2>1, <2>2
<1> QED
  BY <1>1, <1>5 DEF Traced

LEMMA RunKeepsEvidence ==
    ASSUME VersionInv, NEW p \in Runner, Evaluated(p), RunStep(p)
    PROVE  Evaluated(p)'
<1>1. ASSUME NEW at \in {"surveying", "requested", "inferring", "collected", "gated", "copying",
                         "promoting", "approved", "ready", "refused", "killed"},
             Move(p, at)
      PROVE  run'[p].at = at /\ run'[p].release = run[p].release
  BY <1>1, MoveFields DEF VersionInv
<1>2. ASSUME NEW r \in Target, Claim(p, r)
      PROVE  Evaluated(p)'
  <2>1. run'[p].at \in {"surveying", "refused"}
    BY <1>2 DEF Claim, VersionInv, RunTypeOK, RunState
  <2> QED
    BY <2>1 DEF Evaluated, RunAt
<1>3. ASSUME NEW f \in Input, Survey(p, f)
      PROVE  Evaluated(p)'
  <2>1. Calm(p)
    BY <1>3 DEF Calm, Survey, promotionVars, inferenceVars
  <2> QED
    BY <2>1, CalmKeeps
<1>4. CASE WriteRequest(p) \/ StartInference(p)
  <2>1. run'[p].at \in {"requested", "inferring"} /\ run'[p].release = Measured
    BY <1>1, <1>4 DEF Evaluated, WriteRequest, StartInference, RunAt, ReleaseOf
  <2> QED
    BY <2>1 DEF Evaluated, RunAt, ReleaseOf
<1>5. CASE StopInference(p) \/ Refuse(p) \/ Kill(p)
  <2>1. run'[p].at \in {"refused", "killed"}
    BY <1>1, <1>5 DEF StopInference, Refuse, Kill
  <2> QED
    BY <2>1 DEF Evaluated, RunAt
<1>6. CASE Collect(p)
  <2>1. /\ run'[p].at = "collected" /\ run'[p].release = Measured
        /\ InSession(p, "done") /\ session' = session
    BY <1>1, <1>6 DEF Evaluated, Collect, RunAt, ReleaseOf, inferenceVars
  <2>2. output.files["predictions"] = p
    BY <2>1, Processes DEF VersionInv, InferenceInv, OutputIsOwned, Part
  <2>3. evidence' = [run |-> disk[RunManifest].content, by |-> p]
    BY <1>6, <2>2 DEF Collect
  <2>4. evidence' # Missing /\ evidence'.by = p
    <3>1. evidence' \in [run : Content, by : Proc]
      BY <2>3, Processes DEF VersionInv, InferenceInv, InferenceTypeOK
    <3> QED
      BY <2>3, <3>1, EvidenceAssumption
  <2> QED
    BY <2>1, <2>4 DEF Evaluated, RunAt, ReleaseOf, InSession
<1>7. CASE PassGate(p) \/ Approve(p) \/ WriteReady(p)
  <2>1. UNCHANGED <<promoter, candidate, session, request, evidence, copied, touched>>
    BY <1>7 DEF PassGate, Approve, WriteReady, promotionVars, inferenceVars
  <2>2. /\ run'[p].release = run[p].release
        /\ \/ run[p].at = "collected" /\ run'[p].at = "gated"
           \/ run[p].at \in {"promoting", "approved"} /\ run'[p].at \in {"approved", "ready"}
    BY <1>1, <1>7 DEF PassGate, Approve, WriteReady, RunAt
  <2> QED
    BY <2>1, <2>2 DEF Evaluated, Traced, InSession, RunAt, ReleaseOf, JobOf
<1>8. CASE OpenCandidate(p)
  <2>1. UNCHANGED <<session, evidence>>
    BY <1>8 DEF OpenCandidate, inferenceVars
  <2>2. run'[p].at = "copying" /\ run'[p].release = run[p].release
    BY <1>1, <1>8 DEF OpenCandidate
  <2> SUFFICES ASSUME ReleaseOf(p) = Measured
               PROVE  /\ evidence # Missing /\ evidence.by = p /\ InSession(p, "done")
                      /\ Traced(p, candidate[Measured])'
    BY <2>1, <2>2 DEF Evaluated, InSession, RunAt, ReleaseOf
  <2>3. run[p].at = "gated"
    BY <1>8 DEF OpenCandidate, Stageable, RunAt
  <2>4. candidate'[Measured] = [f \in {Card} |-> CardText]
    BY <1>8, Processes DEF OpenCandidate, VersionInv, PromotionInv, PromotionTypeOK
  <2>5. Weights \cap DOMAIN candidate'[Measured] = {}
    BY <2>4, RunAssumption
  <2> QED
    BY <2>3, <2>5 DEF Evaluated, Traced
<1>9. ASSUME NEW f \in Weights, CopyAdapter(p, f)
      PROVE  Evaluated(p)'
  BY <1>9, CopyIsTraced
<1>10. CASE StartPromotion(p)
  <2>1. UNCHANGED <<session, request, evidence, copied, touched, candidate>>
    BY <1>10 DEF StartPromotion, BeginPromotion, RefusePromotion, inferenceVars
  <2>2. /\ run[p].at = "copying" /\ run'[p].at = "promoting"
        /\ run'[p].release = run[p].release
    BY <1>1, <1>10 DEF StartPromotion, RunAt
  <2>3. promoter'[p].job = RequestOf(ReleaseOf(p))
    <3>1. promoter \in [Proc -> PromoterState]
      BY DEF VersionInv, PromotionInv, PromotionTypeOK
    <3> QED
      BY <1>10, <3>1, Processes DEF StartPromotion, BeginPromotion, RefusePromotion, Take
  <2>4. promoter'[p].job.files = candidate[ReleaseOf(p)]
    BY <2>3 DEF RequestOf
  <2> QED
    BY <2>1, <2>2, <2>4 DEF Evaluated, Traced, InSession, RunAt, ReleaseOf, JobOf
<1> QED
  BY <1>2, <1>3, <1>4, <1>5, <1>6, <1>7, <1>8, <1>9, <1>10 DEF RunStep

LEMMA BesideIsCalm ==
    ASSUME VersionInv, NEW q \in Runner,
           \/ \E p \in Proc : Promote(p) \/ Infer(p)
           \/ \E p \in Operator : OperatorPromotes(p) \/ OperatorInfers(p) \/ OperatorEnds(p)
           \/ \E f \in Input, content \in Content : WriteCheckpoint(f, content)
           \/ \E r \in Target, f \in Artifact : ChangeCandidate(r, f)
           \/ UNCHANGED vars
    PROVE  Calm(q)
<1>1. promoter \in [Proc -> PromoterState] /\ InferenceTypeOK
  BY DEF VersionInv, PromotionInv, PromotionTypeOK, InferenceInv
<1>2. ASSUME NEW p \in Proc, Promote(p)
      PROVE  Calm(q)
  <2>1. promoter' = promoter \/ \E at \in {"renamed", "refused", "done"} : Turn(p, at)
    BY <1>2 DEF Promote, PromoteStep, CopyFile, Expose, AbandonPromotion, Describe,
       FailToDescribe
  <2>2. promoter'[q].job = promoter[q].job
    BY <1>1, <2>1, Processes DEF Turn, PromoterState
  <2>3. UNCHANGED <<run, candidate, session, request, evidence, copied, touched>>
    BY <1>2 DEF Promote, PromoteStep, CopyFile, Expose, AbandonPromotion, Describe,
       FailToDescribe, inferenceVars, runVars
  <2> QED
    BY <2>2, <2>3 DEF Calm
<1>3. ASSUME NEW p \in Proc, Infer(p) \/ OperatorInfers(p) \/ (LeaveInference(p) /\ p # q),
             UNCHANGED <<run, candidate, promoter, evidence, copied, touched>>
      PROVE  Calm(q)
  <2>1. InSession(q, "done") => session'[q] = session[q] /\ request' = request
    BY <1>1, <1>3, Processes, DoneStays DEF Infer, OperatorInfers
  <2> QED
    BY <1>3, <2>1 DEF Calm
<1>4. ASSUME NEW p \in Operator, OperatorPromotes(p)
      PROVE  Calm(q)
  <2>1. /\ UNCHANGED <<run, candidate, session, request, evidence, copied, touched>>
        /\ \E x : promoter' = [promoter EXCEPT ![p] = x]
    BY <1>4 DEF OperatorPromotes, BeginPromotion, RefusePromotion, Take, inferenceVars
  <2>2. promoter'[q] = promoter[q]
    BY <1>1, <2>1, Processes
  <2> QED
    BY <2>1, <2>2 DEF Calm
<1>5. ASSUME NEW p \in Operator, OperatorEnds(p)
      PROVE  Calm(q)
  <2>1. CASE LeaveInference(p) /\ UNCHANGED <<promotionVars, runVars>>
    BY <1>3, <2>1, Processes DEF promotionVars, runVars
  <2>2. CASE (KillPromoter(p) \/ LeavePromotion(p)) /\ UNCHANGED <<inferenceVars, runVars>>
    <3>1. /\ UNCHANGED <<run, candidate, session, request, evidence, copied, touched>>
          /\ \E x : promoter' = [promoter EXCEPT ![p] = x]
      BY <2>2 DEF KillPromoter, LeavePromotion, Turn, inferenceVars, runVars
    <3>2. promoter'[q] = promoter[q]
      BY <1>1, <3>1, Processes
    <3> QED
      BY <3>1, <3>2 DEF Calm
  <2> QED
    BY <1>5, <2>1, <2>2 DEF OperatorEnds
<1>6. ASSUME NEW f \in Input, NEW content \in Content, WriteCheckpoint(f, content)
      PROVE  Calm(q)
  BY <1>6 DEF Calm, WriteCheckpoint, WriteInput, promotionVars
<1>7. ASSUME NEW r \in Target, NEW f \in Artifact, ChangeCandidate(r, f)
      PROVE  Calm(q)
  <2>1. UNCHANGED <<run, promoter, session, request, evidence, copied>>
        /\ touched' = touched \cup {r}
    BY <1>7 DEF ChangeCandidate, inferenceVars
  <2>2. r = Measured \/ candidate'[Measured] = candidate[Measured]
    BY <1>7, Processes DEF ChangeCandidate, VersionInv, PromotionInv, PromotionTypeOK
  <2> QED
    BY <2>1, <2>2 DEF Calm
<1>8. CASE UNCHANGED vars
  BY <1>8 DEF Calm, vars, promotionVars, inferenceVars, runVars
<1>9. ASSUME NEW p \in Proc, Infer(p) \/ OperatorInfers(p)
      PROVE  Calm(q)
  BY <1>3, <1>9 DEF Infer, OperatorInfers, promotionVars, runVars
<1> QED
  BY <1>2, <1>4, <1>5, <1>6, <1>7, <1>8, <1>9, Processes

LEMMA EvidenceStep ==
    ASSUME VersionInv, EvidenceInv, [Next]_vars
    PROVE  EvidenceInv'
<1> SUFFICES ASSUME NEW q \in Runner
             PROVE  Evaluated(q)'
  BY DEF EvidenceInv
<1>1. Evaluated(q)
  BY DEF EvidenceInv
<1>2. ASSUME NEW p \in Runner, RunStep(p)
      PROVE  Evaluated(q)'
  <2>1. CASE p = q
    BY <1>1, <1>2, <2>1, RunKeepsEvidence
  <2>2. CASE p # q
    BY <1>1, <1>2, <2>2, OthersAreCalm, CalmKeeps
  <2> QED
    BY <2>1, <2>2
<1>3. CASE Calm(q)
  BY <1>1, <1>3, CalmKeeps
<1> QED
  BY <1>2, <1>3, BesideIsCalm DEF Next

(* The evidence of a measured release is of an inference of its own run,    *)
(* and its weights can be followed from there, whatever operators, other    *)
(* runs and writers do.                                                     *)
THEOREM EvidenceInvariance == Spec => []EvidenceInv
<1>1. Init => EvidenceInv
  BY Processes DEF Init, EvidenceInv, Evaluated, RunAt, ReleaseOf
<1>2. VersionInv /\ EvidenceInv /\ [Next]_vars => EvidenceInv'
  BY EvidenceStep
<1> QED
  BY <1>1, <1>2, VersionInvariance, PTL DEF Spec

(* A measured release that is ready was judged by predictions of its own    *)
(* run, and whatever differs from the weights that were verified was        *)
(* written after the last verification or changed in the candidate.         *)
THEOREM ReadyEvaluated == Spec => []ReadyIsEvaluated
<1>1. VersionInv /\ EvidenceInv => ReadyIsEvaluated
  <2> SUFFICES ASSUME VersionInv, EvidenceInv, ready[Measured] # Missing
               PROVE  /\ evidence # Missing
                      /\ evidence.by \in Runner
                      /\ RunAt(evidence.by, "ready") /\ InSession(evidence.by, "done")
                      /\ \A k \in DOMAIN Checks :
                           Checks[k].kind = "tree" /\ Checks[k].file \in Weights
                           /\ ready[Measured][Checks[k].file] # request.tree[Checks[k].file]
                             => \/ copied[Measured][Checks[k].file]
                                     > session[evidence.by].last[k]
                                \/ Measured \in touched
    BY DEF ReadyIsEvaluated
  <2>1. PICK p \in Runner : run[p].at = "ready" /\ ReleaseOf(p) = Measured
    BY Processes DEF VersionInv, RunInv, RunAt
  <2>2. promoter[p].at # "idle" /\ ready[Measured] = JobOf(p).files
    BY <2>1 DEF VersionInv, RunInv, Progress, RunAt
  <2>3. DOMAIN ready[Measured] = Artifact
    BY <2>2, Processes, JobIsRequest, TreeIsThere DEF VersionInv
  <2>4. /\ evidence # Missing /\ evidence.by = p /\ InSession(p, "done")
        /\ Measured \in touched \/ Traced(p, JobOf(p).files)
    BY <2>1 DEF EvidenceInv, Evaluated
  <2> QED
    BY <2>1, <2>2, <2>3, <2>4, Processes DEF RunAt, Traced
<1> QED
  BY <1>1, VersionInvariance, EvidenceInvariance, PTL
=============================================================================
