----------------------------- MODULE Publication -----------------------------
(***************************************************************************)
(* Putting releases on the model hub: publish_remote_official_release of    *)
(* shadowcrafter.release.remote_huggingface, and the three ways it is       *)
(* called.                                                                  *)
(*   - scripts/automation/watch-9b-versions.py publishes a release from a   *)
(*     local directory that it creates, once;                               *)
(*   - scripts/automation/publish-9b-pre-eval.py may be run again over the  *)
(*     manifest an earlier run left;                                        *)
(*   - the command release publish-remote-official, which the workflow      *)
(*     controller runs, is given a manifest that was frozen before.         *)
(* No lock is shared: any number of publishers may run at once, for the     *)
(* same release or for others, and each may be killed at any point.  What   *)
(* keeps them apart is exclusive file creation and the parent commit the    *)
(* hub compares.                                                            *)
(***************************************************************************)
EXTENDS Integers, Sequences

CONSTANTS
    Publisher,      \* processes that publish
    OneShot,        \* releases published by the watcher
    Resumable,      \* releases published by publish-9b-pre-eval
    Frozen,         \* releases published by the command, with a given manifest
    Nobody,         \* no release: whoever else commits to the repository
    MaxHub          \* bound: commits on the hub

Release == OneShot \cup Resumable \cup Frozen

ASSUME ReleaseAssumption ==
    /\ Nobody \notin Release
    /\ OneShot \cap Resumable = {}
    /\ OneShot \cap Frozen = {}
    /\ Resumable \cap Frozen = {}

ASSUME HubAssumption == MaxHub \in Nat \ {0}

VARIABLES
    hub,        \* the commits of main: the release, and whether its bytes are right
    public,     \* the repository is public
    tags,       \* the commit a release's tag names, 0 if it has none
    sound,      \* releases whose files, card, approvals and evidence agree
    local,      \* releases whose local directory the watcher has created
    manifest,   \* the parent commit in remote-release-manifest.json
    receipt,    \* the commit in publication-receipt.json, 0 if there is none
    run         \* the publishers

vars == <<hub, public, tags, sound, local, manifest, receipt, run>>
files == <<local, manifest, receipt>>
hubState == <<hub, public, tags>>

-----------------------------------------------------------------------------
None == 0
Torn == -1      \* created, not yet written

Main == Len(hub)

Commit == [release : Release \cup {Nobody}, sound : BOOLEAN]

(* parent and commit are what the process read or was answered.             *)
Run == [at : {"idle", "starting", "looked", "writing", "written", "checked", "read",
              "committed", "verified", "tagged"},
        release : Release \cup {Nobody}, parent : Nat, commit : Nat]
Idle == [at |-> "idle", release |-> Nobody, parent |-> None, commit |-> None]

At(p, location) == run[p].at = location
ReleaseOf(p) == run[p].release
Goto(p, location) == run' = [run EXCEPT ![p].at = location]

Published(r) == \E i \in DOMAIN hub : hub[i].release = r

Init ==
    /\ hub = <<[release |-> Nobody, sound |-> TRUE]>>
    /\ public \in BOOLEAN
    /\ tags = [r \in Release |-> None]
    /\ sound \in SUBSET Release
    /\ local = {}
    /\ manifest = [r \in Release |-> None]
    /\ receipt = [r \in Release |-> None]
    /\ run = [p \in Publisher |-> Idle]

-----------------------------------------------------------------------------
(* The callers, up to the manifest                                          *)

(* Faulty: the directory is made for any kind of release.                   *)
CreateLocalForAny(p, r) ==
    /\ At(p, "idle")
    /\ r \notin local
    /\ local' = local \cup {r}
    /\ run' = [run EXCEPT ![p] = [Idle EXCEPT !.at = "starting", !.release = r]]
    /\ UNCHANGED <<hubState, sound, manifest, receipt>>

(* The watcher: the remote job is done, its evidence is fetched into a      *)
(* directory that must be new.                                              *)
CreateLocal(p, r) ==
    /\ At(p, "idle")
    /\ r \in OneShot \ local
    /\ local' = local \cup {r}
    /\ run' = [run EXCEPT ![p] = [Idle EXCEPT !.at = "starting", !.release = r]]
    /\ UNCHANGED <<hubState, sound, manifest, receipt>>

(* publish-9b-pre-eval, over ready.json and the approvals.                  *)
LoadReady(p, r) ==
    /\ At(p, "idle")
    /\ r \in Resumable \cap sound
    /\ run' = [run EXCEPT ![p] = [Idle EXCEPT !.at = "starting", !.release = r]]
    /\ UNCHANGED <<hubState, sound, files>>

(* The command, or the controller's publish phase.                          *)
GivenManifest(p, r) ==
    /\ At(p, "idle")
    /\ r \in Frozen
    /\ run' = [run EXCEPT ![p] = [Idle EXCEPT !.at = "written", !.release = r]]
    /\ UNCHANGED <<hubState, sound, files>>

LookAtHub(p) ==
    /\ At(p, "starting")
    /\ public
    /\ run' = [run EXCEPT ![p].at = "looked", ![p].parent = Main]
    /\ UNCHANGED <<hubState, sound, files>>

(* Faulty: the manifest of an earlier run is written anew.                  *)
CreateManifestAnew(p) ==
    /\ At(p, "looked")
    /\ manifest' = [manifest EXCEPT ![ReleaseOf(p)] = Torn]
    /\ Goto(p, "writing")
    /\ UNCHANGED <<hubState, sound, local, receipt>>

(* The file is created exclusively, then written.                           *)
CreateManifest(p) ==
    /\ At(p, "looked")
    /\ manifest[ReleaseOf(p)] = None
    /\ manifest' = [manifest EXCEPT ![ReleaseOf(p)] = Torn]
    /\ Goto(p, "writing")
    /\ UNCHANGED <<hubState, sound, local, receipt>>

FillManifest(p) ==
    /\ At(p, "writing")
    /\ manifest' = [manifest EXCEPT ![ReleaseOf(p)] = run[p].parent]
    /\ Goto(p, "written")
    /\ UNCHANGED <<hubState, sound, local, receipt>>

(* Faulty: only a publication that was finished is resumed.                 *)
ReuseManifestFinished(p) ==
    /\ At(p, "looked")
    /\ receipt[ReleaseOf(p)] # None
    /\ Goto(p, "written")
    /\ UNCHANGED <<hubState, sound, files>>

(* An existing manifest is good enough when this run would write the same.  *)
ReuseManifest(p) ==
    /\ At(p, "looked")
    /\ ReleaseOf(p) \in Resumable
    /\ manifest[ReleaseOf(p)] = run[p].parent
    /\ Goto(p, "written")
    /\ UNCHANGED <<hubState, sound, files>>

-----------------------------------------------------------------------------
(* publish_remote_official_release                                          *)

(* The manifest, the approvals and the evidence are right, the repository   *)
(* is public and still at the parent.                                       *)
CheckParent(p) ==
    /\ At(p, "written")
    /\ manifest[ReleaseOf(p)] = Main
    /\ ReleaseOf(p) \in sound
    /\ public
    /\ run' = [run EXCEPT ![p].at = "checked", ![p].parent = manifest[ReleaseOf(p)]]
    /\ UNCHANGED <<hubState, sound, files>>

(* Faulty: the files are taken as they come.                                *)
ReadFilesUnverified(p) ==
    /\ At(p, "checked")
    /\ run' = [run EXCEPT ![p].at = "read",
                          ![p].commit = IF ReleaseOf(p) \in sound THEN 1 ELSE 0]
    /\ UNCHANGED <<hubState, sound, files>>

(* Every file and the card are as the manifest says; the bytes stay in      *)
(* memory, and commit is 1 for bytes that are right until the hub answers.  *)
ReadFiles(p) ==
    /\ At(p, "checked")
    /\ ReleaseOf(p) \in sound
    /\ run' = [run EXCEPT ![p].at = "read", ![p].commit = 1]
    /\ UNCHANGED <<hubState, sound, files>>

(* Faulty: the commit is created on whatever main is.                       *)
CreateCommitUnpinned(p) ==
    /\ At(p, "read")
    /\ Main < MaxHub
    /\ hub' = Append(hub, [release |-> ReleaseOf(p), sound |-> run[p].commit = 1])
    /\ run' = [run EXCEPT ![p].at = "committed", ![p].commit = Main + 1]
    /\ UNCHANGED <<public, tags, sound, files>>

(* The hub compares the parent commit.                                      *)
CreateCommit(p) ==
    /\ At(p, "read")
    /\ Main = run[p].parent
    /\ Main < MaxHub
    /\ hub' = Append(hub, [release |-> ReleaseOf(p), sound |-> run[p].commit = 1])
    /\ run' = [run EXCEPT ![p].at = "committed", ![p].commit = Main + 1]
    /\ UNCHANGED <<public, tags, sound, files>>

(* Every file is streamed back from the commit, which must be public.       *)
VerifyCommit(p) ==
    /\ At(p, "committed")
    /\ public
    /\ hub[run[p].commit].sound
    /\ Goto(p, "verified")
    /\ UNCHANGED <<hubState, sound, files>>

-----------------------------------------------------------------------------
(* The callers, after it                                                    *)

(* Faulty: an existing tag is moved.                                        *)
CreateTagMoving(p) ==
    /\ At(p, "verified")
    /\ ReleaseOf(p) \notin Frozen
    /\ tags' = [tags EXCEPT ![ReleaseOf(p)] = Main]
    /\ Goto(p, "tagged")
    /\ UNCHANGED <<hub, public, sound, files>>

CreateTag(p) ==
    /\ At(p, "verified")
    /\ ReleaseOf(p) \notin Frozen
    /\ tags[ReleaseOf(p)] = None
    /\ tags' = [tags EXCEPT ![ReleaseOf(p)] = run[p].commit]
    /\ Goto(p, "tagged")
    /\ UNCHANGED <<hub, public, sound, files>>

Record(p) ==
    /\ receipt[ReleaseOf(p)] = None
    /\ receipt' = [receipt EXCEPT ![ReleaseOf(p)] = run[p].commit]
    /\ run' = [run EXCEPT ![p] = Idle]
    /\ UNCHANGED <<hubState, sound, local, manifest>>

(* Faulty: the receipt is written before the tag.                           *)
WriteReceiptEarly(p) ==
    /\ At(p, "verified")
    /\ ReleaseOf(p) \notin Frozen
    /\ Record(p)

WriteReceipt(p) ==
    /\ At(p, "tagged")
    /\ Record(p)

(* The command has no tag; its receipt is what it prints.                   *)
PrintReceipt(p) ==
    /\ At(p, "verified")
    /\ ReleaseOf(p) \in Frozen
    /\ Record(p)

(* An exception at any point, a lost answer of the hub, or a kill.          *)
Stop(p) ==
    /\ ~At(p, "idle")
    /\ run' = [run EXCEPT ![p] = Idle]
    /\ UNCHANGED <<hubState, sound, files>>

-----------------------------------------------------------------------------
(* The world around                                                         *)

(* An operator freezes the manifest of a release against the current main.  *)
Freeze(r) ==
    /\ r \in Frozen
    /\ manifest[r] = None
    /\ manifest' = [manifest EXCEPT ![r] = Main]
    /\ UNCHANGED <<hubState, sound, local, receipt, run>>

CommitByOthers ==
    /\ Main < MaxHub
    /\ hub' = Append(hub, [release |-> Nobody, sound |-> TRUE])
    /\ UNCHANGED <<public, tags, sound, files, run>>

SetVisibility ==
    /\ public' = ~public
    /\ UNCHANGED <<hub, tags, sound, files, run>>

Spoil(r) ==
    /\ sound' = sound \ {r}
    /\ sound' # sound
    /\ UNCHANGED <<hubState, files, run>>

-----------------------------------------------------------------------------
Begin(p) == \E r \in Release : CreateLocal(p, r) \/ LoadReady(p, r) \/ GivenManifest(p, r)

MakeManifest(p) ==
    LookAtHub(p) \/ CreateManifest(p) \/ FillManifest(p) \/ ReuseManifest(p)

(* publish_remote_official_release                                          *)
PublishRelease(p) == CheckParent(p) \/ ReadFiles(p) \/ CreateCommit(p) \/ VerifyCommit(p)

Finish(p) == CreateTag(p) \/ WriteReceipt(p) \/ PrintReceipt(p) \/ Stop(p)

Publish(p) == Begin(p) \/ MakeManifest(p) \/ PublishRelease(p) \/ Finish(p)

World == (\E r \in Release : Freeze(r) \/ Spoil(r)) \/ CommitByOthers \/ SetVisibility

Next == (\E p \in Publisher : Publish(p)) \/ World

Spec == Init /\ [][Next]_vars

(* publish-9b-pre-eval is run again whenever it has ended, and not every    *)
(* run is killed before the step that the last one did not reach.           *)
FairSpec ==
    /\ Spec
    /\ \A p \in Publisher :
         /\ WF_vars(Stop(p))
         /\ \A r \in Resumable :
              /\ SF_vars(LoadReady(p, r))
              /\ SF_vars(ReleaseOf(p) = r /\ LookAtHub(p))
              /\ SF_vars(ReleaseOf(p) = r /\ (CreateManifest(p) \/ ReuseManifest(p)))
              /\ SF_vars(ReleaseOf(p) = r /\ FillManifest(p))
              /\ SF_vars(ReleaseOf(p) = r /\ CheckParent(p))
              /\ SF_vars(ReleaseOf(p) = r /\ ReadFiles(p))
              /\ SF_vars(ReleaseOf(p) = r /\ CreateCommit(p))

-----------------------------------------------------------------------------
(* Properties                                                               *)

(* Every variable has its type.                                             *)
TypeOK ==
    /\ hub \in Seq(Commit)
    /\ public \in BOOLEAN
    /\ tags \in [Release -> Nat]
    /\ sound \in SUBSET Release
    /\ local \in SUBSET OneShot
    /\ manifest \in [Release -> Nat \cup {Torn}]
    /\ receipt \in [Release -> Nat]
    /\ run \in [Publisher -> Run]

(* A commit of a release sits right on the parent its manifest names, and   *)
(* so a release is committed once, however many publishers, retries and     *)
(* other people's commits there are: create_commit is pinned to the parent  *)
(* of a manifest that is never written twice.                               *)
ManifestExplainsCommit ==
    \A i \in DOMAIN hub :
        hub[i].release \in Release => manifest[hub[i].release] = i - 1

(* What a release commit holds is what its manifest, card and approvals     *)
(* say, also when the files are replaced between the check and the upload.  *)
CommitsAreSound == \A i \in DOMAIN hub : hub[i].sound

(* A tag names a commit of its release, and a receipt that commit too: the  *)
(* tag is created before the receipt, for the commit the hub answered.      *)
ReceiptsAreEarned ==
    \A r \in Release :
        /\ tags[r] # None => tags[r] \in DOMAIN hub /\ hub[tags[r]].release = r
        /\ receipt[r] # None =>
             /\ receipt[r] \in DOMAIN hub /\ hub[receipt[r]].release = r
             /\ r \notin Frozen => tags[r] = receipt[r]

(* What a publisher that has come this far can rely on.                     *)
Good(x) ==
    /\ x.at # "idle" => x.release \in Release
    /\ x.at \in {"looked", "writing", "checked", "read"} => x.parent \in 1 .. Main
    /\ x.at = "writing" => manifest[x.release] = Torn
    /\ x.at \in {"checked", "read"} => manifest[x.release] = x.parent
    /\ x.at = "read" => x.commit = 1
    /\ x.at \in {"committed", "verified", "tagged"} =>
         x.commit \in 1 .. Main /\ hub[x.commit].release = x.release
    /\ x.at = "tagged" => tags[x.release] = x.commit /\ x.release \notin Frozen

OneWriter ==
    \A p, q \in Publisher :
        At(p, "writing") /\ At(q, "writing") /\ ReleaseOf(p) = ReleaseOf(q) => p = q

HubInv == Main \in 1 .. MaxHub /\ hub[1].release = Nobody

(* What makes the invariants inductive: a half-written manifest has one     *)
(* writer, and from the check to the upload the manifest is the parent.     *)
IInv ==
    /\ TypeOK
    /\ HubInv
    /\ \A p \in Publisher : Good(run[p])
    /\ OneWriter
    /\ ManifestExplainsCommit
    /\ CommitsAreSound
    /\ ReceiptsAreEarned

(* Committed, and whoever committed it has gone without the tag.            *)
Stranded(r) ==
    /\ Published(r)
    /\ tags[r] = None
    /\ \A p \in Publisher :
         ReleaseOf(p) = r => run[p].at \notin {"committed", "verified", "tagged"}

(* A release whose publisher ended between the commit and the tag is never  *)
(* tagged or recorded, whoever retries: the retry wants another parent than *)
(* the manifest it finds, and never gets hold of a commit.                  *)
StrandedStays == [][\A r \in Release : Stranded(r) => Stranded(r)']_vars

Ledger == INSTANCE ReleaseLedger WITH
    Untagged <- Frozen,
    CommitId <- 1 .. MaxHub,
    commits <- [r \in Release |-> {i \in DOMAIN hub : hub[i].release = r}],
    tag <- tags,
    record <- receipt

(* All the hub ever shows of the releases is what ReleaseLedger allows.     *)
ImplementsLedger == Ledger!Spec

(* Nothing is left that a retry could not get over.                         *)
Retryable(r) ==
    /\ public
    /\ r \in sound
    /\ manifest[r] \in {None, Main}
    /\ ~Published(r)
    /\ Main < MaxHub

(* A release that may be retried does not stay so: as long as main is where *)
(* the manifest of an earlier run left it, a later run reuses the manifest  *)
(* and commits.                                                             *)
RetriesCommit == \A r \in Resumable : []<>~Retryable(r)
=============================================================================
