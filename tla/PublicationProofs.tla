-------------------------- MODULE PublicationProofs --------------------------
(***************************************************************************)
(* The invariants of Publication, and that it implements ReleaseLedger, for *)
(* any number of publishers and releases and any bound on the hub.          *)
(***************************************************************************)
EXTENDS Publication, TLAPS

USE ReleaseAssumption, HubAssumption

-----------------------------------------------------------------------------
(* How a step changes the publishers                                        *)

(* The fields of the one publisher that moved; the others are as they were. *)
LEMMA GotoFields ==
    ASSUME TypeOK, NEW p \in Publisher, NEW l \in
             {"idle", "starting", "looked", "writing", "written", "checked", "read",
              "committed", "verified", "tagged"},
           NEW n \in Nat, NEW c \in Nat,
           run' = [run EXCEPT ![p].at = l, ![p].parent = n, ![p].commit = c]
    PROVE  /\ run' \in [Publisher -> Run]
           /\ run'[p].at = l /\ run'[p].release = run[p].release
           /\ run'[p].parent = n /\ run'[p].commit = c
           /\ \A q \in Publisher : q # p => run'[q] = run[q]
  BY DEF TypeOK, Run

LEMMA RunFields ==
    ASSUME TypeOK, NEW p \in Publisher
    PROVE  /\ run[p] \in Run
           /\ run[p].parent \in Nat /\ run[p].commit \in Nat
           /\ run[p].release \in Release \cup {Nobody}
           /\ run = [run EXCEPT ![p].at = run[p].at]
           /\ run = [run EXCEPT ![p].parent = run[p].parent]
  BY DEF TypeOK, Run

(* A step to another place that keeps what the publisher knows.             *)
LEMMA GotoKeeps ==
    ASSUME TypeOK, NEW p \in Publisher, NEW l \in
             {"idle", "starting", "looked", "writing", "written", "checked", "read",
              "committed", "verified", "tagged"},
           Goto(p, l)
    PROVE  /\ run' \in [Publisher -> Run]
           /\ run'[p].at = l /\ run'[p].release = run[p].release
           /\ run'[p].parent = run[p].parent /\ run'[p].commit = run[p].commit
           /\ \A q \in Publisher : q # p => run'[q] = run[q]
  BY DEF TypeOK, Run, Goto

LEMMA StartFields ==
    ASSUME TypeOK, NEW p \in Publisher, NEW r \in Release, NEW l \in {"starting", "written"},
           run' = [run EXCEPT ![p] = [Idle EXCEPT !.at = l, !.release = r]]
    PROVE  /\ run' \in [Publisher -> Run]
           /\ run'[p].at = l /\ run'[p].release = r
           /\ \A q \in Publisher : q # p => run'[q] = run[q]
  BY DEF TypeOK, Run, Idle, None

LEMMA IdleFields ==
    ASSUME TypeOK, NEW p \in Publisher, run' = [run EXCEPT ![p] = Idle]
    PROVE  /\ run' \in [Publisher -> Run]
           /\ run'[p].at = "idle"
           /\ \A q \in Publisher : q # p => run'[q] = run[q]
  BY DEF TypeOK, Run, Idle, None

(* A publisher that does not move keeps what it relies on, as long as the   *)
(* hub grows, its manifest stays and its tag stays.                         *)
LEMMA GoodStays ==
    ASSUME NEW q \in Publisher, TypeOK, Good(run[q]), run'[q] = run[q],
           \A i \in 1 .. Main : i \in 1 .. Main' /\ hub'[i] = hub[i],
           run[q].at \in {"writing", "checked", "read"} =>
             manifest'[run[q].release] = manifest[run[q].release],
           run[q].at = "tagged" => tags'[run[q].release] = tags[run[q].release]
    PROVE  Good(run[q])'
  BY DEF Good

(* An appended commit leaves the others in place.                           *)
LEMMA HubGrows ==
    ASSUME TypeOK, NEW c \in Commit, hub' = Append(hub, c)
    PROVE  /\ Main' = Main + 1 /\ hub' \in Seq(Commit)
           /\ hub'[Main + 1] = c
           /\ \A i \in 1 .. Main : i \in 1 .. Main' /\ hub'[i] = hub[i]
           /\ DOMAIN hub = 1 .. Main /\ DOMAIN hub' = 1 .. (Main + 1)
  BY DEF TypeOK, Main

LEMMA HubDomain ==
    ASSUME TypeOK
    PROVE  Main \in Nat /\ DOMAIN hub = 1 .. Main /\ \A i \in 1 .. Main : hub[i] \in Commit
  BY DEF TypeOK, Main

(* A release whose manifest is missing, half written or at main has not     *)
(* been committed.                                                          *)
LEMMA NotYetPublished ==
    ASSUME IInv, NEW r \in Release, manifest[r] \in {None, Torn, Main}
    PROVE  ~Published(r)
<1>1. ASSUME NEW i \in 1 .. Main, hub[i].release = r PROVE FALSE
  <2>1. manifest[r] = i - 1 /\ i # 1
    BY <1>1, HubDomain DEF IInv, ManifestExplainsCommit, HubInv
  <2> QED
    BY <2>1, HubDomain DEF None, Torn
<1> QED
  BY <1>1, HubDomain DEF Published, IInv

-----------------------------------------------------------------------------
(* The inductive invariant                                                  *)

(* Steps that move one publisher and nothing else.                          *)
LEMMA QuietStep ==
    ASSUME IInv, NEW p \in Publisher,
           run' \in [Publisher -> Run],
           \A q \in Publisher : q # p => run'[q] = run[q],
           run'[p].at # "writing", Good(run'[p]),
           UNCHANGED <<hub, public, tags, sound, manifest, receipt>>,
           local' \in SUBSET OneShot
    PROVE  IInv'
<1>1. TypeOK'
  BY DEF IInv, TypeOK
<1>2. HubInv' /\ ManifestExplainsCommit' /\ CommitsAreSound' /\ ReceiptsAreEarned'
  BY DEF IInv, HubInv, ManifestExplainsCommit, CommitsAreSound, ReceiptsAreEarned, Main
<1>3. \A q \in Publisher : Good(run[q])'
  <2>1. Good(run[p])'
    BY DEF Good, Main
  <2>2. ASSUME NEW q \in Publisher, q # p PROVE Good(run[q])'
    BY <2>2, GoodStays DEF IInv, Main
  <2> QED
    BY <2>1, <2>2
<1>4. OneWriter'
  BY DEF IInv, OneWriter, At, ReleaseOf
<1> QED
  BY <1>1, <1>2, <1>3, <1>4 DEF IInv

LEMMA BeginKeeps ==
    ASSUME IInv, NEW p \in Publisher, Begin(p)
    PROVE  IInv'
<1>1. PICK r \in Release : CreateLocal(p, r) \/ LoadReady(p, r) \/ GivenManifest(p, r)
  BY DEF Begin
<1>2. PICK l \in {"starting", "written"} :
        run' = [run EXCEPT ![p] = [Idle EXCEPT !.at = l, !.release = r]]
  BY <1>1 DEF CreateLocal, LoadReady, GivenManifest
<1>3. /\ run' \in [Publisher -> Run]
      /\ run'[p].at = l /\ run'[p].release = r
      /\ \A q \in Publisher : q # p => run'[q] = run[q]
  BY <1>2, StartFields DEF IInv
<1>4. Good(run'[p])
  BY <1>3 DEF Good
<1>5. UNCHANGED <<hub, public, tags, sound, manifest, receipt>> /\ local' \in SUBSET OneShot
  BY <1>1 DEF CreateLocal, LoadReady, GivenManifest, IInv, TypeOK, hubState, files
<1> QED
  BY <1>3, <1>4, <1>5, QuietStep

LEMMA LookKeeps ==
    ASSUME IInv, NEW p \in Publisher,
           LookAtHub(p) \/ ReuseManifest(p) \/ CheckParent(p) \/ ReadFiles(p)
             \/ VerifyCommit(p) \/ Stop(p)
    PROVE  IInv'
<1>1. UNCHANGED <<hub, public, tags, sound, manifest, receipt>> /\ local' \in SUBSET OneShot
  BY DEF LookAtHub, ReuseManifest, CheckParent, ReadFiles, VerifyCommit, Stop, IInv, TypeOK,
         hubState, files
<1>2. Good(run[p]) /\ TypeOK
  BY DEF IInv
<1>3. /\ run' \in [Publisher -> Run] /\ run'[p].at # "writing"
      /\ \A q \in Publisher : q # p => run'[q] = run[q]
      /\ Good(run'[p])
  <2>1. CASE LookAtHub(p)
    <3>1. Main \in 1 .. MaxHub
      BY DEF IInv, HubInv
    <3>2. /\ run' \in [Publisher -> Run]
          /\ run'[p].at = "looked" /\ run'[p].parent = Main
          /\ run'[p].release = run[p].release
          /\ \A q \in Publisher : q # p => run'[q] = run[q]
      <4>1. Main \in Nat /\ run' = [run EXCEPT ![p].at = "looked", ![p].parent = Main]
        BY <2>1, <1>2, HubDomain DEF LookAtHub
      <4> HIDE DEF Main
      <4> QED
        BY <4>1, <1>2 DEF TypeOK, Run
    <3> QED
      BY <2>1, <1>2, <3>1, <3>2 DEF LookAtHub, Good, At
  <2>2. CASE ReuseManifest(p)
    BY <2>2, <1>2, GotoKeeps DEF ReuseManifest, Good, At
  <2>3. CASE CheckParent(p)
    <3>1. Main \in 1 .. MaxHub
      BY DEF IInv, HubInv
    <3>2. /\ run' \in [Publisher -> Run]
          /\ run'[p].at = "checked" /\ run'[p].parent = manifest[run[p].release]
          /\ run'[p].release = run[p].release
          /\ \A q \in Publisher : q # p => run'[q] = run[q]
      <4> DEFINE n == manifest[run[p].release]
      <4>1. n \in Nat /\ run' = [run EXCEPT ![p].at = "checked", ![p].parent = n]
        BY <2>3, <1>2, HubDomain DEF CheckParent, ReleaseOf
      <4> HIDE DEF n
      <4>2. /\ run' \in [Publisher -> Run]
            /\ run'[p].at = "checked" /\ run'[p].parent = n
            /\ run'[p].release = run[p].release
            /\ \A q \in Publisher : q # p => run'[q] = run[q]
        BY <4>1, <1>2 DEF TypeOK, Run
      <4> QED
        BY <4>2 DEF n
    <3> QED
      BY <2>3, <1>2, <3>1, <3>2 DEF CheckParent, Good, At, ReleaseOf
  <2>4. CASE ReadFiles(p)
    <3>1. /\ run' \in [Publisher -> Run]
          /\ run'[p].at = "read" /\ run'[p].parent = run[p].parent
          /\ run'[p].commit = 1 /\ run'[p].release = run[p].release
          /\ \A q \in Publisher : q # p => run'[q] = run[q]
      BY <2>4, <1>2 DEF ReadFiles, TypeOK, Run
    <3> QED
      BY <2>4, <1>2, <3>1 DEF ReadFiles, Good, At
  <2>5. CASE VerifyCommit(p)
    BY <2>5, <1>2, GotoKeeps DEF VerifyCommit, Good, At
  <2>6. CASE Stop(p)
    BY <2>6, <1>2, IdleFields DEF Stop, Good
  <2> QED
    BY <2>1, <2>2, <2>3, <2>4, <2>5, <2>6
<1> QED
  BY <1>1, <1>3, QuietStep

(* Creating the manifest: nobody relied on it, since it was not there.      *)
LEMMA CreateManifestKeeps ==
    ASSUME IInv, NEW p \in Publisher, CreateManifest(p)
    PROVE  IInv'
<1> DEFINE r == ReleaseOf(p)
<1>1. TypeOK /\ Good(run[p]) /\ r \in Release /\ manifest[r] = None /\ At(p, "looked")
  BY DEF CreateManifest, IInv, Good, At, ReleaseOf
<1>2. /\ run' \in [Publisher -> Run]
      /\ run'[p].at = "writing" /\ run'[p].release = r
      /\ run'[p].parent = run[p].parent
      /\ \A q \in Publisher : q # p => run'[q] = run[q]
  BY <1>1, GotoKeeps DEF CreateManifest, ReleaseOf
<1>3. /\ manifest'[r] = Torn /\ \A s \in Release : s # r => manifest'[s] = manifest[s]
      /\ manifest' \in [Release -> Nat \cup {Torn}]
      /\ UNCHANGED <<hub, public, tags, sound, local, receipt>>
  BY <1>1 DEF CreateManifest, TypeOK, hubState
<1>4. TypeOK'
  BY <1>2, <1>3 DEF IInv, TypeOK
<1>5. HubInv' /\ CommitsAreSound' /\ ReceiptsAreEarned'
  BY <1>3 DEF IInv, HubInv, CommitsAreSound, ReceiptsAreEarned, Main
<1>6. ManifestExplainsCommit'
  <2>1. ~Published(r)
    BY <1>1, NotYetPublished
  <2> QED
    BY <1>3, <2>1 DEF IInv, ManifestExplainsCommit, Published
<1>7. ASSUME NEW q \in Publisher, q # p,
             run[q].at \in {"writing", "checked", "read"}
      PROVE  run[q].release \in Release /\ run[q].release # r
  <2>1. Good(run[q]) /\ run[q].parent \in Nat /\ manifest[run[q].release] # None
    BY <1>1, <1>7, RunFields DEF IInv, Good, None, Torn
  <2> QED
    BY <1>1, <1>7, <2>1 DEF Good
<1>8. \A q \in Publisher : Good(run[q])'
  <2>1. Good(run[p])'
    BY <1>1, <1>2, <1>3 DEF Good, Main, At
  <2>2. ASSUME NEW q \in Publisher, q # p PROVE Good(run[q])'
    <3>1. run[q].at \in {"writing", "checked", "read"} =>
            manifest'[run[q].release] = manifest[run[q].release]
      BY <1>3, <1>7, <2>2
    <3> QED
      BY <1>1, <1>2, <1>3, <2>2, <3>1, GoodStays DEF IInv, Main
  <2> QED
    BY <2>1, <2>2
<1>9. OneWriter'
  <2>1. ASSUME NEW q \in Publisher, q # p, run'[q].at = "writing"
        PROVE  run'[q].release # r
    BY <1>2, <1>7, <2>1
  <2>2. ASSUME NEW q \in Publisher, NEW q2 \in Publisher,
               run'[q].at = "writing", run'[q2].at = "writing",
               run'[q].release = run'[q2].release
        PROVE  q = q2
    BY <1>2, <2>1, <2>2 DEF IInv, OneWriter, At, ReleaseOf
  <2> QED
    BY <2>2 DEF OneWriter, At, ReleaseOf
<1> QED
  BY <1>4, <1>5, <1>6, <1>8, <1>9 DEF IInv

(* Filling it: this is the only writer, and the release has no commit yet.  *)
LEMMA FillManifestKeeps ==
    ASSUME IInv, NEW p \in Publisher, FillManifest(p)
    PROVE  IInv'
<1> DEFINE r == ReleaseOf(p)
<1>1. /\ TypeOK /\ Good(run[p]) /\ r \in Release /\ manifest[r] = Torn
      /\ At(p, "writing") /\ run[p].parent \in Nat
  BY RunFields DEF FillManifest, IInv, Good, At, ReleaseOf
<1>2. /\ run' \in [Publisher -> Run]
      /\ run'[p].at = "written" /\ run'[p].release = r
      /\ \A q \in Publisher : q # p => run'[q] = run[q]
  BY <1>1, GotoKeeps DEF FillManifest, ReleaseOf
<1>3. /\ \A s \in Release : s # r => manifest'[s] = manifest[s]
      /\ manifest' \in [Release -> Nat \cup {Torn}]
      /\ UNCHANGED <<hub, public, tags, sound, local, receipt>>
  BY <1>1 DEF FillManifest, TypeOK, hubState
<1>4. TypeOK'
  BY <1>2, <1>3 DEF IInv, TypeOK
<1>5. HubInv' /\ CommitsAreSound' /\ ReceiptsAreEarned'
  BY <1>3 DEF IInv, HubInv, CommitsAreSound, ReceiptsAreEarned, Main
<1>6. ManifestExplainsCommit'
  <2>1. ~Published(r)
    BY <1>1, NotYetPublished
  <2> QED
    BY <1>3, <2>1 DEF IInv, ManifestExplainsCommit, Published
<1>7. ASSUME NEW q \in Publisher, q # p,
             run[q].at \in {"writing", "checked", "read"}
      PROVE  run[q].release \in Release /\ run[q].release # r
  <2>1. Good(run[q]) /\ run[q].parent \in Nat
    BY RunFields DEF IInv
  <2>2. run[q].at \in {"checked", "read"} => manifest[run[q].release] # Torn
    BY <2>1 DEF Good, Torn
  <2>3. run[q].at = "writing" => run[q].release # r
    BY <1>1, <1>7 DEF IInv, OneWriter, At, ReleaseOf
  <2> QED
    BY <1>1, <1>7, <2>1, <2>2, <2>3 DEF Good
<1>8. \A q \in Publisher : Good(run[q])'
  <2>1. Good(run[p])'
    BY <1>1, <1>2 DEF Good
  <2>2. ASSUME NEW q \in Publisher, q # p PROVE Good(run[q])'
    <3>1. run[q].at \in {"writing", "checked", "read"} =>
            manifest'[run[q].release] = manifest[run[q].release]
      BY <1>3, <1>7, <2>2
    <3> QED
      BY <1>1, <1>2, <1>3, <2>2, <3>1, GoodStays DEF IInv, Main
  <2> QED
    BY <2>1, <2>2
<1>9. OneWriter'
  BY <1>2 DEF IInv, OneWriter, At, ReleaseOf
<1> QED
  BY <1>4, <1>5, <1>6, <1>8, <1>9 DEF IInv

(* Freezing: as creating, and nobody is writing.                            *)
LEMMA FreezeKeeps ==
    ASSUME IInv, NEW r \in Release, Freeze(r)
    PROVE  IInv'
<1>1. TypeOK /\ manifest[r] = None /\ Main \in Nat
  BY HubDomain DEF Freeze, IInv
<1>2. /\ \A s \in Release : s # r => manifest'[s] = manifest[s]
      /\ manifest' \in [Release -> Nat \cup {Torn}]
      /\ UNCHANGED <<hub, public, tags, sound, local, receipt, run>>
  BY <1>1 DEF Freeze, TypeOK, hubState
<1>3. TypeOK'
  BY <1>2 DEF IInv, TypeOK
<1>4. HubInv' /\ CommitsAreSound' /\ ReceiptsAreEarned' /\ OneWriter'
  BY <1>2 DEF IInv, HubInv, CommitsAreSound, ReceiptsAreEarned, Main, OneWriter, At, ReleaseOf
<1>5. ManifestExplainsCommit'
  <2>1. ~Published(r)
    BY <1>1, NotYetPublished
  <2> QED
    BY <1>2, <2>1 DEF IInv, ManifestExplainsCommit, Published
<1>6. ASSUME NEW q \in Publisher PROVE Good(run[q])'
  <2>1. Good(run[q]) /\ run[q].parent \in Nat
    BY RunFields DEF IInv
  <2>2. run[q].at \in {"writing", "checked", "read"} =>
          run[q].release \in Release /\ manifest[run[q].release] # None
    BY <2>1 DEF Good, None, Torn
  <2>3. run[q].at \in {"writing", "checked", "read"} =>
          manifest'[run[q].release] = manifest[run[q].release]
    BY <1>1, <1>2, <2>2
  <2> QED
    BY <1>1, <1>2, <2>1, <2>3, GoodStays DEF Main
<1> QED
  BY <1>3, <1>4, <1>5, <1>6 DEF IInv

(* A commit that is sound, and of a release only where its manifest says.   *)
LEMMA AppendKeeps ==
    ASSUME IInv, NEW c \in Commit, hub' = Append(hub, c), Main < MaxHub, c.sound,
           c.release \in Release => manifest[c.release] = Main,
           UNCHANGED <<tags, manifest, receipt>>
    PROVE  HubInv' /\ ManifestExplainsCommit' /\ CommitsAreSound' /\ ReceiptsAreEarned'
<1>1. /\ Main' = Main + 1 /\ Main \in Nat /\ hub'[Main + 1] = c
      /\ \A i \in 1 .. Main : i \in 1 .. Main' /\ hub'[i] = hub[i]
      /\ DOMAIN hub = 1 .. Main /\ DOMAIN hub' = 1 .. (Main + 1)
  BY HubGrows, HubDomain DEF IInv
<1> HIDE DEF Main
<1>2. HubInv'
  BY <1>1 DEF IInv, HubInv
<1>3. ManifestExplainsCommit'
  <2>1. ASSUME NEW i \in 1 .. (Main + 1), hub'[i].release \in Release
        PROVE  manifest[hub'[i].release] = i - 1
    <3>1. CASE i \in 1 .. Main
      BY <1>1, <2>1, <3>1 DEF IInv, ManifestExplainsCommit
    <3>2. CASE i = Main + 1
      BY <1>1, <2>1, <3>2
    <3> QED
      BY <1>1, <3>1, <3>2
  <2> QED
    BY <1>1, <2>1 DEF ManifestExplainsCommit
<1>4. CommitsAreSound'
  <2>1. ASSUME NEW i \in 1 .. (Main + 1) PROVE hub'[i].sound
    <3>1. CASE i \in 1 .. Main
      BY <1>1, <2>1, <3>1 DEF IInv, CommitsAreSound
    <3>2. CASE i = Main + 1
      BY <1>1, <3>2
    <3> QED
      BY <1>1, <3>1, <3>2
  <2> QED
    BY <1>1, <2>1 DEF CommitsAreSound
<1>5. ReceiptsAreEarned'
  BY <1>1 DEF IInv, ReceiptsAreEarned
<1> QED
  BY <1>2, <1>3, <1>4, <1>5

LEMMA CommitKeeps ==
    ASSUME IInv, NEW p \in Publisher, CreateCommit(p)
    PROVE  IInv'
<1> DEFINE r == ReleaseOf(p)
           c == [release |-> r, sound |-> run[p].commit = 1]
<1>1. /\ TypeOK /\ Good(run[p]) /\ r \in Release /\ manifest[r] = Main /\ run[p].commit = 1
      /\ At(p, "read") /\ Main \in Nat /\ Main < MaxHub
  BY HubDomain DEF CreateCommit, IInv, Good, At, ReleaseOf
<1>2. hub' = Append(hub, c) /\ UNCHANGED <<public, tags, sound, local, manifest, receipt>>
  BY DEF CreateCommit, files
<1>3. c \in Commit /\ c.sound /\ c.release = r
  BY <1>1 DEF Commit
<1> HIDE DEF c
<1>4. /\ Main' = Main + 1 /\ hub' \in Seq(Commit) /\ hub'[Main + 1] = c
      /\ \A i \in 1 .. Main : i \in 1 .. Main' /\ hub'[i] = hub[i]
  BY <1>1, <1>2, <1>3, HubGrows
<1>5. /\ run' \in [Publisher -> Run]
      /\ run'[p].at = "committed" /\ run'[p].release = r /\ run'[p].commit = Main + 1
      /\ \A q \in Publisher : q # p => run'[q] = run[q]
  <2> DEFINE n == Main + 1
  <2>1. n \in Nat /\ run' = [run EXCEPT ![p].at = "committed", ![p].commit = n]
    BY <1>1 DEF CreateCommit
  <2> HIDE DEF n
  <2>2. /\ run' \in [Publisher -> Run]
        /\ run'[p].at = "committed" /\ run'[p].release = run[p].release
        /\ run'[p].commit = n
        /\ \A q \in Publisher : q # p => run'[q] = run[q]
    BY <1>1, <2>1 DEF TypeOK, Run
  <2> QED
    BY <2>2 DEF n, ReleaseOf
<1>6. TypeOK'
  BY <1>2, <1>4, <1>5 DEF IInv, TypeOK
<1>7. HubInv' /\ ManifestExplainsCommit' /\ CommitsAreSound' /\ ReceiptsAreEarned'
  BY <1>1, <1>2, <1>3, AppendKeeps
<1>8. OneWriter'
  BY <1>5 DEF IInv, OneWriter, At, ReleaseOf
<1>9. \A q \in Publisher : Good(run[q])'
  <2>1. Good(run[p])'
    <3>1. Main' = Main + 1 /\ Main + 1 \in 1 .. Main' /\ hub'[Main + 1].release = r
      BY <1>1, <1>3, <1>4
    <3> HIDE DEF Main
    <3> QED
      BY <1>1, <1>5, <3>1 DEF Good
  <2>2. ASSUME NEW q \in Publisher, q # p PROVE Good(run[q])'
    BY <1>1, <1>2, <1>4, <1>5, <2>2, GoodStays DEF IInv
  <2> QED
    BY <2>1, <2>2
<1> QED
  BY <1>6, <1>7, <1>8, <1>9 DEF IInv

LEMMA OthersKeep ==
    ASSUME IInv, CommitByOthers
    PROVE  IInv'
<1> DEFINE c == [release |-> Nobody, sound |-> TRUE]
<1>1. /\ TypeOK /\ Main \in Nat /\ Main < MaxHub /\ hub' = Append(hub, c)
      /\ UNCHANGED <<public, tags, sound, local, manifest, receipt, run>>
  BY HubDomain DEF CommitByOthers, IInv, files
<1>2. c \in Commit /\ c.sound /\ c.release \notin Release
  <2>1. c.sound /\ c.release = Nobody
    OBVIOUS
  <2>2. c \in Commit
    BY DEF Commit
  <2> HIDE DEF c
  <2> QED
    BY <2>1, <2>2
<1> HIDE DEF c
<1>3. /\ Main' = Main + 1 /\ hub' \in Seq(Commit)
      /\ \A i \in 1 .. Main : i \in 1 .. Main' /\ hub'[i] = hub[i]
  BY <1>1, <1>2, HubGrows
<1>4. TypeOK' /\ OneWriter'
  BY <1>1, <1>3 DEF IInv, TypeOK, OneWriter, At, ReleaseOf
<1>5. HubInv' /\ ManifestExplainsCommit' /\ CommitsAreSound' /\ ReceiptsAreEarned'
  BY <1>1, <1>2, AppendKeeps
<1>6. \A q \in Publisher : Good(run[q])'
  BY <1>1, <1>3, GoodStays DEF IInv
<1> QED
  BY <1>4, <1>5, <1>6 DEF IInv

LEMMA TagKeeps ==
    ASSUME IInv, NEW p \in Publisher, CreateTag(p)
    PROVE  IInv'
<1> DEFINE r == ReleaseOf(p)
<1>1. /\ TypeOK /\ Good(run[p]) /\ r \in Release /\ r \notin Frozen /\ tags[r] = None
      /\ At(p, "verified") /\ run[p].commit \in 1 .. Main /\ hub[run[p].commit].release = r
      /\ run[p].commit \in Nat /\ Main \in Nat /\ DOMAIN hub = 1 .. Main
  BY RunFields, HubDomain DEF CreateTag, IInv, Good, At, ReleaseOf
<1>2. /\ run' \in [Publisher -> Run]
      /\ run'[p].at = "tagged" /\ run'[p].release = r /\ run'[p].commit = run[p].commit
      /\ \A q \in Publisher : q # p => run'[q] = run[q]
  BY <1>1, GotoKeeps DEF CreateTag, ReleaseOf
<1>3. /\ tags' \in [Release -> Nat] /\ tags'[r] = run[p].commit
      /\ \A s \in Release : s # r => tags'[s] = tags[s]
      /\ UNCHANGED <<hub, public, sound, local, manifest, receipt>>
  BY <1>1 DEF CreateTag, TypeOK, files
<1>4. TypeOK' /\ OneWriter'
  BY <1>2, <1>3 DEF IInv, TypeOK, OneWriter, At, ReleaseOf
<1>5. HubInv' /\ ManifestExplainsCommit' /\ CommitsAreSound'
  BY <1>3 DEF IInv, HubInv, CommitsAreSound, ManifestExplainsCommit, Main
<1>6. ReceiptsAreEarned'
  <2>1. receipt[r] = None
    BY <1>1 DEF IInv, ReceiptsAreEarned, None
  <2> QED
    BY <1>1, <1>3, <2>1 DEF IInv, ReceiptsAreEarned
<1>7. \A q \in Publisher : Good(run[q])'
  <2>1. Good(run[p])'
    BY <1>1, <1>2, <1>3 DEF Good, Main
  <2>2. ASSUME NEW q \in Publisher, q # p PROVE Good(run[q])'
    <3>1. run[q].at = "tagged" =>
            run[q].release \in Release /\ run[q].release # r
      BY <1>1 DEF IInv, Good, None
    <3> QED
      BY <1>1, <1>2, <1>3, <2>2, <3>1, GoodStays DEF IInv, Main
  <2> QED
    BY <2>1, <2>2
<1> QED
  BY <1>4, <1>5, <1>6, <1>7 DEF IInv

LEMMA RecordKeeps ==
    ASSUME IInv, NEW p \in Publisher, WriteReceipt(p) \/ PrintReceipt(p)
    PROVE  IInv'
<1> DEFINE r == ReleaseOf(p)
<1>1. /\ TypeOK /\ Good(run[p]) /\ Record(p) /\ r \in Release /\ receipt[r] = None
      /\ run[p].commit \in 1 .. Main /\ hub[run[p].commit].release = r
      /\ r \in Frozen \/ tags[r] = run[p].commit
      /\ run[p].commit \in Nat /\ Main \in Nat /\ DOMAIN hub = 1 .. Main
  BY RunFields, HubDomain DEF WriteReceipt, PrintReceipt, Record, IInv, Good, At, ReleaseOf
<1>2. /\ run' \in [Publisher -> Run] /\ run'[p].at = "idle"
      /\ \A q \in Publisher : q # p => run'[q] = run[q]
  BY <1>1, IdleFields DEF Record
<1>3. /\ receipt' \in [Release -> Nat] /\ receipt'[r] = run[p].commit
      /\ \A s \in Release : s # r => receipt'[s] = receipt[s]
      /\ UNCHANGED <<hub, public, tags, sound, local, manifest>>
  BY <1>1 DEF Record, TypeOK, hubState
<1>4. TypeOK' /\ OneWriter'
  BY <1>2, <1>3 DEF IInv, TypeOK, OneWriter, At, ReleaseOf
<1>5. HubInv' /\ ManifestExplainsCommit' /\ CommitsAreSound'
  BY <1>3 DEF IInv, HubInv, CommitsAreSound, ManifestExplainsCommit, Main
<1>6. ReceiptsAreEarned'
  BY <1>1, <1>3 DEF IInv, ReceiptsAreEarned
<1>7. \A q \in Publisher : Good(run[q])'
  <2>1. Good(run[p])'
    BY <1>2 DEF Good
  <2>2. ASSUME NEW q \in Publisher, q # p PROVE Good(run[q])'
    BY <1>1, <1>2, <1>3, <2>2, GoodStays DEF IInv, Main
  <2> QED
    BY <2>1, <2>2
<1> QED
  BY <1>4, <1>5, <1>6, <1>7 DEF IInv

LEMMA WorldKeeps ==
    ASSUME IInv, (\E r \in Release : Spoil(r)) \/ SetVisibility \/ UNCHANGED vars
    PROVE  IInv'
<1>1. /\ UNCHANGED <<hub, tags, local, manifest, receipt, run>>
      /\ public' \in BOOLEAN /\ sound' \in SUBSET Release
  BY DEF Spoil, SetVisibility, vars, hubState, files, IInv, TypeOK
<1>2. TypeOK'
  BY <1>1 DEF IInv, TypeOK
<1>3. /\ HubInv' /\ ManifestExplainsCommit' /\ CommitsAreSound' /\ ReceiptsAreEarned'
      /\ OneWriter'
  BY <1>1 DEF IInv, HubInv, ManifestExplainsCommit, CommitsAreSound, ReceiptsAreEarned,
     Main, OneWriter, At, ReleaseOf
<1>4. \A q \in Publisher : Good(run[q])'
  BY <1>1, GoodStays DEF IInv, Main
<1> QED
  BY <1>2, <1>3, <1>4 DEF IInv

LEMMA NextKeeps ==
    ASSUME IInv, [Next]_vars
    PROVE  IInv'
<1>1. ASSUME NEW p \in Publisher, Publish(p) PROVE IInv'
  BY <1>1, BeginKeeps, LookKeeps, CreateManifestKeeps, FillManifestKeeps, CommitKeeps,
     TagKeeps, RecordKeeps DEF Publish, MakeManifest, PublishRelease, Finish
<1>2. ASSUME World PROVE IInv'
  BY <1>2, FreezeKeeps, OthersKeep, WorldKeeps DEF World
<1> QED
  BY <1>1, <1>2, WorldKeeps DEF Next

LEMMA InitHolds ==
    ASSUME Init
    PROVE  IInv
<1> DEFINE c == [release |-> Nobody, sound |-> TRUE]
<1>1. c \in Commit /\ c.sound /\ c.release = Nobody
  BY DEF Commit
<1>2. hub = <<c>>
  BY DEF Init
<1> HIDE DEF c
<1>3. hub \in Seq(Commit) /\ Main = 1 /\ hub[1] = c /\ DOMAIN hub = {1}
  BY <1>1, <1>2 DEF Main
<1>4. Idle \in Run /\ Idle.at = "idle"
  BY DEF Idle, Run, None
<1>5. TypeOK
  BY <1>3, <1>4 DEF Init, TypeOK, None
<1>6. HubInv /\ ManifestExplainsCommit /\ CommitsAreSound /\ ReceiptsAreEarned
  BY <1>1, <1>3 DEF Init, HubInv, ManifestExplainsCommit, CommitsAreSound,
     ReceiptsAreEarned, None
<1>7. (\A p \in Publisher : Good(run[p])) /\ OneWriter
  BY <1>4 DEF Init, Good, OneWriter, At
<1> QED
  BY <1>5, <1>6, <1>7 DEF IInv

-----------------------------------------------------------------------------
(* The theorems                                                             *)

(* The invariant holds however many publishers, retries and foreign commits *)
(* there are, and wherever publishers are stopped.                          *)
THEOREM Invariance == Spec => []IInv
  BY InitHolds, NextKeeps, PTL DEF Spec

(* Every variable keeps its type.                                           *)
THEOREM TypeCorrect == Spec => []TypeOK
<1>1. IInv => TypeOK
  BY DEF IInv
<1> QED
  BY <1>1, Invariance, PTL

(* A release is committed at most once, on the parent its manifest names.   *)
THEOREM CommitsAreExplained == Spec => []ManifestExplainsCommit
<1>1. IInv => ManifestExplainsCommit
  BY DEF IInv
<1> QED
  BY <1>1, Invariance, PTL

(* No receipt without the commit, and the tag where there is one.           *)
THEOREM NoUnearnedReceipt == Spec => []ReceiptsAreEarned
<1>1. IInv => ReceiptsAreEarned
  BY DEF IInv
<1> QED
  BY <1>1, Invariance, PTL

(* No release that was spoiled after its check reaches the hub.             *)
THEOREM OnlySoundCommits == Spec => []CommitsAreSound
<1>1. IInv => CommitsAreSound
  BY DEF IInv
<1> QED
  BY <1>1, Invariance, PTL

-----------------------------------------------------------------------------
(* Stranded releases, and the ledger                                        *)

(* Who has only just read the files has no release that is on the hub.      *)
LEMMA CommitIsFirst ==
    ASSUME IInv, NEW p \in Publisher, CreateCommit(p)
    PROVE  ReleaseOf(p) \in Release /\ ~Published(ReleaseOf(p))
<1>1. ReleaseOf(p) \in Release /\ manifest[ReleaseOf(p)] = Main
  BY DEF CreateCommit, IInv, Good, At, ReleaseOf
<1> QED
  BY <1>1, NotYetPublished

(* Where a publisher can be after a step, given where it was.               *)
LEMMA ReachCommitted ==
    ASSUME IInv, NEW p \in Publisher, Publish(p), ~CreateCommit(p)
    PROVE  /\ \A q \in Publisher : q # p => run'[q] = run[q]
           /\ run'[p].at \in {"committed", "verified", "tagged"} =>
                /\ run[p].at \in {"committed", "verified", "tagged"}
                /\ run'[p].release = run[p].release
           /\ hub' = hub
<1>1. TypeOK
  BY DEF IInv
<1>2. hub' = hub
  BY DEF Publish, Begin, CreateLocal, LoadReady, GivenManifest, MakeManifest, LookAtHub,
     CreateManifest, FillManifest, ReuseManifest, PublishRelease, CheckParent, ReadFiles,
     VerifyCommit, Finish, CreateTag, WriteReceipt, PrintReceipt, Record, Stop, hubState
<1>3. CASE VerifyCommit(p) \/ CreateTag(p)
  BY <1>1, <1>2, <1>3, GotoKeeps DEF VerifyCommit, CreateTag, At
<1>4. CASE WriteReceipt(p) \/ PrintReceipt(p) \/ Stop(p)
  BY <1>1, <1>2, <1>4, IdleFields DEF WriteReceipt, PrintReceipt, Record, Stop
<1>5. CASE Begin(p)
  <2>1. PICK r \in Release, l \in {"starting", "written"} :
          run' = [run EXCEPT ![p] = [Idle EXCEPT !.at = l, !.release = r]]
    BY <1>5 DEF Begin, CreateLocal, LoadReady, GivenManifest
  <2> QED
    BY <1>1, <1>2, <2>1, StartFields
<1>6. CASE CreateManifest(p) \/ FillManifest(p) \/ ReuseManifest(p)
  BY <1>1, <1>2, <1>6, GotoKeeps DEF CreateManifest, FillManifest, ReuseManifest
<1>7. CASE LookAtHub(p) \/ CheckParent(p) \/ ReadFiles(p)
  <2>1. /\ \A q \in Publisher : q # p => run'[q] = run[q]
        /\ run'[p].at \in {"looked", "checked", "read"}
    BY <1>1, <1>7 DEF LookAtHub, CheckParent, ReadFiles, TypeOK, Run
  <2> QED
    BY <1>2, <2>1
<1> QED
  BY <1>3, <1>4, <1>5, <1>6, <1>7 DEF Publish, MakeManifest, PublishRelease, Finish

LEMMA CommitMoves ==
    ASSUME IInv, NEW p \in Publisher, CreateCommit(p)
    PROVE  /\ \A q \in Publisher : q # p => run'[q] = run[q]
           /\ run'[p].release = run[p].release
  BY DEF IInv, TypeOK, Run, CreateCommit

(* The hub only grows.                                                      *)
LEMMA HubKept ==
    ASSUME IInv, [Next]_vars
    PROVE  /\ Main \in Nat /\ DOMAIN hub = 1 .. Main /\ DOMAIN hub' = 1 .. Main'
           /\ \A i \in 1 .. Main : i \in 1 .. Main' /\ hub'[i] = hub[i]
<1>1. TypeOK /\ IInv'
  BY NextKeeps DEF IInv
<1>2. Main \in Nat /\ DOMAIN hub = 1 .. Main /\ DOMAIN hub' = 1 .. Main'
  BY <1>1 DEF IInv, TypeOK, Main
<1>3. hub' = hub \/ \E c \in Commit : hub' = Append(hub, c)
  <2>1. ASSUME NEW p \in Publisher, CreateCommit(p)
        PROVE  \E c \in Commit : hub' = Append(hub, c)
    <3>1. ReleaseOf(p) \in Release
      BY <2>1, CommitIsFirst
    <3>2. [release |-> ReleaseOf(p), sound |-> run[p].commit = 1] \in Commit
      BY <3>1 DEF Commit
    <3> QED
      BY <2>1, <3>2 DEF CreateCommit
  <2>2. ASSUME CommitByOthers PROVE \E c \in Commit : hub' = Append(hub, c)
    <3>1. [release |-> Nobody, sound |-> TRUE] \in Commit
      BY DEF Commit
    <3> QED
      BY <2>2, <3>1 DEF CommitByOthers
  <2>3. ASSUME NEW p \in Publisher, Publish(p), ~CreateCommit(p) PROVE hub' = hub
    BY <2>3, ReachCommitted
  <2> QED
    BY <2>1, <2>2, <2>3 DEF Next, World, Freeze, Spoil, SetVisibility, vars, hubState
<1> QED
  BY <1>1, <1>2, <1>3, HubGrows

(* How a step can touch a tag.                                              *)
LEMMA TagStep ==
    ASSUME IInv, [Next]_vars
    PROVE  tags' = tags \/ \E p \in Publisher : CreateTag(p)
  BY DEF Next, Publish, Begin, CreateLocal, LoadReady, GivenManifest, MakeManifest, LookAtHub,
     CreateManifest, FillManifest, ReuseManifest, PublishRelease, CheckParent, ReadFiles,
     CreateCommit, VerifyCommit, Finish, WriteReceipt, PrintReceipt, Record, Stop, World,
     Freeze, Spoil, CommitByOthers, SetVisibility, hubState, vars

LEMMA StrandedStep ==
    ASSUME IInv, [Next]_vars, NEW r \in Release, Stranded(r)
    PROVE  Stranded(r)'
<1> DEFINE Late == {"committed", "verified", "tagged"}
<1>1. Published(r)'
  BY HubKept DEF Stranded, Published
<1>2. tags'[r] = None
  <2>1. ASSUME NEW p \in Publisher, CreateTag(p) PROVE tags'[r] = None
    <3>1. ReleaseOf(p) # r
      BY <2>1 DEF CreateTag, Stranded, At
    <3> QED
      BY <2>1, <3>1 DEF CreateTag, Stranded, IInv, TypeOK
  <2> QED
    BY <2>1, TagStep DEF Stranded
<1>3. \A q \in Publisher : run'[q].release = r => run'[q].at \notin Late
  <2>1. ASSUME NEW p \in Publisher, CreateCommit(p)
        PROVE  \A q \in Publisher : run'[q].release = r => run'[q].at \notin Late
    <3>1. ReleaseOf(p) # r
      BY <2>1, CommitIsFirst DEF Stranded
    <3> QED
      BY <2>1, <3>1, CommitMoves DEF Stranded, ReleaseOf
  <2>2. ASSUME NEW p \in Publisher, Publish(p), ~CreateCommit(p)
        PROVE  \A q \in Publisher : run'[q].release = r => run'[q].at \notin Late
    BY <2>2, ReachCommitted DEF Stranded, ReleaseOf
  <2>3. run' = run \/ \E p \in Publisher : Publish(p)
    BY DEF Next, World, Freeze, Spoil, CommitByOthers, SetVisibility, vars, files
  <2> QED
    BY <2>1, <2>2, <2>3 DEF Stranded, ReleaseOf
<1> QED
  BY <1>1, <1>2, <1>3 DEF Stranded, ReleaseOf

(* A release that lost its publisher after the commit stays untagged.       *)
THEOREM StrandedForever == Spec => StrandedStays
<1>1. IInv /\ [Next]_vars => [\A r \in Release : Stranded(r) => Stranded(r)']_vars
  BY StrandedStep
<1> QED
  BY <1>1, Invariance, PTL DEF Spec, StrandedStays

LEMMA LedgerStep ==
    ASSUME IInv, [Next]_vars
    PROVE  [Ledger!Next]_(Ledger!vars)
<1> DEFINE commits == [r \in Release |-> {i \in DOMAIN hub : hub[i].release = r}]
<1>1. ASSUME NEW p \in Publisher, CreateCommit(p) PROVE Ledger!Next
  <2> DEFINE r == ReleaseOf(p)
             c == [release |-> r, sound |-> run[p].commit = 1]
  <2>1. r \in Release /\ ~Published(r) /\ hub' = Append(hub, c) /\ Main < MaxHub
    BY <1>1, CommitIsFirst DEF CreateCommit
  <2>2. c \in Commit /\ c.release = r
    BY <2>1 DEF Commit
  <2> HIDE DEF c
  <2>3. /\ Main \in Nat /\ Main' = Main + 1 /\ hub'[Main + 1] = c
        /\ \A i \in 1 .. Main : hub'[i] = hub[i]
        /\ DOMAIN hub = 1 .. Main /\ DOMAIN hub' = 1 .. (Main + 1)
    BY <2>1, <2>2, HubGrows, HubDomain DEF IInv
  <2> HIDE DEF Main
  <2>4. commits[r] = {}
    BY <2>1 DEF Published
  <2>5. ASSUME NEW s \in Release
        PROVE  {i \in DOMAIN hub' : hub'[i].release = s}
                 = IF s = r THEN {Main + 1} ELSE commits[s]
    <3>1. CASE s = r
      BY <2>1, <2>2, <2>3, <3>1 DEF Published
    <3>2. CASE s # r
      BY <2>2, <2>3, <3>2
    <3> QED
      BY <3>1, <3>2
  <2>6. [s \in Release |-> {i \in DOMAIN hub' : hub'[i].release = s}]
          = [commits EXCEPT ![r] = {Main + 1}]
    BY <2>1, <2>5
  <2>7. Main + 1 \in 1 .. MaxHub /\ UNCHANGED <<tags, receipt>>
    BY <1>1, <2>1, <2>3 DEF CreateCommit, files
  <2>8. PICK s \in Release : s = r
    BY <2>1
  <2>9. Ledger!Publish(s)
    BY <2>4, <2>6, <2>7, <2>8 DEF Ledger!Publish
  <2> QED
    BY <2>9 DEF Ledger!Next
<1>2. ASSUME NEW p \in Publisher, CreateTag(p) PROVE Ledger!Next
  <2> DEFINE r == ReleaseOf(p)
  <2>1. /\ r \in Release /\ r \notin Frozen /\ tags[r] = 0
        /\ run[p].commit \in 1 .. Main /\ hub[run[p].commit].release = r
        /\ DOMAIN hub = 1 .. Main
    BY <1>2, HubDomain DEF CreateTag, IInv, Good, At, ReleaseOf, None
  <2>2. /\ run[p].commit \in commits[r]
        /\ tags' = [tags EXCEPT ![r] = run[p].commit] /\ UNCHANGED <<hub, receipt>>
    BY <1>2, <2>1 DEF CreateTag, files
  <2>3. Ledger!Tag(r)
    BY <2>1, <2>2 DEF Ledger!Tag
  <2> QED
    BY <2>1, <2>3 DEF Ledger!Next
<1>3. ASSUME NEW p \in Publisher, WriteReceipt(p) \/ PrintReceipt(p) PROVE Ledger!Next
  <2> DEFINE r == ReleaseOf(p)
  <2>1. /\ r \in Release
        /\ r \in Frozen \/ tags[r] = run[p].commit
        /\ run[p].commit \in 1 .. Main /\ hub[run[p].commit].release = r
        /\ DOMAIN hub = 1 .. Main
    BY <1>3, HubDomain DEF WriteReceipt, PrintReceipt, IInv, Good, At, ReleaseOf
  <2>2. /\ run[p].commit \in commits[r] /\ receipt[r] = 0
        /\ receipt' = [receipt EXCEPT ![r] = run[p].commit] /\ UNCHANGED <<hub, tags>>
    BY <1>3, <2>1 DEF WriteReceipt, PrintReceipt, Record, hubState, None
  <2>3. Ledger!Record(r)
    BY <2>1, <2>2 DEF Ledger!Record
  <2> QED
    BY <2>1, <2>3 DEF Ledger!Next
<1>4. ASSUME CommitByOthers PROVE UNCHANGED Ledger!vars
  <2> DEFINE c == [release |-> Nobody, sound |-> TRUE]
  <2>1. c \in Commit /\ hub' = Append(hub, c)
    BY <1>4 DEF CommitByOthers, Commit
  <2>2. c.release = Nobody
    OBVIOUS
  <2> HIDE DEF c
  <2>3. /\ Main \in Nat /\ hub'[Main + 1] = c
        /\ \A i \in 1 .. Main : hub'[i] = hub[i]
        /\ DOMAIN hub = 1 .. Main /\ DOMAIN hub' = 1 .. (Main + 1)
    BY <2>1, HubGrows, HubDomain DEF IInv
  <2> HIDE DEF Main
  <2>4. ASSUME NEW s \in Release
        PROVE  {i \in DOMAIN hub' : hub'[i].release = s} = {i \in DOMAIN hub : hub[i].release = s}
    BY <2>2, <2>3
  <2> QED
    BY <1>4, <2>4 DEF CommitByOthers, files, Ledger!vars
<1>5. ASSUME UNCHANGED <<hub, tags, receipt>> PROVE UNCHANGED Ledger!vars
  BY <1>5 DEF Ledger!vars
<1>6. ASSUME NEW p \in Publisher,
             \/ Begin(p) \/ MakeManifest(p) \/ CheckParent(p) \/ ReadFiles(p)
             \/ VerifyCommit(p) \/ Stop(p)
      PROVE  UNCHANGED <<hub, tags, receipt>>
  BY <1>6 DEF Begin, CreateLocal, LoadReady, GivenManifest, MakeManifest, LookAtHub,
     CreateManifest, FillManifest, ReuseManifest, CheckParent, ReadFiles, VerifyCommit,
     Stop, hubState, files
<1>7. ASSUME (\E r \in Release : Freeze(r) \/ Spoil(r)) \/ SetVisibility \/ UNCHANGED vars
      PROVE  UNCHANGED <<hub, tags, receipt>>
  BY <1>7 DEF Freeze, Spoil, SetVisibility, hubState, files, vars
<1> QED
  BY <1>1, <1>2, <1>3, <1>4, <1>5, <1>6, <1>7
     DEF Next, Publish, PublishRelease, Finish, World

(* Publication implements ReleaseLedger.                                    *)
THEOREM Refinement == Spec => ImplementsLedger
<1>1. Init => Ledger!Init
  BY DEF Init, Ledger!Init, None
<1>2. IInv /\ [Next]_vars => [Ledger!Next]_(Ledger!vars)
  BY LedgerStep
<1> QED
  BY <1>1, <1>2, Invariance, PTL DEF Spec, ImplementsLedger, Ledger!Spec
=============================================================================
