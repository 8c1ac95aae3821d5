-------------------------- MODULE RemoteWorkerProofs --------------------------
(***************************************************************************)
(* For any callers, documents and children: evidence is frozen while a job  *)
(* counts as succeeded, a job id stays bound to its document, and the       *)
(* worker implements JobService.                                            *)
(***************************************************************************)
EXTENDS RemoteWorker, TLAPS

-----------------------------------------------------------------------------
(* Types                                                                    *)

LEMMA ChildType ==
    ASSUME TypeOK, NEW k \in Child
    PROVE  /\ child[k] \in ChildState
           /\ k \in Nat /\ k # 0
           /\ child[k].backend \in Backend
           /\ child[k].seenBackend \in Backend
           /\ child[k].started \in Age
  BY BoundsAssumption DEF TypeOK, ChildState, Child

LEMMA CallerType ==
    ASSUME TypeOK, NEW c \in Caller
    PROVE  /\ caller[c] \in CallerState
           /\ caller[c].at \in CallerAt
           /\ caller[c].doc \in Doc \cup {NoDoc}
           /\ caller[c].child \in Child \cup {0}
           /\ caller[c].seen \in StatusFile
  BY DEF TypeOK, CallerState

LEMMA NullTypes ==
    /\ NoFile \in StatusFile
    /\ Pending \in StatusFile
    /\ Pending.status = "pending" /\ Pending.pid = 0
    /\ NoFile.status = "missing" /\ NoFile.pid = 0 /\ NoFile.started = "none"
    /\ {"none", "young"} \subseteq Age
    /\ NoChild \in ChildState /\ NoChild.at = "none"
    /\ Idle \in CallerState /\ Idle.at = "idle"
<1>1. NoFile \in StatusFile /\ NoFile.status = "missing" /\ NoFile.pid = 0
      /\ NoFile.started = "none"
  BY DEF NoFile, StatusFile, Backend, Age
<1>2. Pending \in StatusFile /\ Pending.status = "pending" /\ Pending.pid = 0
  BY DEF Pending, NoFile, StatusFile, Backend, JobStatus, Age
<1>3. NoChild \in ChildState /\ NoChild.at = "none"
  BY DEF NoChild, ChildState, Backend, Age
<1>4. Idle \in CallerState /\ Idle.at = "idle"
  BY <1>1 DEF Idle, CallerState, CallerAt
<1> QED
  BY <1>1, <1>2, <1>3, <1>4 DEF Age

(* The fields of a status file.                                             *)
LEMMA FileFields ==
    ASSUME NEW f \in StatusFile
    PROVE  /\ f.status \in JobStatus \cup {"missing"}
           /\ f.backend \in Backend
           /\ f.pid \in Child \cup {0}
           /\ f.started \in Age
           /\ f.evidence \in Nat
  BY DEF StatusFile

LEMMA CommonType ==
    ASSUME TypeOK, NEW k \in Child
    PROVE  /\ Common(k) \in StatusFile
           /\ Common(k).status = "running" /\ Common(k).pid = k
  BY ChildType DEF Common, StatusFile, JobStatus

-----------------------------------------------------------------------------
(* A call goes on, and perhaps writes a status that is not a success        *)

(* What the memory of a call may say of the job and its children.           *)
GoodLocal(local) ==
    /\ local \in CallerState
    /\ local.at \notin {"making", "described"}
    /\ local.at # "idle" => file # NoFile
    /\ local.at \in {"marked", "queued", "spawned", "recording", "asking",
                     "condemning"} => local.seen.status = "running"
    /\ local.at \in {"queued", "spawned", "recording"} =>
         local.child # 0 /\ child[local.child].at # "none"
    /\ local.at \in {"asking", "condemning"} =>
         local.seen.pid # 0 /\ child[local.seen.pid].at # "none"

(* A status that a launcher or a status call may write.                     *)
GoodWrite(f) ==
    /\ f \in StatusFile
    /\ f.status \in {"running", "failed"}
    /\ f.pid # 0 => child[f.pid].at # "none"
    /\ f.status = "failed" => f.pid # 0

LEMMA CallInv1 ==
    ASSUME CallInv, NEW c \in Caller, ~At(c, "making"), ~At(c, "described"), TypeOK
    PROVE  GoodLocal(caller[c])
  BY CallerType DEF CallInv, GoodLocal, At

LEMMA IdleIsGood == GoodLocal(Idle)
  BY NullTypes DEF GoodLocal

LEMMA CallerMoves ==
    ASSUME IInv, NEW c \in Caller, NEW local, GoodLocal(local), NEW a \in Answer,
           caller' = [caller EXCEPT ![c] = local],
           answer' = [answer EXCEPT ![c] = a],
           launches' \in Nat,
           \/ file' = file
           \/ file # NoFile /\ GoodWrite(file'),
           UNCHANGED <<made, spec, evidence, writer, lock, child>>
    PROVE  IInv'
<1>1. TypeOK'
  BY DEF IInv, TypeOK, GoodLocal, GoodWrite
<1>2. LockInv'
  BY DEF IInv, LockInv, Holding
<1>3. /\ caller'[c] = local
      /\ \A b \in Caller : b # c => caller'[b] = caller[b]
  BY DEF IInv, TypeOK
<1>4. file # NoFile => file' # NoFile
  BY NullTypes DEF GoodWrite
<1>5. InstallInv'
  <2>1. file' = NoFile <=> file'.status = "missing"
    BY NullTypes DEF IInv, InstallInv, GoodWrite
  <2>2. file' # NoFile => file # NoFile
    OBVIOUS
  <2>3. \A b \in Caller : At(b, "described")' => At(b, "described") /\ file' = NoFile
    BY <1>3 DEF IInv, InstallInv, At, GoodLocal
  <2>4. \A b \in Caller : At(b, "making")' => At(b, "making") /\ caller'[b] = caller[b]
    BY <1>3 DEF At, GoodLocal
  <2> QED
    BY <2>1, <2>2, <2>3, <2>4 DEF IInv, InstallInv
<1>6. CallInv'
  <2>1. ASSUME NEW b \in Caller, b # c PROVE caller'[b] = caller[b]
    BY <1>3, <2>1
  <2> QED
    BY <1>3, <1>4, <2>1 DEF IInv, CallInv, At, GoodLocal
<1>7. ChildInv'
  BY <1>4 DEF IInv, ChildInv, GoodWrite
<1>8. EvidenceFrozen'
  BY DEF IInv, EvidenceFrozen, GoodWrite
<1> QED
  BY <1>1, <1>2, <1>5, <1>6, <1>7, <1>8 DEF IInv

-----------------------------------------------------------------------------
(* A child moves                                                            *)

LEMMA BecomeFields ==
    ASSUME TypeOK, NEW k \in Child, NEW state \in ChildState, Become(k, state)
    PROVE  /\ child' \in [Child -> ChildState]
           /\ child'[k] = state
           /\ \A j \in Child : j # k => child'[j] = child[j]
  BY DEF Become, TypeOK

LEMMA ChildMoves ==
    ASSUME IInv, NEW k \in Child, child[k].at # "none",
           NEW state \in ChildState, state.at # "none", Become(k, state),
           child[k].at = "finished" => state.at = "finished",
           evidence' \in Nat, writer' \in Child \cup {0}, lock' \in Child \cup {0},
           file' = file \/ (file' \in StatusFile /\ file'.status # "missing"),
           file' # file => file'.pid = k,
           file'.status = "succeeded" => file' = file \/ state.at = "finished",
           LockInv', EvidenceFrozen',
           UNCHANGED <<made, spec, caller, answer, launches>>
    PROVE  IInv'
<1>1. /\ child' \in [Child -> ChildState]
      /\ child'[k] = state
      /\ \A j \in Child : j # k => child'[j] = child[j]
  BY BecomeFields DEF IInv
<1>2. TypeOK'
  BY <1>1 DEF IInv, TypeOK
<1>3. \A j \in Child : child[j].at # "none" <=> child'[j].at # "none"
  BY <1>1
<1>4. file # NoFile /\ file' # NoFile
  BY NullTypes DEF IInv, ChildInv
<1>5. InstallInv'
  <2>1. \A b \in Caller : ~At(b, "described") /\ ~At(b, "making")
    BY <1>4 DEF IInv, InstallInv
  <2>2. file'.status # "missing"
    BY <1>4 DEF IInv, InstallInv
  <2> QED
    BY <1>4, <2>1, <2>2 DEF IInv, InstallInv, At
<1>6. CallInv'
  <2>1. ASSUME NEW c \in Caller PROVE caller[c].child \in Child \cup {0}
                                      /\ caller[c].seen.pid \in Child \cup {0}
    BY CallerType, FileFields DEF IInv
  <2> QED
    BY <1>3, <1>4, <2>1 DEF IInv, CallInv, At
<1>7. ChildInv'
  <2>1. file.pid \in Child \cup {0}
    BY FileFields DEF IInv, TypeOK
  <2>2. \A j \in Child : child[j].at = "finished" => child'[j].at = "finished"
    BY <1>1
  <2> QED
    BY <1>1, <1>3, <1>4, <2>1, <2>2, ChildType DEF IInv, ChildInv
<1> QED
  BY <1>2, <1>5, <1>6, <1>7 DEF IInv

-----------------------------------------------------------------------------
(* The calls                                                                *)

LEMMA ReplyInv ==
    ASSUME IInv, NEW c \in Caller, NEW a \in Answer, Reply(c, a), launches' = launches,
           file' = file \/ (file # NoFile /\ GoodWrite(file')),
           UNCHANGED <<made, spec, evidence, writer, lock, child>>
    PROVE  IInv'
<1>1. launches' \in Nat
  BY DEF IInv, TypeOK
<1> QED
  BY <1>1, IdleIsGood, CallerMoves DEF Reply

LEMMA QuietReplies ==
    ASSUME IInv, NEW c \in Caller,
           \/ \E d \in Doc : InstallAgain(c, d)
           \/ LaunchRefused(c) \/ LaunchFails(c) \/ ReadEvidence(c) \/ CallerDies(c)
    PROVE  IInv'
<1>1. \E a \in Answer : Reply(c, a)
  BY DEF InstallAgain, LaunchRefused, LaunchFails, ReadEvidence, CallerDies, Answer
<1>2. /\ launches' = launches /\ file' = file
      /\ UNCHANGED <<made, spec, evidence, writer, lock, child>>
  BY DEF InstallAgain, LaunchRefused, LaunchFails, ReadEvidence, CallerDies, files
<1> QED
  BY <1>1, <1>2, ReplyInv

(* A call that goes on without writing.                                     *)
LEMMA ContinueInv ==
    ASSUME IInv, NEW c \in Caller, NEW local, GoodLocal(local), Continue(c, local),
           launches' \in Nat,
           file' = file \/ (file # NoFile /\ GoodWrite(file')),
           UNCHANGED <<made, spec, evidence, writer, lock, child>>
    PROVE  IInv'
  BY CallerMoves DEF Continue, Answer

LEMMA LaunchBeginsInv ==
    ASSUME IInv, NEW c \in Caller, LaunchBegins(c)
    PROVE  IInv'
<1> DEFINE local == [Idle EXCEPT !.at = "starting"]
<1>1. file # NoFile
  BY NullTypes DEF LaunchBegins, Launchable
<1>2. local \in CallerState /\ local.at = "starting"
  BY NullTypes DEF CallerState, CallerAt
<1>3. Continue(c, local) /\ launches' = launches + 1
      /\ UNCHANGED <<made, spec, file, evidence, writer, lock, child>>
  BY DEF LaunchBegins, files
<1>4. launches' \in Nat
  BY <1>3 DEF IInv, TypeOK
<1> HIDE DEF local
<1>5. GoodLocal(local)
  BY <1>1, <1>2 DEF GoodLocal
<1> QED
  BY <1>3, <1>4, <1>5, ContinueInv

LEMMA MarkRunningInv ==
    ASSUME IInv, NEW c \in Caller, MarkRunning(c)
    PROVE  IInv'
<1> DEFINE f == [NoFile EXCEPT !.status = "running", !.started = "young"]
           local == [caller[c] EXCEPT !.at = "marked", !.seen = f]
<1>1. /\ file # NoFile /\ launches' \in Nat
  BY DEF MarkRunning, IInv, CallInv, At, TypeOK
<1>2. f \in StatusFile /\ f.status = "running" /\ f.pid = 0
  BY <1>1, NullTypes DEF NoFile, StatusFile, JobStatus
<1>3. file' = f /\ Continue(c, local)
      /\ UNCHANGED <<made, spec, evidence, writer, lock, child>>
  BY DEF MarkRunning
<1> HIDE DEF f
<1>4. local \in CallerState /\ local.at = "marked" /\ local.seen = f
  BY <1>2, CallerType DEF IInv, CallerState, CallerAt
<1> HIDE DEF local
<1>5. GoodLocal(local) /\ GoodWrite(f)
  BY <1>1, <1>2, <1>4 DEF GoodLocal, GoodWrite
<1> QED
  BY <1>1, <1>3, <1>5, ContinueInv

(* The launch goes on after the spawn.                                      *)
LEMMA LaunchGoesOnInv ==
    ASSUME IInv, NEW c \in Caller, FindMainPid(c) \/ RereadStatus(c)
    PROVE  IInv'
<1>1. /\ launches' = launches /\ file' = file
      /\ UNCHANGED <<made, spec, evidence, writer, lock, child>>
  BY DEF FindMainPid, RereadStatus, files
<1>2. GoodLocal(caller[c])
  BY CallInv1 DEF FindMainPid, RereadStatus, At, IInv
<1>3. ASSUME NEW location \in {"spawned", "recording"},
             caller[c].at \in {"queued", "spawned"},
             Continue(c, [caller[c] EXCEPT !.at = location])
      PROVE  IInv'
  <2> DEFINE local == [caller[c] EXCEPT !.at = location]
  <2>1. /\ local \in CallerState /\ local.at = location
        /\ local.child = caller[c].child /\ local.seen = caller[c].seen
    BY CallerType DEF IInv, CallerState, CallerAt
  <2>2. Continue(c, local)
    BY <1>3
  <2> HIDE DEF local
  <2>3. GoodLocal(local)
    BY <1>2, <1>3, <2>1 DEF GoodLocal
  <2>4. launches' \in Nat
    BY <1>1 DEF IInv, TypeOK
  <2> QED
    BY <1>1, <2>2, <2>3, <2>4, ContinueInv
<1>4. CASE FindMainPid(c)
  BY <1>3, <1>4 DEF FindMainPid, At
<1>5. CASE RereadStatus(c)
  <2>1. CASE Reply(c, "launched")
    BY <1>1, <2>1, ReplyInv DEF Answer
  <2>2. CASE Continue(c, [caller[c] EXCEPT !.at = "recording"])
    BY <1>3, <1>5, <2>2 DEF RereadStatus, At
  <2> QED
    BY <1>5, <2>1, <2>2 DEF RereadStatus
<1> QED
  BY <1>4, <1>5

LEMMA RecordHandleInv ==
    ASSUME IInv, NEW c \in Caller, RecordHandle(c)
    PROVE  IInv'
<1> DEFINE f == [caller[c].seen EXCEPT !.backend = child[caller[c].child].backend,
                                       !.pid = caller[c].child]
<1>1. GoodLocal(caller[c]) /\ caller[c].at = "recording"
  BY CallInv1 DEF RecordHandle, At, IInv
<1>2. /\ caller[c].child \in Child /\ child[caller[c].child].at # "none"
      /\ file # NoFile /\ caller[c].seen.status = "running"
      /\ caller[c].seen \in StatusFile
  BY <1>1, CallerType DEF GoodLocal, IInv
<1>3. child[caller[c].child].backend \in Backend
  BY <1>2, ChildType DEF IInv
<1>4. f \in StatusFile /\ f.status = "running" /\ f.pid = caller[c].child
  BY <1>2, <1>3 DEF StatusFile
<1>5. file' = f /\ Reply(c, "launched") /\ launches' = launches
      /\ UNCHANGED <<made, spec, evidence, writer, lock, child>>
  BY DEF RecordHandle
<1> HIDE DEF f
<1>6. GoodWrite(f)
  BY <1>2, <1>4 DEF GoodWrite
<1> QED
  BY <1>2, <1>5, <1>6, ReplyInv DEF Answer

LEMMA StatusInv ==
    ASSUME IInv, NEW c \in Caller, Status(c)
    PROVE  IInv'
<1>0. launches \in Nat /\ file \in StatusFile
  BY DEF IInv, TypeOK
<1>1. CASE StatusReads(c)
  <2>1. launches' = launches /\ UNCHANGED <<made, spec, file, evidence, writer, lock, child>>
    BY <1>1 DEF StatusReads, files
  <2>2. CASE file.status # "running" \/ file.pid = 0
    <3>1. file.status \in Answer
      BY <1>0, <1>1, FileFields DEF StatusReads, Answer, IInv, InstallInv
    <3> QED
      BY <1>1, <2>1, <2>2, <3>1, ReplyInv DEF StatusReads
  <2>3. CASE ~(file.status # "running" \/ file.pid = 0)
    <3> DEFINE local == [Idle EXCEPT !.at = "asking", !.seen = file]
    <3>1. local \in CallerState /\ local.at = "asking" /\ local.seen = file
      BY <1>0, NullTypes DEF CallerState, CallerAt
    <3>2. Continue(c, local)
      BY <1>1, <2>3 DEF StatusReads
    <3> HIDE DEF local
    <3>3. GoodLocal(local)
      BY <1>1, <2>3, <3>1 DEF GoodLocal, StatusReads, IInv, ChildInv
    <3> QED
      BY <1>0, <2>1, <3>2, <3>3, ContinueInv
  <2> QED
    BY <2>2, <2>3
<1>2. CASE StatusJudges(c)
  <2>1. launches' = launches /\ UNCHANGED <<made, spec, file, evidence, writer, lock, child>>
    BY <1>2 DEF StatusJudges, files
  <2>2. CASE Reply(c, "running")
    BY <2>1, <2>2, ReplyInv DEF Answer, JobStatus
  <2>3. CASE Continue(c, [caller[c] EXCEPT !.at = "condemning"])
    <3> DEFINE local == [caller[c] EXCEPT !.at = "condemning"]
    <3>1. /\ local \in CallerState /\ local.at = "condemning"
          /\ local.seen = caller[c].seen
      BY CallerType DEF IInv, CallerState, CallerAt
    <3>2. GoodLocal(caller[c]) /\ caller[c].at = "asking"
      BY <1>2, CallInv1 DEF StatusJudges, At, IInv
    <3>3. Continue(c, local)
      BY <2>3
    <3> HIDE DEF local
    <3>4. GoodLocal(local)
      BY <3>1, <3>2 DEF GoodLocal
    <3> QED
      BY <1>0, <2>1, <3>3, <3>4, ContinueInv
  <2> QED
    BY <1>2, <2>2, <2>3 DEF StatusJudges
<1>3. CASE Condemn(c)
  <2> DEFINE f == [caller[c].seen EXCEPT !.status = "failed"]
  <2>1. GoodLocal(caller[c]) /\ caller[c].at = "condemning"
    BY <1>3, CallInv1 DEF Condemn, At, IInv
  <2>2. caller[c].seen \in StatusFile
    BY CallerType DEF IInv
  <2>3. f \in StatusFile /\ f.status = "failed" /\ f.pid = caller[c].seen.pid
    BY <2>2 DEF StatusFile, JobStatus
  <2>4. file' = f /\ Reply(c, "failed") /\ launches' = launches
        /\ UNCHANGED <<made, spec, evidence, writer, lock, child>>
    BY <1>3 DEF Condemn
  <2> HIDE DEF f
  <2>5. GoodWrite(f) /\ file # NoFile
    BY <2>1, <2>3 DEF GoodWrite, GoodLocal
  <2> QED
    BY <2>4, <2>5, ReplyInv DEF Answer, JobStatus
<1> QED
  BY <1>1, <1>2, <1>3 DEF Status

LEMMA SpawnInv ==
    ASSUME IInv, NEW c \in Caller, SpawnSystemd(c) \/ SpawnNohup(c)
    PROVE  IInv'
<1>1. PICK backend \in {"systemd", "nohup"}, location \in {"queued", "spawned"} :
        Spawn(c, backend, location)
  BY DEF SpawnSystemd, SpawnNohup
<1>2. PICK k \in Child :
        /\ child[k].at = "none"
        /\ Become(k, [NoChild EXCEPT !.at = "spawned", !.backend = backend])
        /\ Continue(c, [caller[c] EXCEPT !.at = location, !.child = k])
  BY <1>1 DEF Spawn
<1>3. /\ caller[c].at = "marked" /\ file # NoFile
      /\ caller[c].seen.status = "running"
      /\ UNCHANGED <<made, spec, file, evidence, writer, lock, launches>>
  BY DEF SpawnSystemd, SpawnNohup, files, At, IInv, CallInv
<1> DEFINE state == [NoChild EXCEPT !.at = "spawned", !.backend = backend]
           local == [caller[c] EXCEPT !.at = location, !.child = k]
<1>4. state \in ChildState /\ state.at = "spawned"
  BY NullTypes DEF ChildState, Backend
<1>5. /\ local \in CallerState /\ local.at = location /\ local.child = k
      /\ local.seen = caller[c].seen
  BY CallerType DEF IInv, CallerState, CallerAt
<1>6. Become(k, state) /\ Continue(c, local)
  BY <1>2
<1> HIDE DEF state, local
<1>7. /\ child' \in [Child -> ChildState]
      /\ child'[k] = state
      /\ \A j \in Child : j # k => child'[j] = child[j]
  BY <1>4, <1>6, BecomeFields DEF IInv
<1>8. /\ caller' \in [Caller -> CallerState] /\ caller'[c] = local
      /\ \A b \in Caller : b # c => caller'[b] = caller[b]
      /\ answer' \in [Caller -> Answer]
  BY <1>5, <1>6 DEF Continue, IInv, TypeOK, Answer
<1>9. TypeOK'
  BY <1>3, <1>7, <1>8 DEF IInv, TypeOK
<1>10. LockInv'
  BY <1>2, <1>3, <1>4, <1>7 DEF IInv, LockInv, Holding
<1>11. \A j \in Child : child[j].at # "none" => child'[j].at # "none"
  BY <1>4, <1>7
<1>12. InstallInv'
  <2>1. \A b \in Caller : caller[b].at \notin {"making", "described"}
    BY <1>3 DEF At, IInv, InstallInv
  <2>2. ASSUME NEW b \in Caller PROVE caller'[b].at \notin {"making", "described"}
    <3>1. CASE b = c
      BY <1>5, <1>8, <3>1
    <3>2. CASE b # c
      BY <1>8, <2>1, <3>2
    <3> QED
      BY <3>1, <3>2
  <2>3. /\ file' = NoFile <=> file'.status = "missing"
        /\ file' # NoFile => spec' # NoDoc
        /\ spec' # NoDoc => made'
    BY <1>3 DEF IInv, InstallInv
  <2> QED
    BY <2>2, <2>3 DEF InstallInv, At
<1>13. CallInv'
  <2>1. \A b \in Caller : caller[b].child \in Child \cup {0}
                         /\ caller[b].seen.pid \in Child \cup {0}
    BY CallerType, FileFields DEF IInv
  <2>2. k # 0
    BY ChildType DEF IInv
  <2> QED
    BY <1>3, <1>4, <1>5, <1>7, <1>8, <1>11, <2>1, <2>2 DEF IInv, CallInv, At
<1>14. ChildInv'
  <2>1. file.pid \in Child \cup {0}
    BY FileFields DEF IInv, TypeOK
  <2>2. \A j \in Child : child[j].at = "finished" => child'[j].at = "finished"
    BY <1>2, <1>7
  <2> QED
    BY <1>3, <1>7, <1>11, <2>1, <2>2 DEF IInv, ChildInv
<1>15. EvidenceFrozen'
  <2>1. writer \in Child /\ child[writer].at \in {"orphaned", "over"} =>
           child'[writer] = child[writer]
    BY <1>2, <1>7
  <2> QED
    BY <1>3, <1>4, <1>7, <2>1 DEF IInv, TypeOK, EvidenceFrozen
<1> QED
  BY <1>9, <1>10, <1>12, <1>13, <1>14, <1>15 DEF IInv

(* The first install, which is the only one that writes.                    *)
LEMMA InstallStepInv ==
    ASSUME IInv, NEW c \in Caller,
           (\E d \in Doc : MakeDirectory(c, d)) \/ WriteSpec(c) \/ WritePending(c)
    PROVE  IInv'
<1>1. file = NoFile /\ UNCHANGED <<evidence, writer, lock, child, launches>>
  BY DEF MakeDirectory, WriteSpec, WritePending, IInv, InstallInv
<1>2. PICK local, a :
        /\ local \in CallerState /\ a \in Answer
        /\ caller' = [caller EXCEPT ![c] = local]
        /\ answer' = [answer EXCEPT ![c] = a]
        /\ \/ /\ \E d \in Doc : MakeDirectory(c, d)
              /\ local.at = "making" /\ local.doc \in Doc
           \/ WriteSpec(c) /\ local.at = "described"
           \/ WritePending(c) /\ local.at = "idle"
  <2>1. ASSUME NEW d \in Doc, MakeDirectory(c, d)
        PROVE  /\ [Idle EXCEPT !.at = "making", !.doc = d] \in CallerState
               /\ [Idle EXCEPT !.at = "making", !.doc = d].at = "making"
               /\ [Idle EXCEPT !.at = "making", !.doc = d].doc \in Doc
    BY <2>1, NullTypes DEF CallerState, CallerAt
  <2>2. /\ [caller[c] EXCEPT !.at = "described"] \in CallerState
        /\ [caller[c] EXCEPT !.at = "described"].at = "described"
    BY CallerType DEF IInv, CallerState, CallerAt
  <2>3. "none" \in Answer /\ "installed" \in Answer
    BY DEF Answer
  <2>4. CASE \E d \in Doc : MakeDirectory(c, d)
    BY <2>1, <2>3, <2>4 DEF MakeDirectory, Continue
  <2>5. CASE WriteSpec(c)
    BY <2>2, <2>3, <2>5 DEF WriteSpec, Continue
  <2>6. CASE WritePending(c)
    BY <2>3, <2>6, NullTypes DEF WritePending, Reply
  <2> QED
    BY <2>4, <2>5, <2>6
<1>3. /\ caller' \in [Caller -> CallerState] /\ caller'[c] = local
      /\ \A b \in Caller : b # c => caller'[b] = caller[b]
      /\ answer' \in [Caller -> Answer]
  BY <1>2 DEF IInv, TypeOK
<1>4. TypeOK'
  <2>1. made' \in BOOLEAN
    BY DEF MakeDirectory, WriteSpec, WritePending, IInv, TypeOK
  <2>2. spec' \in Doc \cup {NoDoc}
    BY CallerType DEF MakeDirectory, WriteSpec, WritePending, IInv, TypeOK
  <2>3. file' \in StatusFile
    BY NullTypes DEF MakeDirectory, WriteSpec, WritePending, IInv, TypeOK
  <2> QED
    BY <1>1, <1>3, <2>1, <2>2, <2>3 DEF IInv, TypeOK
<1>5. LockInv'
  BY <1>1 DEF IInv, LockInv, Holding
<1>6. \A k \in Child : child[k].at = "none"
  BY <1>1 DEF IInv, ChildInv
<1>7. \A b \in Caller : At(b, "idle") \/ At(b, "making") \/ At(b, "described")
  BY <1>1 DEF IInv, CallInv
<1>8. \A b \in Caller : b # c => ~At(b, "making") /\ ~At(b, "described")
  <2>1. CASE WriteSpec(c) \/ WritePending(c)
    BY <2>1 DEF WriteSpec, WritePending, IInv, InstallInv
  <2>2. CASE \E d \in Doc : MakeDirectory(c, d)
    BY <2>2 DEF MakeDirectory, IInv, InstallInv
  <2> QED
    BY <2>1, <2>2
<1>9. \A b \in Caller : b # c => At(b, "idle")'
  BY <1>3, <1>7, <1>8 DEF At
<1>10. InstallInv'
  <2>1. CASE \E d \in Doc : MakeDirectory(c, d)
    <3>1. spec = NoDoc /\ made' = TRUE /\ spec' = spec /\ file' = file
          /\ local.at = "making" /\ local.doc \in Doc
      BY <1>2, <2>1 DEF WriteSpec, MakeDirectory, WritePending, IInv, InstallInv, At
    <3> QED
      BY <1>1, <1>3, <1>9, <3>1, NullTypes DEF IInv, InstallInv, At
  <2>2. CASE WriteSpec(c)
    <3>1. caller[c].doc \in Doc /\ made /\ made' = made /\ file' = file
          /\ spec' = caller[c].doc /\ local.at = "described"
      BY <1>2, <2>2 DEF WriteSpec, MakeDirectory, WritePending, IInv, InstallInv, At
    <3> QED
      BY <1>1, <1>3, <1>9, <3>1, NullTypes, DocAssumption DEF IInv, InstallInv, At
  <2>3. CASE WritePending(c)
    <3>1. spec # NoDoc /\ made /\ UNCHANGED <<spec, made>> /\ file' = Pending
          /\ local.at = "idle"
      BY <1>2, <2>3 DEF WriteSpec, MakeDirectory, WritePending, IInv, InstallInv, At
    <3> QED
      BY <1>3, <1>9, <3>1, NullTypes DEF InstallInv, At
  <2> QED
    BY <2>1, <2>2, <2>3
<1>11. CallInv'
  BY <1>2, <1>3, <1>9 DEF CallInv, At
<1>12. file'.status \notin {"succeeded", "failed"} /\ file'.pid = 0
  BY <1>1, NullTypes DEF MakeDirectory, WriteSpec, WritePending
<1>13. ChildInv'
  BY <1>1, <1>6, <1>12 DEF ChildInv
<1>14. EvidenceFrozen'
  BY <1>12 DEF EvidenceFrozen
<1> QED
  BY <1>4, <1>5, <1>10, <1>11, <1>13, <1>14 DEF IInv

-----------------------------------------------------------------------------
(* The children                                                             *)

(* Within the lock: one child, and no success on file while it is at work.  *)
LEMMA ChildWaits ==
    ASSUME IInv, NEW k \in Child, ChildLocks(k) \/ ChildRefused(k)
    PROVE  IInv'
<1>1. child[k].at = "spawned" /\ UNCHANGED <<made, spec, file, evidence, writer, caller,
                                             answer, launches>>
  BY DEF ChildLocks, ChildRefused, files
<1>2. \/ lock = 0 /\ lock' = k /\ Become(k, [child[k] EXCEPT !.at = "locked"])
      \/ lock' = lock /\ Become(k, [child[k] EXCEPT !.at = "dead"])
  BY DEF ChildLocks, ChildRefused
<1>3. PICK at \in {"locked", "dead"} :
        /\ Become(k, [child[k] EXCEPT !.at = at])
        /\ \/ lock = 0 /\ lock' = k /\ at = "locked"
           \/ lock' = lock /\ at = "dead"
  BY <1>2
<1> DEFINE state == [child[k] EXCEPT !.at = at]
<1>4. state \in ChildState /\ state.at = at
  BY ChildType DEF IInv, ChildState
<1>5. Become(k, state)
  BY <1>3
<1> HIDE DEF state
<1>6. /\ child'[k] = state /\ \A j \in Child : j # k => child'[j] = child[j]
  BY <1>4, <1>5, BecomeFields DEF IInv
<1>7. LockInv'
  BY <1>1, <1>3, <1>4, <1>6, ChildType DEF IInv, LockInv, Holding
<1>8. EvidenceFrozen'
  <2>1. writer \in Child /\ child[writer].at \in {"orphaned", "over"} =>
           child'[writer] = child[writer]
    BY <1>1, <1>6
  <2> QED
    BY <1>1, <1>3, <1>4, <1>6, <2>1 DEF IInv, TypeOK, EvidenceFrozen
<1>9. evidence' \in Nat /\ writer' \in Child \cup {0} /\ lock' \in Child \cup {0}
  BY <1>1, <1>3 DEF IInv, TypeOK
<1>10. /\ child[k].at # "none" /\ state.at # "none"
       /\ child[k].at = "finished" => state.at = "finished"
       /\ UNCHANGED <<made, spec, caller, answer, launches>>
  BY <1>1, <1>3, <1>4
<1>11. /\ file' = file \/ (file' \in StatusFile /\ file'.status # "missing")
       /\ file' # file => file'.pid = k
       /\ file'.status = "succeeded" => file' = file \/ state.at = "finished"
  BY <1>1
<1> QED
  BY <1>4, <1>5, <1>7, <1>8, <1>9, <1>10, <1>11, ChildMoves

(* The child that holds the lock goes on, and the file it may write says    *)
(* running.                                                                 *)
LEMMA ChildGoesOn ==
    ASSUME IInv, NEW k \in Child,
           ChildReads(k) \/ ChildEnters(k) \/ ChildReports(k) \/ ChildWorks(k)
    PROVE  IInv'
<1>1. PICK at \in {"locked", "entered", "running"} : child[k].at = at
  BY DEF ChildReads, ChildEnters, ChildReports, ChildWorks, WritesEvidence
<1>2. PICK state :
        /\ state \in ChildState
        /\ state.at \in {"entered", "running"}
        /\ Become(k, state)
  <2>1. CASE ChildReads(k)
    <3> DEFINE state == [child[k] EXCEPT
                          !.at = "entered", !.seenBackend = file.backend,
                          !.started = IF file.started = "none" THEN "young" ELSE file.started]
    <3>1. file.backend \in Backend /\ file.started \in Age /\ "young" \in Age
      BY FileFields, NullTypes DEF IInv, TypeOK
    <3>2. (IF file.started = "none" THEN "young" ELSE file.started) \in Age
      BY <3>1
    <3>3. state \in ChildState /\ state.at = "entered"
      BY <3>1, <3>2, ChildType DEF IInv, ChildState
    <3> QED
      BY <2>1, <3>3 DEF ChildReads
  <2>2. CASE ChildEnters(k)
    <3> DEFINE state == [child[k] EXCEPT !.at = "running"]
    <3>1. state \in ChildState /\ state.at = "running"
      BY ChildType DEF IInv, ChildState
    <3> QED
      BY <2>2, <3>1 DEF ChildEnters
  <2>3. CASE ChildReports(k) \/ ChildWorks(k)
    <3>1. child[k] \in ChildState /\ child[k].at = "running" /\ Become(k, child[k])
      BY <2>3 DEF ChildReports, ChildWorks, WritesEvidence, Become, IInv, TypeOK, files
    <3> QED
      BY <3>1
  <2> QED
    BY <2>1, <2>2, <2>3
<1>3. /\ lock' = lock
      /\ UNCHANGED <<made, spec, caller, answer, launches>>
      /\ evidence' \in Nat /\ writer' \in {writer, k}
      /\ \/ file' = file /\ file.status # "succeeded"
         \/ file' = Common(k)
  <2>1. child[k].at \in {"entered", "running"} => file.status # "succeeded"
    BY DEF IInv, EvidenceFrozen
  <2> QED
    BY <2>1 DEF ChildReads, ChildEnters, ChildReports, ChildWorks, WritesEvidence, files,
                IInv, TypeOK
<1>4. /\ child'[k] = state /\ \A j \in Child : j # k => child'[j] = child[j]
  BY <1>2, BecomeFields DEF IInv
<1>5. LockInv'
  BY <1>1, <1>2, <1>3, <1>4 DEF IInv, LockInv, Holding
<1>6. file'.status # "succeeded"
  BY <1>3, CommonType DEF IInv
<1>7. EvidenceFrozen'
  BY <1>6 DEF EvidenceFrozen
<1>8. evidence' \in Nat /\ writer' \in Child \cup {0} /\ lock' \in Child \cup {0}
  BY <1>3 DEF IInv, TypeOK
<1>9. /\ file' = file \/ (file' \in StatusFile /\ file'.status # "missing")
      /\ file' # file => file'.pid = k
      /\ file'.status = "succeeded" => file' = file \/ state.at = "finished"
  BY <1>3, <1>6, CommonType DEF IInv
<1>10. /\ child[k].at # "none" /\ state.at # "none"
       /\ child[k].at = "finished" => state.at = "finished"
       /\ state \in ChildState /\ Become(k, state)
       /\ UNCHANGED <<made, spec, caller, answer, launches>>
  BY <1>1, <1>2, <1>3
<1> QED
  BY <1>5, <1>7, <1>8, <1>9, <1>10, ChildMoves

LEMMA ChildEndsInv ==
    ASSUME IInv, NEW k \in Child, ChildEnds(k)
    PROVE  IInv'
<1>1. PICK at \in {"finished", "dead", "orphaned"} :
        /\ Exit(k, at)
        /\ ChildSucceeds(k) => at = "finished"
        /\ ~ChildSucceeds(k) => at # "finished"
  BY DEF ChildEnds, ChildReturns, ChildSucceeds, ChildFails, ChildDies
<1> DEFINE state == [NoChild EXCEPT !.at = at, !.backend = child[k].backend]
<1>2. state \in ChildState /\ state.at = at
  BY NullTypes, ChildType DEF IInv, ChildState
<1>3. Become(k, state) /\ lock' = IF lock = k THEN 0 ELSE lock
  BY <1>1 DEF Exit
<1> HIDE DEF state
<1>4. /\ child'[k] = state /\ \A j \in Child : j # k => child'[j] = child[j]
  BY <1>2, <1>3, BecomeFields DEF IInv
<1>5. /\ child[k].at \notin {"none", "finished", "dead", "orphaned", "over"}
      /\ UNCHANGED <<made, spec, evidence, writer, caller, answer, launches>>
  BY DEF ChildEnds, ChildReturns, ChildSucceeds, ChildFails, ChildDies, Alive, Holding,
         files
<1>6. LockInv'
  BY <1>1, <1>2, <1>3, <1>4, ChildType DEF IInv, LockInv, Holding
<1>7. evidence' \in Nat /\ writer' \in Child \cup {0} /\ lock' \in Child \cup {0}
  BY <1>3, <1>5 DEF IInv, TypeOK
<1>8. CASE ChildSucceeds(k)
  <2> DEFINE f == [Common(k) EXCEPT !.status = "succeeded", !.evidence = evidence]
  <2>1. evidence \in Nat
    BY DEF IInv, TypeOK
  <2>2. /\ f \in StatusFile /\ f.status = "succeeded" /\ f.pid = k
        /\ f.evidence = evidence
    BY <2>1, CommonType DEF IInv, StatusFile, JobStatus
  <2>3. file' = f
    BY <1>8 DEF ChildSucceeds
  <2> HIDE DEF f
  <2>4. Holding(k) /\ \A j \in Child : j # k => ~Holding(j)
    BY <1>8 DEF ChildSucceeds, IInv, LockInv, Holding
  <2>5. EvidenceFrozen'
    BY <1>2, <1>4, <1>5, <2>2, <2>3, <2>4, <1>1 DEF EvidenceFrozen, Holding
  <2> QED
    BY <1>1, <1>2, <1>3, <1>5, <1>6, <1>7, <1>8, <2>2, <2>3, <2>5, ChildMoves
<1>9. CASE ChildFails(k)
  <2> DEFINE f == [Common(k) EXCEPT !.status = "failed"]
  <2>1. f \in StatusFile /\ f.status = "failed" /\ f.pid = k
    BY CommonType DEF IInv, StatusFile, JobStatus
  <2>2. file' = f
    BY <1>9 DEF ChildFails
  <2> HIDE DEF f
  <2>3. EvidenceFrozen'
    BY <2>1, <2>2 DEF EvidenceFrozen
  <2> QED
    BY <1>1, <1>2, <1>3, <1>5, <1>6, <1>7, <2>1, <2>2, <2>3, ChildMoves
<1>10. CASE ChildReturns(k) \/ ChildDies(k)
  <2>1. file' = file
    BY <1>10 DEF ChildReturns, ChildDies, files
  <2>2. EvidenceFrozen'
    <3>1. at \notin {"entered", "running"}
      BY <1>1
    <3>2. writer \in Child /\ child[writer].at \in {"orphaned", "over"} =>
             child'[writer].at \in {"orphaned", "over"}
      BY <1>4, <1>5
    <3>3. writer \in Child \cup {0}
      BY DEF IInv, TypeOK
    <3> QED
      BY <1>2, <1>4, <1>5, <2>1, <3>1, <3>2, <3>3 DEF IInv, EvidenceFrozen
  <2>3. /\ child[k].at # "none" /\ state.at # "none"
        /\ child[k].at = "finished" => state.at = "finished"
        /\ UNCHANGED <<made, spec, caller, answer, launches>>
    BY <1>1, <1>2, <1>5
  <2>4. /\ file' = file \/ (file' \in StatusFile /\ file'.status # "missing")
        /\ file' # file => file'.pid = k
        /\ file'.status = "succeeded" => file' = file \/ state.at = "finished"
    BY <2>1
  <2> QED
    BY <1>2, <1>3, <1>6, <1>7, <2>2, <2>3, <2>4, ChildMoves
<1> QED
  BY <1>8, <1>9, <1>10 DEF ChildEnds

(* What a dead child left behind writes evidence, and ends.                 *)
LEMMA OrphanInv ==
    ASSUME IInv, NEW k \in Child, OrphanWorks(k) \/ OrphanEnds(k)
    PROVE  IInv'
<1>1. PICK at \in {"orphaned", "over"} : Become(k, [child[k] EXCEPT !.at = at])
  <2>1. CASE OrphanWorks(k)
    <3>1. child' = child /\ child[k].at = "orphaned" /\ child[k] \in ChildState
      BY <2>1, ChildType DEF OrphanWorks, WritesEvidence, IInv
    <3>2. child = [child EXCEPT ![k] = [child[k] EXCEPT !.at = "orphaned"]]
      BY <3>1 DEF IInv, TypeOK, ChildState
    <3> QED
      BY <3>1, <3>2 DEF Become
  <2>2. CASE OrphanEnds(k)
    BY <2>2 DEF OrphanEnds
  <2> QED
    BY <2>1, <2>2
<1> DEFINE state == [child[k] EXCEPT !.at = at]
<1>2. state \in ChildState /\ state.at = at
  BY ChildType DEF IInv, ChildState
<1>3. Become(k, state)
  BY <1>1
<1> HIDE DEF state
<1>4. /\ child'[k] = state /\ \A j \in Child : j # k => child'[j] = child[j]
  BY <1>2, <1>3, BecomeFields DEF IInv
<1>5. /\ child[k].at = "orphaned"
      /\ UNCHANGED <<made, spec, file, lock, caller, answer, launches>>
      /\ writer' = k \/ UNCHANGED <<evidence, writer>>
      /\ evidence' \in Nat
  BY DEF OrphanWorks, OrphanEnds, WritesEvidence, files, IInv, TypeOK
<1>6. LockInv'
  BY <1>1, <1>2, <1>4, <1>5 DEF IInv, LockInv, Holding
<1>7. EvidenceFrozen'
  <2>1. writer \in Child \cup {0} /\ k # 0
    BY ChildType DEF IInv, TypeOK
  <2>2. writer \in Child /\ child[writer].at \in {"orphaned", "over"} =>
           child'[writer].at \in {"orphaned", "over"}
    BY <1>2, <1>4
  <2>3. child'[k].at \in {"orphaned", "over"}
    BY <1>2, <1>4
  <2> QED
    BY <1>4, <1>5, <2>1, <2>2, <2>3 DEF IInv, EvidenceFrozen
<1>8. evidence' \in Nat /\ writer' \in Child \cup {0} /\ lock' \in Child \cup {0}
  BY <1>5 DEF IInv, TypeOK
<1>9. /\ child[k].at # "none" /\ state.at # "none"
      /\ child[k].at = "finished" => state.at = "finished"
      /\ UNCHANGED <<made, spec, caller, answer, launches>>
  BY <1>1, <1>2, <1>5
<1>10. /\ file' = file \/ (file' \in StatusFile /\ file'.status # "missing")
       /\ file' # file => file'.pid = k
       /\ file'.status = "succeeded" => file' = file \/ state.at = "finished"
  BY <1>5
<1> QED
  BY <1>2, <1>3, <1>6, <1>7, <1>8, <1>9, <1>10, ChildMoves

-----------------------------------------------------------------------------
(* The invariant                                                            *)

LEMMA InitInv ==
    ASSUME Init
    PROVE  IInv
<1>1. /\ made = FALSE /\ spec = NoDoc /\ file = NoFile /\ evidence = 0 /\ writer = 0 /\ lock = 0
      /\ launches = 0
      /\ \A k \in Child : child[k] = NoChild
      /\ \A c \in Caller : caller[c] = Idle
  BY DEF Init
<1>2. TypeOK
  <2>1. /\ child \in [Child -> ChildState] /\ caller \in [Caller -> CallerState]
        /\ answer \in [Caller -> Answer]
    BY NullTypes DEF Init, Answer
  <2>2. made \in BOOLEAN
    BY <1>1, Zenon
  <2> QED
    BY <1>1, <2>1, <2>2, NullTypes DEF TypeOK
<1>3. LockInv
  BY <1>1, NullTypes DEF LockInv, Holding, Child
<1>4. InstallInv
  BY <1>1, NullTypes DEF InstallInv, At
<1>5. CallInv
  BY <1>1, NullTypes DEF CallInv, At
<1>6. ChildInv
  BY <1>1, NullTypes DEF ChildInv
<1>7. EvidenceFrozen
  BY <1>1, NullTypes DEF EvidenceFrozen
<1> QED
  BY <1>2, <1>3, <1>4, <1>5, <1>6, <1>7 DEF IInv

(* When time stamps age, nothing else changes.                              *)
LEMMA AgingIs ==
    ASSUME NEW f \in StatusFile, NEW g, g = [f EXCEPT !.started = Aged(@)]
    PROVE  /\ g \in StatusFile
           /\ g.status = f.status /\ g.pid = f.pid /\ g.evidence = f.evidence
           /\ f = NoFile => g = NoFile
  BY DEF StatusFile, Aged, Age, NoFile

LEMMA OnlyAgesChange ==
    ASSUME TypeOK, GraceEnds
    PROVE  /\ file' \in StatusFile /\ file'.status = file.status /\ file'.pid = file.pid
           /\ file'.evidence = file.evidence /\ (file = NoFile => file' = NoFile)
           /\ child' \in [Child -> ChildState]
           /\ \A k \in Child : child'[k].at = child[k].at
           /\ caller' \in [Caller -> CallerState]
           /\ \A c \in Caller :
                  /\ caller'[c].at = caller[c].at /\ caller'[c].doc = caller[c].doc
                  /\ caller'[c].child = caller[c].child
                  /\ caller'[c].seen.status = caller[c].seen.status
                  /\ caller'[c].seen.pid = caller[c].seen.pid
           /\ UNCHANGED <<made, spec, evidence, writer, lock, answer, launches>>
<1>1. /\ file' \in StatusFile /\ file'.status = file.status /\ file'.pid = file.pid
      /\ file'.evidence = file.evidence /\ (file = NoFile => file' = NoFile)
  BY AgingIs DEF TypeOK, GraceEnds
<1>2. ASSUME NEW k \in Child
      PROVE  child'[k] \in ChildState /\ child'[k].at = child[k].at
  <2>1. child'[k] = [child[k] EXCEPT !.started = Aged(@)] /\ child[k] \in ChildState
    BY DEF GraceEnds, TypeOK
  <2> QED
    BY <2>1 DEF ChildState, Aged, Age
<1>3. child' \in [Child -> ChildState]
  BY <1>2 DEF GraceEnds
<1>4. ASSUME NEW c \in Caller
      PROVE  /\ caller'[c] \in CallerState
             /\ caller'[c].at = caller[c].at /\ caller'[c].doc = caller[c].doc
             /\ caller'[c].child = caller[c].child
             /\ caller'[c].seen.status = caller[c].seen.status
             /\ caller'[c].seen.pid = caller[c].seen.pid
  <2> DEFINE g == [caller[c].seen EXCEPT !.started = Aged(@)]
  <2>1. caller[c] \in CallerState /\ caller[c].seen \in StatusFile
    BY CallerType
  <2>2. caller'[c] = [caller[c] EXCEPT !.seen = g]
    BY DEF GraceEnds
  <2>3. g \in StatusFile /\ g.status = caller[c].seen.status /\ g.pid = caller[c].seen.pid
    BY <2>1, AgingIs
  <2> HIDE DEF g
  <2> QED
    BY <2>1, <2>2, <2>3 DEF CallerState
<1>5. caller' \in [Caller -> CallerState]
  BY <1>4 DEF GraceEnds
<1> QED
  BY <1>1, <1>2, <1>3, <1>4, <1>5 DEF GraceEnds

LEMMA GraceEndsInv ==
    ASSUME IInv, GraceEnds
    PROVE  IInv'
<1>1. TypeOK
  BY DEF IInv
<1>2. TypeOK'
  BY <1>1, OnlyAgesChange DEF TypeOK
<1>3. LockInv' /\ EvidenceFrozen'
  BY <1>1, OnlyAgesChange DEF IInv, LockInv, Holding, EvidenceFrozen, TypeOK
<1>4. file' = NoFile <=> file = NoFile
  BY <1>1, OnlyAgesChange, NullTypes DEF IInv, InstallInv
<1>5. InstallInv'
  BY <1>1, <1>4, OnlyAgesChange DEF IInv, InstallInv, At
<1>6. CallInv'
  BY <1>1, <1>4, OnlyAgesChange, CallerType, FileFields DEF IInv, CallInv, At
<1>7. ChildInv'
  BY <1>1, <1>4, OnlyAgesChange, FileFields DEF IInv, ChildInv, TypeOK
<1> QED
  BY <1>2, <1>3, <1>5, <1>6, <1>7 DEF IInv

LEMMA StutterInv ==
    ASSUME IInv, UNCHANGED vars
    PROVE  IInv'
  BY DEF vars, IInv, TypeOK, LockInv, InstallInv, CallInv, ChildInv, EvidenceFrozen,
         Holding, At

LEMMA NextInv ==
    ASSUME IInv, [Next]_vars
    PROVE  IInv'
<1>1. ASSUME NEW c \in Caller, Install(c) PROVE IInv'
  BY <1>1, InstallStepInv, QuietReplies DEF Install
<1>2. ASSUME NEW c \in Caller, Launch(c) PROVE IInv'
  BY <1>2, QuietReplies, LaunchBeginsInv, MarkRunningInv, SpawnInv, LaunchGoesOnInv,
     RecordHandleInv DEF Launch, LaunchGoesOn
<1>3. ASSUME NEW c \in Caller, Status(c) PROVE IInv'
  BY <1>3, StatusInv
<1>4. ASSUME NEW c \in Caller, ReadEvidence(c) \/ CallerDies(c) PROVE IInv'
  BY <1>4, QuietReplies
<1>5. ASSUME NEW k \in Child, Run(k) PROVE IInv'
  BY <1>5, ChildWaits, ChildGoesOn, ChildEndsInv, OrphanInv DEF Run
<1> QED
  BY <1>1, <1>2, <1>3, <1>4, <1>5, GraceEndsInv, StutterInv DEF Next

(* The inductive invariant holds throughout, whatever calls overlap and     *)
(* whichever processes are killed.                                          *)
THEOREM Invariance == Spec => []IInv
<1>1. Init => IInv
  BY InitInv
<1>2. IInv /\ [Next]_vars => IInv'
  BY NextInv
<1> QED
  BY <1>1, <1>2, PTL DEF Spec

(* The files and memories of a job are always of their declared types.      *)
THEOREM TypeCorrect == Spec => []TypeOK
<1>1. IInv => TypeOK
  BY DEF IInv
<1> QED
  BY <1>1, Invariance, PTL

(* While a job counts as succeeded no child of it is at work, and only what *)
(* a dead child left behind can have written over the inventoried evidence. *)
THEOREM EvidenceIsFrozen == Spec => []EvidenceFrozen
<1>1. IInv => EvidenceFrozen
  BY DEF IInv
<1> QED
  BY <1>1, Invariance, PTL

(* A job id keeps the document it was first bound to.                       *)
THEOREM SpecStaysBound == Spec => SpecIsBound
<1>1. ASSUME IInv, [Next]_vars, spec # NoDoc PROVE spec' = spec
  <2>1. ASSUME NEW c \in Caller, WriteSpec(c) PROVE FALSE
    BY <1>1, <2>1 DEF WriteSpec, IInv, InstallInv
  <2>2. ASSUME NEW c \in Caller, Install(c) PROVE spec' = spec
    BY <2>1, <2>2 DEF Install, MakeDirectory, InstallAgain, WritePending, files
  <2>3. ASSUME NEW c \in Caller, Launch(c) \/ Status(c) \/ ReadEvidence(c) \/ CallerDies(c)
        PROVE  spec' = spec
    BY <2>3 DEF Launch, LaunchGoesOn, LaunchRefused, LaunchBegins, MarkRunning,
         SpawnSystemd, SpawnNohup, FindMainPid, LaunchFails, RereadStatus, RecordHandle,
         Status, StatusReads, StatusJudges, Condemn, ReadEvidence, CallerDies, files
  <2>4. ASSUME NEW k \in Child, Run(k) PROVE spec' = spec
    BY <2>4 DEF Run, ChildLocks, ChildRefused, ChildReads, ChildEnters, ChildReports,
         ChildWorks, WritesEvidence, ChildEnds, ChildReturns, ChildSucceeds, ChildFails,
         ChildDies, OrphanWorks, OrphanEnds, files
  <2> QED
    BY <1>1, <2>2, <2>3, <2>4 DEF Next, GraceEnds, vars, files
<1>2. IInv /\ [Next]_vars => [spec # NoDoc => spec' = spec]_vars
  BY <1>1
<1> QED
  BY <1>2, Invariance, PTL DEF Spec, SpecIsBound

(* No success is taken back while no call is in flight.                     *)
THEOREM SuccessStaysWhenQuiet == Spec => QuietSuccessStays
<1>1. ASSUME IInv, [Next]_vars, file.status = "succeeded", \A c \in Caller : At(c, "idle")
      PROVE  file'.status = "succeeded"
  <2>1. ASSUME NEW c \in Caller, Install(c) \/ Launch(c) \/ Status(c) \/ ReadEvidence(c)
                                 \/ CallerDies(c)
        PROVE  file' = file
    BY <1>1, <2>1 DEF At, Install, MakeDirectory, InstallAgain, WriteSpec, WritePending,
         Launch, LaunchGoesOn, LaunchRefused, LaunchBegins, MarkRunning, SpawnSystemd,
         SpawnNohup, FindMainPid, LaunchFails, RereadStatus, RecordHandle, Status,
         StatusReads, StatusJudges, Condemn, ReadEvidence, CallerDies, files
  <2>2. ASSUME NEW k \in Child, Run(k) PROVE file' = file
    <3>1. child[k].at \notin {"entered", "running"}
      BY <1>1 DEF IInv, EvidenceFrozen
    <3> QED
      BY <2>2, <3>1 DEF Run, ChildLocks, ChildRefused, ChildReads, ChildEnters,
           ChildReports, ChildWorks, WritesEvidence, ChildEnds, ChildReturns, ChildSucceeds,
           ChildFails, ChildDies, OrphanWorks, OrphanEnds, files
  <2>3. GraceEnds => file'.status = "succeeded"
    BY <1>1, OnlyAgesChange DEF IInv
  <2> QED
    BY <1>1, <2>1, <2>2, <2>3 DEF Next, vars
<1>2. IInv /\ [Next]_vars =>
        [file.status = "succeeded" /\ (\A c \in Caller : At(c, "idle")) =>
           file'.status = "succeeded"]_vars
  BY <1>1
<1> QED
  BY <1>2, Invariance, PTL DEF Spec, QuietSuccessStays

-----------------------------------------------------------------------------
(* The worker implements JobService                                         *)

Started == \E k \in Child : child[k].at # "none"
Finished == \E k \in Child : child[k].at = "finished"

LEMMA StageIs ==
    /\ Finished => Stage = "done"
    /\ (~Finished /\ Started) => Stage = "started"
    /\ (~Started /\ spec # NoDoc) => Stage = "installed"
    /\ (~Started /\ spec = NoDoc) => Stage = "absent"
  BY DEF Stage, Started, Finished

LEMMA JustifiedIs ==
    /\ {"none", "error"} \subseteq Service!Justified(Stage)
    /\ spec # NoDoc \/ Started =>
         {"installed", "pending", "running"} \subseteq Service!Justified(Stage)
    /\ Started => {"launched", "failed"} \subseteq Service!Justified(Stage)
    /\ Finished => {"succeeded", "evidence"} \subseteq Service!Justified(Stage)
<1>1. Finished => Started
  BY DEF Finished, Started
<1> QED
  BY <1>1, StageIs DEF Service!Justified

(* What is answered is true of the job: by the files, and by what the call  *)
(* remembers.                                                               *)
LEMMA RepliesAreJustified ==
    ASSUME IInv, NEW c \in Caller,
           \/ \E d \in Doc : InstallAgain(c, d)
           \/ WritePending(c) \/ LaunchRefused(c) \/ LaunchFails(c)
           \/ RereadStatus(c) /\ Terminal(file.status)
           \/ RecordHandle(c) \/ Condemn(c) \/ ReadEvidence(c) \/ CallerDies(c)
    PROVE  \E a \in Service!Justified(Stage) : answer' = [answer EXCEPT ![c] = a]
<1>1. CASE \E d \in Doc : InstallAgain(c, d)
  <2>1. spec # NoDoc \/ answer' = [answer EXCEPT ![c] = "error"]
    BY <1>1, DocAssumption DEF InstallAgain, Reply
  <2>2. answer' = [answer EXCEPT ![c] = "installed"]
        \/ answer' = [answer EXCEPT ![c] = "error"]
    BY <1>1 DEF InstallAgain, Reply
  <2> QED
    BY <2>1, <2>2, JustifiedIs
<1>2. CASE WritePending(c)
  BY <1>2, JustifiedIs DEF WritePending, Reply, IInv, InstallInv
<1>3. CASE LaunchRefused(c)
  <2>1. file.status = "running" => Started
    BY <1>3, FileFields DEF LaunchRefused, Launchable, IInv, TypeOK, ChildInv, Started
  <2> QED
    BY <1>3, <2>1, JustifiedIs DEF LaunchRefused, Reply
<1>4. CASE LaunchFails(c) \/ CallerDies(c)
  BY <1>4, JustifiedIs DEF LaunchFails, CallerDies, Reply
<1>5. CASE (RereadStatus(c) /\ Terminal(file.status)) \/ RecordHandle(c)
  <2>1. Started
    BY <1>5, CallerType DEF RereadStatus, RecordHandle, At, IInv, CallInv, Started
  <2> QED
    BY <1>5, <2>1, JustifiedIs DEF RereadStatus, RecordHandle, Reply
<1>6. CASE Condemn(c)
  <2>1. Started
    BY <1>6, CallerType, FileFields DEF Condemn, At, IInv, CallInv, Started
  <2> QED
    BY <1>6, <2>1, JustifiedIs DEF Condemn, Reply
<1>7. CASE ReadEvidence(c)
  <2>1. file.status = "succeeded" => Finished
    BY DEF IInv, ChildInv, Finished
  <2> QED
    BY <1>7, <2>1, JustifiedIs DEF ReadEvidence, Reply
<1> QED
  BY <1>1, <1>2, <1>3, <1>4, <1>5, <1>6, <1>7

LEMMA StatusIsJustified ==
    ASSUME IInv, NEW c \in Caller, StatusReads(c) \/ StatusJudges(c)
    PROVE  \E a \in Service!Justified(Stage) : answer' = [answer EXCEPT ![c] = a]
<1>1. spec # NoDoc
  BY DEF StatusReads, StatusJudges, At, IInv, InstallInv, CallInv
<1>2. file.status \in JobStatus \cup {"missing"} /\ file.pid \in Child \cup {0}
  BY FileFields DEF IInv, TypeOK
<1>3. file.status = "failed" => Started
  BY <1>2 DEF IInv, ChildInv, Started
<1>4. file.status = "succeeded" => Finished
  BY DEF IInv, ChildInv, Finished
<1>5. CASE StatusReads(c)
  <2>1. file.status # "missing"
    BY <1>5 DEF StatusReads, IInv, InstallInv
  <2>2. file.status \in Service!Justified(Stage)
    BY <1>1, <1>2, <1>3, <1>4, <2>1, JustifiedIs DEF JobStatus
  <2> QED
    BY <1>5, <2>2, JustifiedIs DEF StatusReads, Reply, Continue
<1>6. CASE StatusJudges(c)
  BY <1>1, <1>6, JustifiedIs DEF StatusJudges, Reply, Continue
<1> QED
  BY <1>5, <1>6

LEMMA SameStage ==
    ASSUME UNCHANGED <<spec, child>>
    PROVE  Stage' = Stage
  BY DEF Stage

(* A step of a call that leaves the job where it is.                        *)
LEMMA AnswerRefines ==
    ASSUME UNCHANGED <<spec, child>>, NEW c \in Caller,
           \E a \in Service!Justified(Stage) : answer' = [answer EXCEPT ![c] = a]
    PROVE  Service!Next
<1>1. Stage' = Stage
  BY SameStage
<1>2. Service!Tell(c)
  BY <1>1 DEF Service!Tell
<1> QED
  BY <1>1, <1>2 DEF Service!Next

(* A step that moves the job.                                               *)
LEMMA MoveRefines ==
    ASSUME NEW c \in Caller, Stage' = Stage \/ Service!Advance,
           answer' = answer \/ answer' = [answer EXCEPT ![c] = "none"]
    PROVE  Service!Next
<1>1. "none" \in Service!Justified(Stage')
  BY DEF Service!Justified
<1>2. answer' = answer \/ Service!Tell(c)
  BY <1>1 DEF Service!Tell
<1> QED
  BY <1>2 DEF Service!Next

LEMMA StageGrows ==
    ASSUME IInv,
           \/ \E c \in Caller : WriteSpec(c) \/ SpawnSystemd(c) \/ SpawnNohup(c)
           \/ \E k \in Child : Run(k)
    PROVE  Stage' = Stage \/ Service!Advance
<1>1. ASSUME NEW c \in Caller, WriteSpec(c) PROVE Service!Advance
  <2>1. /\ spec = NoDoc /\ caller[c].doc # NoDoc /\ spec' = caller[c].doc
        /\ UNCHANGED child
    BY <1>1, DocAssumption DEF WriteSpec, IInv, InstallInv
  <2>2. ~Started /\ ~Started'
    BY <2>1 DEF IInv, InstallInv, ChildInv, Started
  <2>3. Stage = "absent" /\ Stage' = "installed"
    BY <2>1, <2>2, StageIs DEF Stage, Started
  <2> QED
    BY <2>3 DEF Service!Advance, Service!Stages
<1>2. ASSUME spec # NoDoc, spec' = spec,
             Started', Finished => Finished', ~Started => ~Finished'
      PROVE  Stage' = Stage \/ Service!Advance
  <2>1. \/ Stage = "done" /\ Stage' = "done"
        \/ Stage = "started" /\ Stage' \in {"started", "done"}
        \/ Stage = "installed" /\ Stage' = "started"
    BY <1>2, StageIs DEF Stage, Started, Finished
  <2> QED
    BY <2>1 DEF Service!Advance, Service!Stages
<1>3. ASSUME NEW c \in Caller, SpawnSystemd(c) \/ SpawnNohup(c)
      PROVE  Stage' = Stage \/ Service!Advance
  <2>1. PICK k \in Child, state \in ChildState :
          child[k].at = "none" /\ state.at = "spawned" /\ Become(k, state)
    <3>1. PICK backend \in {"systemd", "nohup"}, location \in {"queued", "spawned"} :
            Spawn(c, backend, location)
      BY <1>3 DEF SpawnSystemd, SpawnNohup
    <3> DEFINE state == [NoChild EXCEPT !.at = "spawned", !.backend = backend]
    <3>2. state \in ChildState /\ state.at = "spawned"
      BY NullTypes DEF ChildState, Backend
    <3>3. \E k \in Child : child[k].at = "none" /\ Become(k, state)
      BY <3>1 DEF Spawn
    <3> HIDE DEF state
    <3> QED
      BY <3>2, <3>3
  <2>2. child'[k] = state /\ \A j \in Child : j # k => child'[j] = child[j]
    BY <2>1, BecomeFields DEF IInv
  <2>3. spec # NoDoc /\ spec' = spec
    BY <1>3 DEF SpawnSystemd, SpawnNohup, At, IInv, CallInv, InstallInv, files
  <2>4. Started' /\ (Finished <=> Finished')
    BY <2>1, <2>2 DEF Started, Finished
  <2> QED
    BY <1>2, <2>3, <2>4 DEF Started, Finished
<1>4. ASSUME NEW k \in Child, Run(k)
      PROVE  Stage' = Stage \/ Service!Advance
  <2>1. PICK state \in ChildState : state.at # "none" /\ Become(k, state)
    <3>1. CASE \E location \in {"finished", "dead", "orphaned"} : Exit(k, location)
      BY <3>1, NullTypes, ChildType DEF Exit, IInv, ChildState
    <3>2. CASE \E location \in {"locked", "dead", "running", "over"} :
                 Become(k, [child[k] EXCEPT !.at = location])
      BY <3>2, ChildType DEF IInv, ChildState
    <3>3. CASE ChildReads(k)
      <4> DEFINE state == [child[k] EXCEPT
                            !.at = "entered", !.seenBackend = file.backend,
                            !.started = IF file.started = "none" THEN "young" ELSE file.started]
      <4>1. file.backend \in Backend /\ file.started \in Age /\ "young" \in Age
        BY FileFields, NullTypes DEF IInv, TypeOK
      <4>2. state \in ChildState /\ state.at = "entered"
        BY <4>1, ChildType DEF IInv, ChildState
      <4> QED
        BY <3>3, <4>2 DEF ChildReads
    <3>4. CASE ChildReports(k) \/ ChildWorks(k) \/ OrphanWorks(k)
      <4>1. child[k] \in ChildState /\ child[k].at # "none" /\ Become(k, child[k])
        BY <3>4 DEF ChildReports, ChildWorks, OrphanWorks, WritesEvidence, Become, IInv, TypeOK
      <4> QED
        BY <4>1
    <3> QED
      BY <1>4, <3>1, <3>2, <3>3, <3>4 DEF Run, ChildEnds, ChildLocks, ChildRefused,
           ChildEnters, ChildReturns, ChildSucceeds, ChildFails, ChildDies, OrphanEnds
  <2>2. child'[k] = state /\ \A j \in Child : j # k => child'[j] = child[j]
    BY <2>1, BecomeFields DEF IInv
  <2>3. child[k].at \notin {"none", "finished"} /\ spec' = spec
    BY <1>4 DEF Run, ChildEnds, ChildLocks, ChildRefused, ChildReads, ChildEnters,
         ChildReports, ChildWorks, WritesEvidence, ChildReturns, ChildSucceeds, ChildFails,
         ChildDies, OrphanWorks, OrphanEnds, Alive, Holding, files
  <2>4. spec # NoDoc
    BY <2>3 DEF IInv, ChildInv, InstallInv
  <2>5. Started /\ Started' /\ (Finished => Finished')
    BY <2>1, <2>2, <2>3 DEF Started, Finished
  <2> QED
    BY <1>2, <2>3, <2>4, <2>5
<1> QED
  BY <1>1, <1>3, <1>4

(* Every answer is justified by the job, however the calls of the           *)
(* controller, the children and the deaths of both interleave.              *)
THEOREM Refinement == Spec => ImplementsJobService
<1>1. Init => Service!Init
  BY NullTypes, StageIs DEF Init, Service!Init, Started, Finished, Stage
<1>2. ASSUME IInv, [Next]_vars PROVE [Service!Next]_(Service!vars)
  <2>1. ASSUME NEW c \in Caller,
               \/ \E d \in Doc : InstallAgain(c, d)
               \/ WritePending(c) \/ LaunchRefused(c) \/ LaunchFails(c)
               \/ (RereadStatus(c) /\ Terminal(file.status))
               \/ RecordHandle(c) \/ Status(c) \/ ReadEvidence(c) \/ CallerDies(c)
        PROVE  Service!Next
    <3>1. UNCHANGED <<spec, child>>
      BY <2>1 DEF InstallAgain, WritePending, LaunchRefused, LaunchFails, RereadStatus,
           RecordHandle, Status, StatusReads, StatusJudges, Condemn, ReadEvidence,
           CallerDies, files
    <3> QED
      BY <1>2, <2>1, <3>1, RepliesAreJustified, StatusIsJustified, AnswerRefines DEF Status
  <2>2. ASSUME NEW c \in Caller,
               \/ \E d \in Doc : MakeDirectory(c, d)
               \/ LaunchBegins(c) \/ MarkRunning(c) \/ FindMainPid(c)
               \/ (RereadStatus(c) /\ ~Terminal(file.status))
        PROVE  Service!Next
    <3>1. /\ UNCHANGED <<spec, child>>
          /\ answer' = [answer EXCEPT ![c] = "none"]
      BY <2>2 DEF MakeDirectory, LaunchBegins, MarkRunning, FindMainPid, RereadStatus,
           Continue, files
    <3> QED
      BY <3>1, SameStage, MoveRefines
  <2>3. ASSUME NEW c \in Caller, WriteSpec(c) \/ SpawnSystemd(c) \/ SpawnNohup(c)
        PROVE  Service!Next
    <3>1. answer' = [answer EXCEPT ![c] = "none"]
      BY <2>3 DEF WriteSpec, SpawnSystemd, SpawnNohup, Spawn, Continue
    <3> QED
      BY <1>2, <2>3, <3>1, StageGrows, MoveRefines
  <2>4. ASSUME NEW k \in Child, Run(k) PROVE Service!Next
    <3>1. answer' = answer
      BY <2>4 DEF Run, ChildEnds, ChildLocks, ChildRefused, ChildReads, ChildEnters,
           ChildReports, ChildWorks, WritesEvidence, ChildReturns, ChildSucceeds, ChildFails,
           ChildDies, OrphanWorks, OrphanEnds
    <3> QED
      BY <1>2, <2>4, <3>1, StageGrows DEF Service!Next
  <2>5. CASE GraceEnds
    <3>1. /\ \A k \in Child : child'[k].at = child[k].at
          /\ spec' = spec /\ answer' = answer
      BY <1>2, <2>5, OnlyAgesChange DEF IInv
    <3>2. Stage' = Stage
      BY <3>1 DEF Stage
    <3> QED
      BY <3>1, <3>2 DEF Service!vars
  <2>6. CASE UNCHANGED vars
    BY <2>6, SameStage DEF vars, files, Service!vars
  <2> QED
    BY <1>2, <2>1, <2>2, <2>3, <2>4, <2>5, <2>6 DEF Next, Install, Launch, LaunchGoesOn
<1> QED
  BY <1>1, <1>2, Invariance, PTL DEF Spec, ImplementsJobService, Service!Spec
=============================================================================
