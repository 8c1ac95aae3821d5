------------------------------ MODULE Inference ------------------------------
(***************************************************************************)
(* run_frozen_inference of shadowcrafter.evaluation.inference, for one      *)
(* request: every input is verified against its digest, the model is        *)
(* loaded, the cases are run, every input is verified again, and the        *)
(* predictions are published in a directory that must be new.               *)
(* Any number of processes may run the request; files may be written while  *)
(* they do; a process may be interrupted or killed at any point.            *)
(* Prompts, answers and resource limits are left out: a call that exceeds   *)
(* one fails.  So are the staging directories: their names are never used   *)
(* twice and nobody looks for one that is left.                             *)
(***************************************************************************)
EXTENDS Naturals, Sequences, Files

CONSTANTS
    Input,          \* the files that are read
    Checks,         \* what is verified, in order: a kind and a file
    Weights,        \* the files the model is loaded from
    Links,          \* which of the checked files must give the digest of which
    Cites           \* which content gives the digest of which

(* _stable_file also compares what the file system says of the file; the    *)
(* files of a tree are only compared with the inventory.                    *)
Check == [kind : {"pin", "tree"}, file : Input]

ASSUME CheckAssumption ==
    /\ Checks \in Seq(Check)
    /\ Weights \subseteq Input
    /\ \A f \in Weights : \E k \in DOMAIN Checks : Checks[k] = [kind |-> "tree", file |-> f]

ASSUME LinkAssumption ==
    /\ Cites \subseteq Content \X Content
    /\ Links \subseteq (DOMAIN Checks) \X (DOMAIN Checks)

(* The digests: those of the request itself and those of the inventory.     *)
Digests == [pin : [Input -> Content], tree : [Input -> Content]]

Part == {"predictions", "manifest"}

ASSUME AbsenceAssumption == Missing \notin Digests

VARIABLES
    disk,       \* the input files: what is in them, and how often they were written
    request,    \* the request file
    session,    \* the calls of run_frozen_inference
    output      \* the output directory: whether it is there, and whose files are in it

inferenceVars == <<disk, request, session, output>>

-----------------------------------------------------------------------------
(* seen and last are the writes that preceded the two checks of each input. *)
SessionState ==
    [at : {"idle", "verifying", "loading", "rechecking", "publishing", "linking", "done",
           "failed", "killed"},
     next : Nat, seen : [DOMAIN Checks -> Nat], last : [DOMAIN Checks -> Nat],
     loaded : [Weights -> Content \cup {Missing}]]

NoSession ==
    [at |-> "idle", next |-> 1,
     seen |-> [k \in DOMAIN Checks |-> 0], last |-> [k \in DOMAIN Checks |-> 0],
     loaded |-> [f \in Weights |-> Missing]]

InSession(p, at) == session[p].at = at
Inferring(p) == session[p].at \notin {"idle", "done", "failed", "killed"}
Enter(p, at) == session' = [session EXCEPT ![p] = [@ EXCEPT !.at = at, !.next = 1]]

Complete == \E p \in Proc : \A part \in Part : output.files[part] = p

InferenceInit ==
    /\ disk \in [Input -> [content : Content, writes : {0}]]
    /\ request = Missing
    /\ session = [p \in Proc |-> NoSession]
    /\ output = [made |-> FALSE, files |-> [part \in Part |-> Missing]]

-----------------------------------------------------------------------------
(* Whoever asks for the evaluation writes the request, once.                *)
PutRequest(digests) ==
    /\ request = Missing
    /\ request' = digests

RefuseInference(p) ==
    /\ InSession(p, "idle")
    /\ request # Missing
    /\ output.made
    /\ Enter(p, "failed")
    /\ UNCHANGED <<disk, request, output>>

BeginInference(p) ==
    /\ InSession(p, "idle")
    /\ request # Missing
    /\ ~output.made
    /\ Enter(p, "verifying")
    /\ UNCHANGED <<disk, request, output>>

(* The digest that the request, or the inventory that it pins, gives.         *)
DigestOf(k) ==
    LET check == Checks[k] IN
    IF check.kind = "pin" THEN request.pin[check.file] ELSE request.tree[check.file]

Matches(k) == disk[Checks[k].file].content = DigestOf(k)

Writes(k) == disk[Checks[k].file].writes

(* _initial_verification                                                    *)
VerifyInput(p) ==
    LET k == session[p].next IN
    /\ InSession(p, "verifying")
    /\ k \in DOMAIN Checks
    /\ Matches(k)
    /\ session' = [session EXCEPT ![p] = [@ EXCEPT !.seen[k] = Writes(k), !.next = k + 1]]
    /\ UNCHANGED <<disk, request, output>>

(* The run manifest of the training gives the digests of the adapter that is *)
(* in the inventory, of the source and of the configuration; the gate        *)
(* configuration and the manifests of the benchmark those of the cases.      *)
CitedBy(document, k) == <<DigestOf(document), DigestOf(k)>> \in Cites

Cited == \A l \in Links : CitedBy(l[1], l[2])

(* What was verified belongs together.                                      *)
EndVerification(p) ==
    /\ InSession(p, "verifying")
    /\ session[p].next \notin DOMAIN Checks
    /\ Cited
    /\ Enter(p, "loading")
    /\ UNCHANGED <<disk, request, output>>

(* The backend reads the files once more.                                   *)
LoadFile(p, f) ==
    /\ InSession(p, "loading")
    /\ session[p].loaded[f] = Missing
    /\ session' = [session EXCEPT ![p].loaded[f] = disk[f].content]
    /\ UNCHANGED <<disk, request, output>>

(* All cases, one after the other.                                          *)
Generate(p) ==
    /\ InSession(p, "loading")
    /\ \A f \in Weights : session[p].loaded[f] # Missing
    /\ Enter(p, "rechecking")
    /\ UNCHANGED <<disk, request, output>>

(* Faulty: the files of the trees are not verified again.                   *)
RecheckPins(p) ==
    LET k == session[p].next IN
    /\ InSession(p, "rechecking")
    /\ k \in DOMAIN Checks
    /\ Checks[k].kind = "pin" => Matches(k) /\ Writes(k) = session[p].seen[k]
    /\ session' = [session EXCEPT ![p] = [@ EXCEPT !.last[k] = Writes(k), !.next = k + 1]]
    /\ UNCHANGED <<disk, request, output>>

(* _revalidate                                                              *)
RecheckInput(p) ==
    LET k == session[p].next IN
    /\ InSession(p, "rechecking")
    /\ k \in DOMAIN Checks
    /\ Matches(k)
    /\ Checks[k].kind = "pin" => Writes(k) = session[p].seen[k]
    /\ session' = [session EXCEPT ![p] = [@ EXCEPT !.last[k] = Writes(k), !.next = k + 1]]
    /\ UNCHANGED <<disk, request, output>>

Seal(p) ==
    /\ InSession(p, "rechecking")
    /\ session[p].next \notin DOMAIN Checks
    /\ Enter(p, "publishing")
    /\ UNCHANGED <<disk, request, output>>

-----------------------------------------------------------------------------
(* _publish_output_directory                                                *)

MakeOutput(p) ==
    /\ InSession(p, "publishing")
    /\ ~output.made
    /\ output' = [output EXCEPT !.made = TRUE]
    /\ Enter(p, "linking")
    /\ UNCHANGED <<disk, request>>

(* The predictions first.                                                   *)
Link(p, part) ==
    /\ InSession(p, "linking")
    /\ output.files[part] = Missing
    /\ part = "manifest" => output.files["predictions"] # Missing
    /\ output' = [output EXCEPT !.files[part] = p]
    /\ UNCHANGED <<disk, request, session>>

FinishInference(p) ==
    /\ InSession(p, "linking")
    /\ \A part \in Part : output.files[part] # Missing
    /\ Enter(p, "done")
    /\ UNCHANGED <<disk, request, output>>

RemoveOutput == output' = [made |-> FALSE, files |-> [part \in Part |-> Missing]]

(* Faulty: what is removed need not be what this call has made.             *)
AbandonAndRemove(p) ==
    /\ session[p].at \in {"verifying", "loading", "rechecking", "publishing"}
    /\ IF session[p].at = "publishing" THEN RemoveOutput ELSE UNCHANGED output
    /\ Enter(p, "failed")
    /\ UNCHANGED <<disk, request>>

(* A check or any call fails, or the output is there already.               *)
AbandonInference(p) ==
    /\ session[p].at \in {"verifying", "loading", "rechecking", "publishing"}
    /\ Enter(p, "failed")
    /\ UNCHANGED <<disk, request, output>>

(* An OSError, perhaps after both links: the output is removed.             *)
UndoOutput(p) ==
    /\ InSession(p, "linking")
    /\ RemoveOutput
    /\ Enter(p, "failed")
    /\ UNCHANGED <<disk, request>>

(* Any other exception, as at an interrupt: the output is left as it is.    *)
InterruptLinking(p) ==
    /\ InSession(p, "linking")
    /\ Enter(p, "failed")
    /\ UNCHANGED <<disk, request, output>>

KillInference(p) ==
    /\ Inferring(p)
    /\ session' = [session EXCEPT ![p].at = "killed"]
    /\ UNCHANGED <<disk, request, output>>

(* Another call.                                                            *)
LeaveInference(p) ==
    /\ session[p].at \in {"done", "failed", "killed"}
    /\ session' = [session EXCEPT ![p] = NoSession]
    /\ UNCHANGED <<disk, request, output>>

(* Somebody writes an input file, perhaps what was there before.            *)
WriteInput(f, content) ==
    /\ disk' = [disk EXCEPT ![f] = [content |-> content, writes |-> @.writes + 1]]
    /\ UNCHANGED <<request, session, output>>

InferStep(p) ==
    \/ VerifyInput(p) \/ EndVerification(p)
    \/ \E f \in Weights : LoadFile(p, f)
    \/ Generate(p) \/ RecheckInput(p) \/ Seal(p)
    \/ MakeOutput(p) \/ (\E part \in Part : Link(p, part)) \/ FinishInference(p)
    \/ AbandonInference(p) \/ UndoOutput(p) \/ InterruptLinking(p)

InferenceNext ==
    \/ \E digests \in Digests :
         PutRequest(digests) /\ UNCHANGED <<disk, session, output>>
    \/ \E p \in Proc :
         \/ BeginInference(p) \/ RefuseInference(p) \/ InferStep(p)
         \/ KillInference(p) \/ LeaveInference(p)
    \/ \E f \in Input, content \in Content : WriteInput(f, content)

InferenceSpec == InferenceInit /\ [][InferenceNext]_inferenceVars

-----------------------------------------------------------------------------
(* Properties                                                               *)

(* Every variable has its type.                                             *)
InferenceTypeOK ==
    /\ disk \in [Input -> [content : Content, writes : Nat]]
    /\ request \in Digests \cup {Missing}
    /\ session \in [Proc -> SessionState]
    /\ output \in [made : BOOLEAN, files : [Part -> Proc \cup {Missing}]]

(* When several processes run the request, lose the race for the output or  *)
(* fail while they fill it, a call that returned has put both files there.  *)
OutputIsOwned ==
    \A p \in Proc : InSession(p, "done") =>
        output.made /\ \A part \in Part : output.files[part] = p

(* What the predictions of a call that succeeded were made with: the pinned *)
(* files were not written at all between the two checks, and a weight file  *)
(* that was not the one of the inventory when it was loaded was written at  *)
(* least twice, away from what it was and back to it.  What was pinned and   *)
(* what was in the inventory belongs to one training.                       *)
SuccessIsBound ==
    \A p \in Proc : session[p].at \in {"publishing", "linking", "done"} =>
        /\ Cited
        /\ \A k \in DOMAIN Checks :
             LET s == session[p]
                 f == Checks[k].file
             IN  IF Checks[k].kind = "pin" THEN s.last[k] = s.seen[k]
                 ELSE f \in Weights /\ s.loaded[f] # request.tree[f] =>
                          s.last[k] >= s.seen[k] + 2

(* The predictions of one run, complete, stay as they are: no other run     *)
(* that finds them, loses the race or is stopped takes anything away.       *)
OutputIsFinal ==
    [][Complete /\ (\A p \in Proc : ~InSession(p, "linking")) => output' = output]_inferenceVars

-----------------------------------------------------------------------------
(* The inductive invariant                                                  *)

Verified(p, k) ==
    \/ InSession(p, "verifying") /\ k < session[p].next
    \/ session[p].at \in {"loading", "rechecking", "publishing", "linking", "done"}

Rechecked(p, k) ==
    \/ InSession(p, "rechecking") /\ k < session[p].next
    \/ session[p].at \in {"publishing", "linking", "done"}

(* A weight file was loaded that is not the one of the inventory.           *)
LoadedOther(p, k) ==
    LET f == Checks[k].file IN
    /\ Checks[k].kind = "tree" /\ f \in Weights
    /\ session[p].at \in {"loading", "rechecking", "publishing", "linking", "done"}
    /\ session[p].loaded[f] # Missing /\ session[p].loaded[f] # request.tree[f]

(* The writes since the first check, and what they can have left behind.    *)
BoundBy(p, k) ==
    LET s == session[p]
        d == disk[Checks[k].file]
        intact == d.content = request.tree[Checks[k].file]
    IN  /\ Verified(p, k) => s.seen[k] <= d.writes
        /\ Verified(p, k) /\ Checks[k].kind = "tree" /\ d.writes = s.seen[k] => intact
        /\ LoadedOther(p, k) =>
             /\ d.writes >= s.seen[k] + 1
             /\ d.writes = s.seen[k] + 1 => ~intact
        /\ Rechecked(p, k) /\ Checks[k].kind = "pin" => s.last[k] = s.seen[k]
        /\ Rechecked(p, k) /\ LoadedOther(p, k) => s.last[k] >= s.seen[k] + 2
        /\ Rechecked(p, k) /\ Checks[k].kind = "tree" =>
             s.last[k] <= d.writes /\ (d.writes = s.last[k] => intact)

SessionInv(p) ==
    /\ session[p].next \in 1..(Len(Checks) + 1)
    /\ InSession(p, "idle") \/ request # Missing
    /\ session[p].at \in {"idle", "verifying"} =>
         \A f \in Weights : session[p].loaded[f] = Missing
    /\ session[p].at \in {"rechecking", "publishing", "linking", "done"} =>
         \A f \in Weights : session[p].loaded[f] # Missing
    /\ \A k \in DOMAIN Checks : BoundBy(p, k)

(* Only the call that made the output fills it.                             *)
OutputInv ==
    /\ ~output.made => \A part \in Part : output.files[part] = Missing
    /\ \A p \in Proc : InSession(p, "linking") =>
         output.made /\ \A part \in Part : output.files[part] \in {Missing, p}
    /\ \A p, q \in Proc : InSession(p, "linking") /\ InSession(q, "linking") => p = q

(* The model is loaded only after the documents were found to agree.        *)
CitationInv ==
    \A p \in Proc :
        session[p].at \in {"loading", "rechecking", "publishing", "linking", "done"} => Cited

InferenceInv ==
    InferenceTypeOK /\ (\A p \in Proc : SessionInv(p)) /\ OutputInv /\ OutputIsOwned
=============================================================================
