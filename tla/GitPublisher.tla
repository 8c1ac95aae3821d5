----------------------------- MODULE GitPublisher -----------------------------
(***************************************************************************)
(* commit_and_push: a task commits the paths of its allowlist and pushes,   *)
(* one git command after another, in a working copy in which people edit,   *)
(* stage, commit and amend, and to a branch to which others push. A failed  *)
(* or killed call is repeated by the controller.                            *)
(***************************************************************************)
EXTENDS Naturals, Sequences

CONSTANTS
    Path,
    Covered,        \* the paths of the allowlist of the task
    Content,        \* what a file may hold
    Absent,
    MaxCalls,       \* bound: calls of commit_and_push
    MaxSteps        \* bound: steps of others

ASSUME PathAssumption ==
    /\ Covered \subseteq Path
    /\ Absent \notin Content
    /\ MaxCalls \in Nat /\ MaxSteps \in Nat

VARIABLES
    work,           \* the working tree
    index,
    local,          \* the commits of HEAD
    remote,         \* the commits of the branch on GitHub
    call,           \* the call of commit_and_push
    calls,
    returned,       \* the revisions that were returned
    steps           \* the steps of others

gitVars == <<work, index, local, remote, call, calls, returned, steps>>

Tree == [Path -> Content \cup {Absent}]
Commit == [by : {"task", "person"}, tree : Tree]

EmptyTree == [p \in Path |-> Absent]

TreeOf(commits) == IF commits = <<>> THEN EmptyTree ELSE commits[Len(commits)].tree

Extends(longer, commits) ==
    Len(commits) <= Len(longer) /\ SubSeq(longer, 1, Len(commits)) = commits

GitInit ==
    /\ work = EmptyTree
    /\ index = EmptyTree
    /\ local = <<>>
    /\ remote = <<>>
    /\ call = [at |-> "idle", wanted |-> EmptyTree, touched |-> FALSE, revision |-> <<>>]
    /\ calls = 0
    /\ returned = {}
    /\ steps = 0

CallAt(at) == call.at = at

Proceed(at) == call' = [call EXCEPT !.at = at]

Dirty == {p \in Path : work[p] # index[p] \/ index[p] # TreeOf(local)[p]}
Staged == {p \in Path : index[p] # TreeOf(local)[p]}

-----------------------------------------------------------------------------
(* The task *)

(* The commands of the task write its files.                                 *)
Produce(p, content) ==
    /\ CallAt("idle") /\ calls < MaxCalls
    /\ p \in Covered
    /\ work' = [work EXCEPT ![p] = content]
    /\ UNCHANGED <<index, local, remote, call, calls, returned, steps>>

(* The destination is the pinned one, and private.                           *)
BeginCall ==
    /\ CallAt("idle") /\ calls < MaxCalls
    /\ Proceed("checking")
    /\ calls' = calls + 1
    /\ UNCHANGED <<work, index, local, remote, returned, steps>>

(* Unrelated dirt stops the call; with nothing dirty there is nothing to     *)
(* commit, but HEAD is pushed.                                               *)
CheckStatus ==
    /\ CallAt("checking")
    /\ Dirty \subseteq Covered
    /\ call' = [call EXCEPT !.at = IF Dirty = {} THEN "heading" ELSE "adding",
                            !.wanted = work, !.touched = FALSE]
    /\ UNCHANGED <<work, index, local, remote, calls, returned, steps>>

(* Faulty: what is dirty is taken to be staged.                              *)
AddNothing ==
    /\ CallAt("adding")
    /\ Proceed("inspecting")
    /\ UNCHANGED <<work, index, local, remote, calls, returned, steps>>

(* git add fails for a path that is not there and was never added.           *)
AddPaths ==
    /\ CallAt("adding")
    /\ \A p \in Covered : work[p] # Absent \/ index[p] # Absent
    /\ index' = [p \in Path |-> IF p \in Covered THEN work[p] ELSE index[p]]
    /\ Proceed("inspecting")
    /\ UNCHANGED <<work, local, remote, calls, returned, steps>>

InspectStaged ==
    /\ CallAt("inspecting")
    /\ Staged \subseteq Covered
    /\ Proceed(IF Staged = {} THEN "heading" ELSE "committing")
    /\ UNCHANGED <<work, index, local, remote, calls, returned, steps>>

(* Faulty: whatever is staged is committed.                                  *)
CommitIndex ==
    /\ CallAt("committing")
    /\ Staged # {}
    /\ local' = Append(local, [by |-> "task", tree |-> index])
    /\ Proceed("heading")
    /\ UNCHANGED <<work, index, remote, calls, returned, steps>>

(* The paths are committed as they are in the working tree, and nothing else *)
(* that is staged.                                                           *)
CommitPaths ==
    LET tree == [p \in Path |-> IF p \in Covered THEN work[p] ELSE TreeOf(local)[p]] IN
    /\ CallAt("committing")
    /\ tree # TreeOf(local)
    /\ local' = Append(local, [by |-> "task", tree |-> tree])
    /\ index' = [p \in Path |-> IF p \in Covered THEN work[p] ELSE index[p]]
    /\ Proceed("heading")
    /\ UNCHANGED <<work, remote, calls, returned, steps>>

ReadHead ==
    /\ CallAt("heading")
    /\ local # <<>>
    /\ call' = [call EXCEPT !.at = "pushing", !.revision = local]
    /\ UNCHANGED <<work, index, local, remote, calls, returned, steps>>

(* HEAD is pushed, whatever it is by now, if the branch can be moved forward *)
(* to it.                                                                    *)
Push ==
    /\ CallAt("pushing")
    /\ Extends(local, remote)
    /\ remote' = local
    /\ Proceed("verifying")
    /\ UNCHANGED <<work, index, local, calls, returned, steps>>

(* Faulty: a push that succeeded is enough.                                  *)
TrustPush ==
    /\ CallAt("verifying")
    /\ returned' = returned \cup {[wanted |-> call.wanted, touched |-> call.touched,
                                   revision |-> call.revision]}
    /\ Proceed("idle")
    /\ UNCHANGED <<work, index, local, remote, calls, steps>>

(* The branch is at the revision that was read.                              *)
VerifyRemote ==
    /\ CallAt("verifying")
    /\ remote = call.revision
    /\ returned' = returned \cup {[wanted |-> call.wanted, touched |-> call.touched,
                                   revision |-> call.revision]}
    /\ Proceed("idle")
    /\ UNCHANGED <<work, index, local, remote, calls, steps>>

(* A check fails, a command fails or the process is killed.                  *)
EndCall ==
    /\ ~CallAt("idle")
    /\ Proceed("idle")
    /\ UNCHANGED <<work, index, local, remote, calls, returned, steps>>

-----------------------------------------------------------------------------
(* What goes on beside *)

Beside == steps < MaxSteps /\ steps' = steps + 1

(* A change of the files of the task by others is remembered.                *)
Touch(changed) == call' = [call EXCEPT !.touched = @ \/ changed \cap Covered # {}]

Edit(p, content) ==
    /\ Beside
    /\ work' = [work EXCEPT ![p] = content]
    /\ Touch({p})
    /\ UNCHANGED <<index, local, remote, calls, returned>>

Stage(p) ==
    /\ Beside
    /\ index' = [index EXCEPT ![p] = work[p]]
    /\ UNCHANGED <<work, local, remote, call, calls, returned>>

CommitStaged ==
    /\ Beside
    /\ Staged # {}
    /\ local' = Append(local, [by |-> "person", tree |-> index])
    /\ UNCHANGED <<work, index, remote, call, calls, returned>>

(* The last commit, not pushed yet, is replaced by one of what is staged.    *)
Amend ==
    /\ Beside
    /\ Len(local) > Len(remote)
    /\ local' = [local EXCEPT ![Len(local)] = [by |-> "person", tree |-> index]]
    /\ UNCHANGED <<work, index, remote, call, calls, returned>>

PushElsewhere(p, content) ==
    /\ Beside
    /\ remote' = Append(remote, [by |-> "person", tree |-> [TreeOf(remote) EXCEPT ![p] = content]])
    /\ UNCHANGED <<work, index, local, call, calls, returned>>

(* A pull moves forward and leaves files alone that are not dirty.           *)
Pull ==
    LET changed == {p \in Path : TreeOf(remote)[p] # TreeOf(local)[p]} IN
    /\ Beside
    /\ Extends(remote, local)
    /\ changed \cap Dirty = {}
    /\ local' = remote
    /\ index' = [p \in Path |-> IF p \in changed THEN TreeOf(remote)[p] ELSE index[p]]
    /\ work' = [p \in Path |-> IF p \in changed THEN TreeOf(remote)[p] ELSE work[p]]
    /\ Touch(changed)
    /\ UNCHANGED <<remote, calls, returned>>

GitNext ==
    \/ \E p \in Path, content \in Content \cup {Absent} :
           Produce(p, content) \/ Edit(p, content) \/ PushElsewhere(p, content)
    \/ BeginCall \/ CheckStatus \/ AddPaths \/ InspectStaged \/ CommitPaths
    \/ ReadHead \/ Push \/ VerifyRemote \/ EndCall
    \/ \E p \in Path : Stage(p)
    \/ CommitStaged \/ Amend \/ Pull

GitSpec == GitInit /\ [][GitNext]_gitVars

-----------------------------------------------------------------------------
(* Properties                                                               *)

(* A commit of the task changes nothing outside its allowlist, whatever      *)
(* others stage or commit between the checks of the call and its commit.     *)
TaskCommitsAreConfined ==
    \A commits \in {local, remote} : \A i \in DOMAIN commits :
        commits[i].by = "task" =>
            \A p \in Path \ Covered :
                commits[i].tree[p] = TreeOf(SubSeq(commits, 1, i - 1))[p]

(* A revision that was returned is on the branch for good, although HEAD may *)
(* be amended before it is pushed.                                           *)
ReturnedIsPublished == \A r \in returned : Extends(remote, r.revision)

(* It holds the files of the task as they were when the call looked at them, *)
(* if others left those files alone, even if an earlier call was killed      *)
(* between two commands.                                                     *)
ReturnedHoldsTheWork ==
    \A r \in returned :
        ~r.touched => \A p \in Covered : TreeOf(r.revision)[p] = r.wanted[p]

-----------------------------------------------------------------------------
(* What the properties rest on                                              *)

(* Every variable has its type.                                             *)
GitTypeOK ==
    /\ work \in Tree /\ index \in Tree
    /\ local \in Seq(Commit) /\ remote \in Seq(Commit)
    /\ call \in [at : {"idle", "checking", "adding", "inspecting", "committing", "heading",
                       "pushing", "verifying"},
                 wanted : Tree, touched : BOOLEAN, revision : Seq(Commit)]
    /\ calls \in Nat /\ steps \in Nat
    /\ returned \subseteq [wanted : Tree, touched : BOOLEAN, revision : Seq(Commit)]

(* The paths of the task are in a tree as the call found them.              *)
Holding(tree) == \A p \in Covered : tree[p] = call.wanted[p]

(* While others leave the files of the task alone, they are as the call     *)
(* found them: in the working tree, after they were added in the index, and *)
(* then in HEAD, whoever committed them.                                    *)
WorkInv ==
    ~call.touched =>
        /\ call.at \in {"adding", "inspecting", "committing", "heading"} => Holding(work)
        /\ call.at \in {"inspecting", "committing", "heading"} => Holding(index)
        /\ call.at = "heading" => Holding(TreeOf(local))
        /\ call.at \in {"pushing", "verifying"} => Holding(TreeOf(call.revision))

GitInv ==
    /\ GitTypeOK /\ WorkInv
    /\ TaskCommitsAreConfined /\ ReturnedIsPublished /\ ReturnedHoldsTheWork
===============================================================================
