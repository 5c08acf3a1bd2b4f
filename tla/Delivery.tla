------------------------------ MODULE Delivery ------------------------------
(***************************************************************************)
(* Delivery of a verified work (deliver_run.py): past the policies it      *)
(* takes the branch of the run in the local work tree, stages the files of *)
(* the execution's receipts, commits, pushes, opens a draft pull request,  *)
(* comments on it, and records what became of it in a receipt file and a   *)
(* row of the table deliveries.                                            *)
(*                                                                         *)
(* A delivery is one call of deliver() by a queue worker or the CLI.  Its  *)
(* steps are its stages, each with the git commands or the request that it *)
(* makes; others that use the work tree may run between any two of them.   *)
(* A step that raises takes the call to its one except branch, which       *)
(* records FAILED.  Reads of the local repository do not fail.             *)
(***************************************************************************)
EXTENDS DeliveryPolicy

CONSTANTS
    Deliveries,    \* calls of deliver()
    Branches,
    Base,          \* the base branch, checked out at first
    BranchOf,      \* the branch of each work's run
    KeyOf,         \* the concurrency key of its delivery jobs, or None
    NewDir,        \* files of one directory that the base branch does not have
    Artifacts,     \* files of the directory that runs keep their artifacts in
    Original,      \* the content of a file in the base branch
    Planned,       \* the works whose planning runs create their branch
    Visited        \* the branches that others check out

ASSUME DeliveryAssumption ==
    /\ IsFiniteSet(Deliveries)
    /\ None \notin Works /\ None \notin Branches
    /\ Original \notin Works
    /\ Base \in Branches /\ BranchOf \in [Works -> Branches]
    /\ NewDir \subseteq Paths /\ Artifacts \subseteq Paths
    /\ Planned \subseteq Works /\ Visited \subseteq Branches

VARIABLES
    tree,       \* the files of the work tree
    index,      \* and of its index
    head,       \* the branch that is checked out
    branches,   \* the local branches: whether they exist, files and commits
    remote,     \* the commits of each branch that were pushed
    pulls,      \* the branches with an open pull request
    applied,    \* the works whose execution has run in the tree
    interrupted,\* history, that no action reads: see SwitchedUnder
    calls,      \* how far each delivery has come
    rows        \* the table deliveries

git == <<tree, index, head, branches>>
github == <<remote, pulls>>
others == <<applied, interrupted>>
vars == <<git, github, others, calls, rows>>

-----------------------------------------------------------------------------
Files == [Paths -> Works \cup {Original}]

(* Phases of a call: the step it takes next, or how it ended.              *)
Working == {"inspect", "branch", "stage", "commit", "push", "pull",
            "comment", "record"}
Ended == {"saved", "raised", "dead"}

CommitMade == [branch : Branches, paths : SUBSET Paths]

Call == [phase  : {"idle"} \cup Working \cup Ended,
         work   : Works \cup {None},
         commit : {None} \cup CommitMade,
         pull   : BOOLEAN,            \* knows of its pull request
         status : {"SUCCEEDED", "FAILED"}]

IdleCall == [phase |-> "idle", work |-> None, commit |-> None, pull |-> FALSE,
             status |-> "FAILED"]

Row == [status : {"SUCCEEDED", "FAILED"}, committed : BOOLEAN, pull : BOOLEAN]

ASSUME NoneAssumption == None \notin CommitMade \cup Row

Branch == [exists : BOOLEAN, files : Files, commits : SUBSET Deliveries]

TypeOK ==
    /\ tree \in Files /\ index \in Files
    /\ head \in Branches
    /\ branches \in [Branches -> Branch]
    /\ remote \in [Branches -> SUBSET Deliveries]
    /\ pulls \subseteq Branches
    /\ applied \subseteq Works /\ interrupted \subseteq Deliveries
    /\ calls \in [Deliveries -> Call]
    /\ rows \in [Deliveries -> Row \cup {None}]

NoFiles == [p \in Paths |-> Original]

Init ==
    /\ tree = NoFiles /\ index = NoFiles /\ head = Base
    /\ branches = [b \in Branches |->
                     [exists |-> b = Base, files |-> NoFiles, commits |-> {}]]
    /\ remote = [b \in Branches |-> {}] /\ pulls = {}
    /\ applied = {} /\ interrupted = {}
    /\ calls = [d \in Deliveries |-> IdleCall]
    /\ rows = [d \in Deliveries |-> None]

Underway(d) == calls[d].phase \in Working
At(d, phase) == calls[d].phase = phase
WorkOf(d) == calls[d].work

(* The call goes on to its next step, ends, or goes to the except branch.  *)
Proceed(d, phase) == calls' = [calls EXCEPT ![d].phase = phase]
End(d, phase) ==
    calls' = [calls EXCEPT ![d].phase = phase, ![d].pull = FALSE, ![d].status = "FAILED"]
Raise(d) == calls' = [calls EXCEPT ![d].phase = "record", ![d].status = "FAILED"]

-----------------------------------------------------------------------------
(* The gate.  A delivery job runs under its concurrency key.               *)

KeyHeld(w) == KeyOf[w] # None /\ \E d \in Deliveries :
                 Underway(d) /\ KeyOf[WorkOf(d)] = KeyOf[w]

(* granted: _ensure_delivery_approval finds an approval in force.          *)
MayDeliver(w, granted, protected) ==
    /\ Linked[w]
    /\ ~ApprovalBlocks(w) /\ (ApprovalRequired(w) => granted)
    /\ BranchOf[w] # Base
    /\ ~GovernanceBlocks(w, protected)
    /\ Changed[w] # {}

(* A request for the default branch or its protection may go unanswered.   *)
Begin(d, w) ==
    /\ At(d, "idle") /\ w \in applied /\ ~KeyHeld(w)
    /\ \E granted, protected, answered \in BOOLEAN :
         calls' = [calls EXCEPT ![d] =
            [IdleCall EXCEPT !.work = w,
               !.phase = IF answered /\ MayDeliver(w, granted, protected)
                         THEN "inspect" ELSE "record"]]
    /\ UNCHANGED <<git, github, others, rows>>

-----------------------------------------------------------------------------
(* The local work tree (local_repo.py).                                    *)

(* Slip: what is staged is compared with the base branch.                  *)
BaseFiles == branches[Base].files

HeadFiles == branches[head].files

(* git status: what differs from the commit that is checked out.  A        *)
(* directory with nothing tracked in it is one entry.                      *)
ChangedPaths == {p \in Paths : tree[p] # index[p] \/ index[p] # HeadFiles[p]}

StagedPaths == {p \in Paths : index[p] # HeadFiles[p]}
NewDirUntracked == \A p \in NewDir : HeadFiles[p] = Original /\ index[p] = Original

(* The entries that match no path of the receipts and are not under the    *)
(* artifact directory.  They are relative, and match no absolute path.     *)
UnexpectedPaths(w) ==
    LET expected == IF AbsoluteReceipts THEN {} ELSE Changed[w]
        Entry(p) == IF p \in NewDir /\ NewDirUntracked THEN NewDir ELSE {p}
    IN  {p \in ChangedPaths : Entry(p) \cap expected = {} /\ ~(Entry(p) \subseteq Artifacts)}

(* Slip: waits for others to clean the tree up.                            *)
InspectWaits(d) ==
    /\ At(d, "inspect") /\ UnexpectedPaths(WorkOf(d)) = {}
    /\ Proceed(d, "branch")
    /\ UNCHANGED <<git, github, others, rows>>

Inspect(d) ==
    /\ At(d, "inspect")
    /\ IF UnexpectedPaths(WorkOf(d)) = {} THEN Proceed(d, "branch") ELSE Raise(d)
    /\ UNCHANGED <<git, github, others, rows>>

(* git checkout -b: from whatever is checked out, with what is uncommitted. *)
NewBranch(b) ==
    /\ branches' = [branches EXCEPT ![b] = [branches[head] EXCEPT !.exists = TRUE]]
    /\ head' = b

(* Slip: the branch is created and not checked out.                        *)
TakeBranchUnswitched(d) ==
    LET b == BranchOf[WorkOf(d)] IN
    /\ At(d, "branch")
    /\ \/ head = b /\ Proceed(d, "stage") /\ UNCHANGED branches
       \/ head # b /\ branches[b].exists /\ Raise(d) /\ UNCHANGED branches
       \/ /\ head # b /\ ~branches[b].exists
          /\ branches' = [branches EXCEPT ![b] = [branches[head] EXCEPT !.exists = TRUE]]
          /\ Proceed(d, "stage")
    /\ UNCHANGED <<tree, index, head, github, others, rows>>

TakeBranch(d) ==
    LET b == BranchOf[WorkOf(d)] IN
    /\ At(d, "branch")
    /\ \/ head = b /\ Proceed(d, "stage") /\ UNCHANGED git
       \/ head # b /\ branches[b].exists /\ Raise(d) /\ UNCHANGED git
       \/ /\ head # b /\ ~branches[b].exists
          /\ NewBranch(b)
          /\ Proceed(d, "stage")
          /\ UNCHANGED <<tree, index>>
    /\ UNCHANGED <<github, others, rows>>

(* Slip: git add of everything.                                            *)
StageAll(d) ==
    /\ At(d, "stage")
    /\ index' = tree
    /\ IF \A p \in Changed[WorkOf(d)] : index'[p] # HeadFiles[p]
       THEN Proceed(d, "commit") ELSE Raise(d)
    /\ UNCHANGED <<tree, head, branches, github, others, rows>>

(* git add of the paths of the receipts, which must all be staged then.    *)
StagePaths(d) ==
    LET changed == Changed[WorkOf(d)] IN
    /\ At(d, "stage")
    /\ index' = [p \in Paths |-> IF p \in changed THEN tree[p] ELSE index[p]]
    /\ IF ~AbsoluteReceipts /\ \A p \in changed : index'[p] # HeadFiles[p]
       THEN Proceed(d, "commit") ELSE Raise(d)
    /\ UNCHANGED <<tree, head, branches, github, others, rows>>

Committed(d, b) ==
    /\ branches' = [branches EXCEPT ![b].files = index, ![b].commits = @ \cup {d}]
    /\ calls' = [calls EXCEPT ![d].phase = "push",
                              ![d].commit = [branch |-> b, paths |-> StagedPaths]]

(* git commit goes to the branch that is checked out by now; with nothing  *)
(* staged, or refused by a hook, it raises.                                *)
Commit(d) ==
    /\ At(d, "commit")
    /\ \/ StagedPaths # {} /\ Committed(d, head)
       \/ Raise(d) /\ UNCHANGED branches
    /\ UNCHANGED <<tree, index, head, github, others, rows>>

-----------------------------------------------------------------------------
(* The remote and the hosting service.  A push or a request may fail, and  *)
(* may fail after it took effect; so may the copies of the artifacts to    *)
(* the shared store that follow the push.                                  *)

Push(d) ==
    LET b == BranchOf[WorkOf(d)] IN
    /\ At(d, "push")
    /\ \/ /\ remote[b] \subseteq branches[b].commits
          /\ remote' = [remote EXCEPT ![b] = branches[b].commits]
          /\ Proceed(d, "pull") \/ Raise(d)
       \/ Raise(d) /\ UNCHANGED remote
    /\ UNCHANGED <<git, pulls, others, rows>>

(* Slip: that the request was refused is not noticed.                      *)
OpenPullRequestAnyway(d) ==
    LET b == BranchOf[WorkOf(d)] IN
    /\ At(d, "pull")
    /\ \/ remote[b] \ remote[Base] # {} /\ pulls' = pulls \cup {b}
       \/ UNCHANGED pulls
    /\ Proceed(d, "comment")
    /\ UNCHANGED <<git, remote, others, rows>>

(* A second pull request for a branch is refused, and one without commits. *)
OpenPullRequest(d) ==
    LET b == BranchOf[WorkOf(d)] IN
    /\ At(d, "pull")
    /\ \/ /\ b \notin pulls /\ remote[b] \ remote[Base] # {}
          /\ pulls' = pulls \cup {b}
          /\ \/ calls' = [calls EXCEPT ![d].phase = "comment", ![d].pull = TRUE]
             \/ Raise(d)
       \/ Raise(d) /\ UNCHANGED pulls
    /\ UNCHANGED <<git, remote, others, rows>>

(* Nothing here reads the comment.  It may be there once or more when this *)
(* raises; none is wanted unless publish_pr_comment.                       *)
Comment(d) ==
    /\ At(d, "comment")
    /\ \/ calls' = [calls EXCEPT ![d].phase = "record", ![d].status = "SUCCEEDED"]
       \/ Raise(d)
    /\ UNCHANGED <<git, github, others, rows>>

-----------------------------------------------------------------------------
(* _finalize: the receipt file, that nothing reads again, then the row.    *)
(* It runs inside the try: a failure to record a success is recorded as a  *)
(* failed delivery; one to record a failure is raised to the caller.       *)

RecordingFails(d) ==
    IF calls[d].status = "SUCCEEDED" THEN Raise(d) ELSE End(d, "raised")

(* Slip: the row holds the commit for the flag.                            *)
NewRowWithCommit(d) ==
    [status |-> calls[d].status, pull |-> calls[d].pull, committed |-> calls[d].commit]

(* Slip: the receipt of a failure forgets the commit.                      *)
NewRowOfSuccess(d) ==
    [status |-> calls[d].status, pull |-> calls[d].pull,
     committed |-> calls[d].status = "SUCCEEDED"]

NewRow(d) ==
    [status |-> calls[d].status, pull |-> calls[d].pull,
     committed |-> calls[d].commit # None]

Record(d) ==
    /\ At(d, "record")
    /\ \/ rows' = [rows EXCEPT ![d] = NewRow(d)] /\ End(d, "saved")
       \/ RecordingFails(d) /\ UNCHANGED rows
    /\ UNCHANGED <<git, github, others>>

Die(d) ==
    /\ Underway(d)
    /\ End(d, "dead")
    /\ UNCHANGED <<git, github, others, rows>>

-----------------------------------------------------------------------------
(* Others in the work tree, which nothing locks: an execution runs in it,  *)
(* or somebody changes files by hand, a work that nothing links; a branch  *)
(* is checked out, by a planning run or by hand, between any two steps.    *)

Apply(w) ==
    /\ w \notin applied
    /\ applied' = applied \cup {w}
    /\ tree' = [p \in Paths |-> IF p \in Changed[w] THEN w ELSE tree[p]]
    /\ UNCHANGED <<index, head, branches, github, interrupted, calls, rows>>

(* The deliveries that have looked at the branch and are yet to commit.    *)
SwitchedUnder ==
    interrupted' = interrupted \cup {d \in Deliveries : At(d, "stage") \/ At(d, "commit")}

(* A run planned with create_branch, before anything is executed of it.    *)
PlanBranch(w) ==
    /\ w \notin applied /\ ~branches[BranchOf[w]].exists
    /\ NewBranch(BranchOf[w])
    /\ SwitchedUnder
    /\ UNCHANGED <<tree, index, github, applied, calls, rows>>

(* git checkout: keeps what is uncommitted, and refuses where the branch   *)
(* has another file than the head for it.                                  *)
CheckOut(b) ==
    LET onto == branches[b].files
        Switched(p) == onto[p] # HeadFiles[p] /\ onto[p] # index[p]
    IN  /\ b # head /\ branches[b].exists
        /\ \A p \in Paths : Switched(p) => tree[p] = HeadFiles[p] /\ index[p] = HeadFiles[p]
        /\ tree' = [p \in Paths |-> IF Switched(p) THEN onto[p] ELSE tree[p]]
        /\ index' = [p \in Paths |-> IF Switched(p) THEN onto[p] ELSE index[p]]
        /\ head' = b
        /\ SwitchedUnder
        /\ UNCHANGED <<branches, github, applied, calls, rows>>

Step(d) ==
    \/ Inspect(d) \/ TakeBranch(d) \/ StagePaths(d) \/ Commit(d) \/ Push(d)
    \/ OpenPullRequest(d) \/ Comment(d)
    \/ Record(d)

Next ==
    \/ \E d \in Deliveries, w \in Works : Begin(d, w)
    \/ \E d \in Deliveries : Step(d) \/ Die(d)
    \/ \E w \in Works : Apply(w)
    \/ \E w \in Planned : PlanBranch(w)
    \/ \E b \in Visited : CheckOut(b)

(* A call that is not dead goes on by itself: requests time out, and git   *)
(* commands, which have no timeout, end.                                   *)
Spec == Init /\ [][Next]_vars /\ \A d \in Deliveries : WF_vars(Step(d))

-----------------------------------------------------------------------------
(* Properties.                                                             *)

(* Nothing but artifacts gets into a commit that is not in the receipts of *)
(* a work that the gate lets pass, and it goes to the branch of one unless *)
(* another was checked out under the delivery.  Only deliveries that       *)
(* another key, or none, lets run beside it may add their files to a       *)
(* commit, or have it on their branch: what a dead or failed delivery left *)
(* in the index, and what people edit meanwhile, does not get in.          *)
Passable == {w \in Works : MayDeliver(w, TRUE, TRUE)}

Beside(d) == {e \in Deliveries :
    /\ WorkOf(e) \in Passable
    /\ e = d \/ KeyOf[WorkOf(e)] = None \/ KeyOf[WorkOf(e)] # KeyOf[WorkOf(d)]}

CommitsReceiptsOnly ==
    \A d \in Deliveries : calls[d].commit # None =>
        /\ calls[d].commit.paths \ Artifacts
             \subseteq UNION {Changed[WorkOf(e)] : e \in Beside(d)}
        /\ d \notin interrupted =>
             calls[d].commit.branch \in {BranchOf[WorkOf(e)] : e \in Beside(d)}

(* However often a work is delivered under its concurrency key, by retries *)
(* of a job that failed, or died, after the commit or by a second job, it  *)
(* is committed once, and again only where something else has written to   *)
(* its files.  Without a key two deliveries of a work may both have staged *)
(* it: the second commits whatever others have staged since.               *)
OverwrittenBy(w) == {v \in applied \ {w} : Changed[v] \cap Changed[w] # {}}

OneCommitPerWork ==
    \A w \in Works : KeyOf[w] # None =>
        Cardinality({d \in Deliveries : WorkOf(d) = w /\ calls[d].commit # None})
            <= 1 + Cardinality(OverwrittenBy(w))

(* No delivery pushes the base branch or opens a pull request from it,     *)
(* whoever checks out what meanwhile.  The local base branch gets a commit *)
(* only of a delivery under which somebody checked out a branch, after it  *)
(* had looked at it (deliver_run.py:217-223) and before its commit (237):  *)
(* other deliveries that take their branches at any time put none there.   *)
BaseUntouched ==
    /\ remote[Base] = {} /\ Base \notin pulls
    /\ branches[Base].commits \subseteq interrupted

(* The row of a delivery, failed or not, tells the commit it left behind   *)
(* in the work tree, and a pull request it knows of is open.               *)
RowsTellCommits ==
    \A d \in Deliveries : rows[d] # None =>
        /\ rows[d].committed = \E b \in Branches : d \in branches[b].commits
        /\ rows[d].pull => BranchOf[WorkOf(d)] \in pulls

(* Of two works the one with more to worry about never needs fewer         *)
(* approvals, if more is also said of its receipts: they are counted, so   *)
(* that a work that changes one file often may need more approvals than    *)
(* one that changes this file and others once.                             *)
AsRisky(v, w) ==
    /\ Labels[w] \subseteq Labels[v] /\ Changed[w] \subseteq Changed[v]
    /\ Len(Receipts[w]) <= Len(Receipts[v])
    /\ Decisions[w] \subseteq Decisions[v]
    /\ Attempts[w] <= Attempts[v] /\ (Skipped[w] => Skipped[v])

NoRiskWaved ==
    \A d \in Deliveries : calls[d].phase \in Working =>
        \A w \in Works : AsRisky(WorkOf(d), w)
            => RequiredApprovals(w) <= RequiredApprovals(WorkOf(d))

(* Every delivery that began is recorded, raises to its caller, or is dead. *)
EveryDeliveryEnds ==
    <>[](\A d \in Deliveries : At(d, "idle") \/ calls[d].phase \in Ended)

(* What the README says of delivery: it "checks the current workspace for  *)
(* unexpected changes".  Where the tree differs from its branch by nothing *)
(* but the files of the receipts, none is found.  The code records those   *)
(* files by their absolute paths (mutator.py) and finds all of them.       *)
RefusedForOthersOnly ==
    \A d \in Deliveries :
        At(d, "inspect") /\ ChangedPaths \subseteq Changed[WorkOf(d)]
            => UnexpectedPaths(WorkOf(d)) = {}

-----------------------------------------------------------------------------
(* Deliveries implement Handoff, but for those whose commit another that   *)
(* ran beside them has diverted to its own branch: the pull request that   *)
(* they record may be of older commits.                                    *)

OnOwnBranch(d) == calls[d].commit # None /\ calls[d].commit.branch = BranchOf[WorkOf(d)]

Successes ==
    {d \in Deliveries : rows[d] # None /\ rows[d].status = "SUCCEEDED" /\ OnOwnBranch(d)}

Reviewers == INSTANCE Handoff WITH Commits <- Deliveries,
    shared <- remote, proposed <- pulls, recorded <- Successes

ImplementsHandoff == Reviewers!Spec

=============================================================================
