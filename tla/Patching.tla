------------------------------ MODULE Patching ------------------------------
(***************************************************************************)
(* From a planning run to a verified work tree: runs are planned           *)
(* (plan_issue_to_pr.py), patches generated (generate_patch_proposal.py),  *)
(* applied operation by operation (execute_patch_proposal.py) and verified *)
(* command by command (verify_run.py), one at a time or in the bounded     *)
(* loop of autofix (run_autofix.py), in the repository's own work tree or  *)
(* in a sandbox (manage_sandbox.py, infrastructure/sandbox/local.py).      *)
(*                                                                         *)
(* A call is one use of the CLI, the API or a queue worker.  Its steps are *)
(* the operations, commands and saves it makes, one at a time; calls in    *)
(* other processes run between any two of them.  A save writes a file that *)
(* nothing reads again, then the row; a save that fails leaves no row.     *)
(***************************************************************************)
EXTENDS Planning

CONSTANTS
    Calls,
    KindsOf,       \* what each call may be: autofix, patch or verify
    Sandboxed,     \* the calls that prepare a sandbox of their own first
    PatchesOf,     \* the proposals that each may be about: [id, ops]
    Runs,
    Drafts,        \* the plans a planner may come up with
    Texts,         \* a file is a sequence of texts
    BaseFiles,     \* the files of the commit that is checked out
    Large,         \* files over the size limit of the executor
    Uncopied,      \* symbolic links and files over the limit of a sandbox
    Needs,         \* the texts a command needs in files in order to pass
    MaxAttempts, VerifyMaxAttempts,
    Repo,          \* the repository's own work tree
    Absent, None

Commands == DOMAIN Needs
Op == [type : {"write_file", "append_text", "replace_text"}, path : Paths,
       find : Texts \cup {None}, text : Texts, overwrite : BOOLEAN]
Patches == UNION {PatchesOf[c] : c \in Calls}
Ids == {patch.id : patch \in Patches}

ASSUME PatchingAssumption ==
    /\ KindsOf \in [Calls -> SUBSET {"autofix", "patch", "verify"}]
    /\ Sandboxed \subseteq Calls /\ \A c \in Sandboxed : "verify" \notin KindsOf[c]
    /\ DOMAIN PatchesOf = Calls /\ Patches \subseteq [id : Ids, ops : Seq(Op)]
    /\ BaseFiles \in [Paths -> {Absent} \cup Seq(Texts)]
    /\ Drafts \subseteq [files : Seq(Paths), tests : Seq(Commands)]
    /\ {Pytest, Unittest} \subseteq Commands
    /\ Repo \notin Calls /\ MaxAttempts \in Nat \ {0} /\ VerifyMaxAttempts \in Nat \ {0}

VARIABLES
    trees,          \* the files of each place: the repository, a call's sandbox
    runs, proposals, executions, verifications, attempts, autofixes, sandboxes,
                    \* the tables, by run, proposal and call
    removed,        \* the sandboxes whose workspace was removed
    calls           \* how far each call has come

tables == <<runs, proposals, executions, verifications, attempts, autofixes, sandboxes>>
vars == <<trees, tables, removed, calls>>

-----------------------------------------------------------------------------
Places == {Repo} \cup Sandboxed
Numbers == 1..MaxAttempts
Outcome == {"SUCCEEDED", "FAILED"}
Reasons == {"success", "no_candidate_commands", "no_allowed_commands", "execution_error",
            "candidate_commands_exhausted", "max_attempts_reached"}

Begun == {"prepare", "start", "generate", "apply", "execution", "verify", "verification",
          "attempt", "save", "use"}
Ended == {"done", "gone"}

Modes == {"apply", "dry_run"}
OrNone(S) == S \cup {None}
Found(r) == r # None /\ runs[r] # None
Exists(tree) == \E p \in Paths : tree[p] # Absent
Nothing == [p \in Paths |-> Absent]

Tree == [Paths -> {Absent} \cup Seq(Texts)]
Run == [status : Outcome, plan : [files : Seq(Paths), tests : Seq(Commands)],
        context : [ranked : Seq(Paths), suggested : Seq(Commands)]]
Proposal == [run : Runs, ops : {patch.ops : patch \in Patches}]
Execution == [status : Outcome, mode : Modes, run : OrNone(Runs), proposal : Ids,
              place : Places, changed : SUBSET Paths]
Verification == [status : Outcome, reason : Reasons, run : Runs, place : Places,
                 execution : OrNone(Calls \X Numbers)]
Attempt == [status : Outcome, proposal : OrNone(Ids), execution : OrNone(Numbers),
            verification : OrNone(Numbers)]
Autofix == [status : Outcome \cup {"RUNNING"}, proposal : OrNone(Ids),
            execution : OrNone(Numbers), verification : OrNone(Numbers)]
Sandbox == [status : {"PREPARED", "USED", "CLEANED_UP", "FAILED"}, autofix : BOOLEAN,
            execution : BOOLEAN]

Latest == [proposal : OrNone(Ids), execution : OrNone(Numbers),
           verification : OrNone(Numbers)]

Call == [phase : {"idle"} \cup Begun \cup Ended, kind : {"autofix", "patch", "verify"},
         mode : Modes, place : Places, run : OrNone(Runs),
         number : Numbers,                   \* of the attempt
         patch : OrNone(Patches), next : Nat,    \* the operation that is next
         changed : SUBSET Paths,             \* by the receipts so far
         target : OrNone(Calls \X Numbers),  \* the execution to verify
         ran : 0..VerifyMaxAttempts,         \* commands, so far
         status : Outcome, reason : OrNone(Reasons),
         try : Attempt,                      \* what the attempt has come to
         latest : Latest]                    \* ids, of whichever attempts

ASSUME NoneAssumption ==
    /\ None \notin Runs /\ None \notin Ids /\ None \notin Numbers /\ None \notin Reasons
    /\ None \notin Calls \X Numbers /\ None \notin Patches /\ None \notin Drafts
    /\ None \notin Run /\ None \notin Proposal /\ None \notin Execution
    /\ None \notin Verification /\ None \notin Autofix /\ None \notin Sandbox
    /\ Absent \notin Seq(Texts)

NoIds == [proposal |-> None, execution |-> None, verification |-> None]
NoTry == [status |-> "FAILED", proposal |-> None, execution |-> None, verification |-> None]
IdleCall == [phase |-> "idle", kind |-> "autofix", mode |-> "apply", place |-> Repo,
             run |-> None, number |-> 1, patch |-> None, next |-> 1, changed |-> {},
             target |-> None, ran |-> 0, status |-> "SUCCEEDED", reason |-> None,
             try |-> NoTry, latest |-> NoIds]

TypeOK ==
    /\ trees \in [Places -> Tree]
    /\ runs \in [Runs -> OrNone(Run)]
    /\ proposals \in [Ids -> OrNone(Proposal)]
    /\ executions \in [Calls -> [Numbers -> OrNone(Execution)]]
    /\ verifications \in [Calls -> [Numbers -> OrNone(Verification)]]
    /\ attempts \in [Calls -> Seq(Attempt)]
    /\ autofixes \in [Calls -> OrNone(Autofix)]
    /\ sandboxes \in [Calls -> OrNone(Sandbox)]
    /\ removed \subseteq Sandboxed
    /\ calls \in [Calls -> Call]

Init ==
    /\ trees = [s \in Places |-> IF s = Repo THEN BaseFiles ELSE Nothing]
    /\ runs = [r \in Runs |-> None] /\ proposals = [i \in Ids |-> None]
    /\ executions = [c \in Calls |-> [n \in Numbers |-> None]]
    /\ verifications = executions
    /\ attempts = [c \in Calls |-> <<>>]
    /\ autofixes = [c \in Calls |-> None] /\ sandboxes = autofixes
    /\ removed = {}
    /\ calls = [c \in Calls |-> IdleCall]

At(c, phase) == calls[c].phase = phase
Underway(c) == calls[c].phase \in Begun

(* The call goes on with another record, or is over: done, or gone with an *)
(* error for its caller or with its process.  What it knew is gone with it *)
(* then, and kept here to tell.                                            *)
Becomes(c, call) == calls' = [calls EXCEPT ![c] = call]
Continue(c, phase) == Becomes(c, [calls[c] EXCEPT !.phase = phase])
Over(c, phase) == [IdleCall EXCEPT !.phase = phase, !.kind = calls[c].kind,
    !.mode = calls[c].mode, !.place = calls[c].place, !.run = calls[c].run]
Done(c) == Becomes(c, Over(c, "done"))
Gone(c) == Becomes(c, [Over(c, "gone") EXCEPT !.changed = calls[c].changed, !.try = calls[c].try])
Finish(c) == IF c \in Sandboxed THEN Continue(c, "use") ELSE Done(c)

-----------------------------------------------------------------------------
(* Planning.  A draft is a plan of the model, or that of the heuristic.    *)

Tracked == {p \in Paths : BaseFiles[p] # Absent /\ trees[Repo][p] # Absent}

PlannedRun(draft) ==
    LET snapshot == Snapshot(Tracked)
        context == Context(snapshot)
        plan == IF draft = None THEN HeuristicPlan(snapshot, context) ELSE draft
    IN  [status |-> "SUCCEEDED", plan |-> Normalized(plan, snapshot, context),
         context |-> context]

(* The payload of a failed run has neither a plan nor a context.           *)
FailedRun == [status |-> "FAILED", plan |-> [files |-> <<>>, tests |-> <<>>],
              context |-> [ranked |-> <<>>, suggested |-> <<>>]]

Plan(r) ==
    /\ runs[r] = None
    /\ \E row \in {PlannedRun(draft) : draft \in OrNone(Drafts)} \cup {FailedRun} :
         runs' = [runs EXCEPT ![r] = row]
    /\ UNCHANGED <<trees, proposals, executions, verifications, attempts, autofixes,
                   sandboxes, removed, calls>>

AllowedOf(r) ==
    IF Found(r) THEN ToSet(runs[r].plan.files) \cup ToSet(runs[r].context.ranked) ELSE {}

-----------------------------------------------------------------------------
(* A call begins, in the repository or in a sandbox: one of its own, or    *)
(* for a patch or a verification one that is there, in whatever state.     *)

PlacesFor(c, kind) ==
    IF c \in Sandboxed THEN {c}
    ELSE IF kind = "autofix" THEN {Repo}
    ELSE {Repo} \cup {s \in Sandboxed : sandboxes[s] # None}

FirstPhase(c, kind) ==
    CASE c \in Sandboxed -> "prepare"
      [] c \notin Sandboxed /\ kind = "autofix" -> "start"
      [] c \notin Sandboxed /\ kind = "patch" -> "apply"
      [] kind = "verify" -> "verify"

NewCall(c, kind, s, r) ==
    [IdleCall EXCEPT !.phase = FirstPhase(c, kind), !.kind = kind, !.place = s, !.run = r]

BeginAutofix(c, s, r) == Becomes(c, NewCall(c, "autofix", s, r))

(* The patch is a file or a stored proposal, linked to a run or to none;   *)
(* one without operations is refused.                                      *)
BeginPatch(c, s) ==
    \E patch \in PatchesOf[c], mode \in Modes, r \in OrNone(Runs) :
        /\ patch.ops # <<>> /\ (r = None \/ Found(r))
        /\ Becomes(c, [NewCall(c, "patch", s, r) EXCEPT !.patch = patch, !.mode = mode])

(* A run is verified, or an execution that is linked to one.               *)
BeginVerify(c, s) ==
    \/ \E r \in Runs : Found(r) /\ Becomes(c, NewCall(c, "verify", s, r))
    \/ \E e \in Calls, n \in Numbers :
         /\ executions[e][n] # None /\ Found(executions[e][n].run)
         /\ Becomes(c, [NewCall(c, "verify", s, executions[e][n].run) EXCEPT
                          !.target = <<e, n>>])

Begin(c) ==
    /\ At(c, "idle")
    /\ \E kind \in KindsOf[c] : \E s \in PlacesFor(c, kind) :
         \/ kind = "autofix" /\ \E r \in Runs : BeginAutofix(c, s, r)
         \/ kind = "patch" /\ BeginPatch(c, s)
         \/ kind = "verify" /\ BeginVerify(c, s)
    /\ UNCHANGED <<trees, tables, removed>>

-----------------------------------------------------------------------------
(* Sandboxes.                                                              *)

(* A clone of the commit, or of a work tree with changes a copy that       *)
(* leaves symbolic links and oversized files out.                          *)
Materialized ==
    IF trees[Repo] = BaseFiles THEN BaseFiles
    ELSE [p \in Paths |-> IF p \in Uncopied THEN Absent ELSE trees[Repo][p]]

NewSandbox(status) == [status |-> status, autofix |-> FALSE, execution |-> FALSE]

AfterPrepare(c) == IF calls[c].kind = "autofix" THEN "start" ELSE "apply"

Prepare(c) ==
    /\ At(c, "prepare")
    /\ \/ /\ trees' = [trees EXCEPT ![c] = Materialized]
          /\ sandboxes' = [sandboxes EXCEPT ![c] = NewSandbox("PREPARED")]
          /\ Continue(c, AfterPrepare(c))
       \/ /\ trees' \in {trees, [trees EXCEPT ![c] = Materialized]}
          /\ sandboxes' \in {sandboxes, [sandboxes EXCEPT ![c] = NewSandbox("FAILED")]}
          /\ Gone(c)
    /\ UNCHANGED <<runs, proposals, executions, verifications, attempts, autofixes, removed>>

(* mark_used, whatever has become of the sandbox meanwhile.                *)
MarkUsed(c) ==
    /\ At(c, "use")
    /\ \/ /\ sandboxes' = [sandboxes EXCEPT ![c] =
                [status |-> "USED", autofix |-> calls[c].kind = "autofix",
                 execution |-> calls[c].kind = "patch"]]
          /\ Done(c)
       \/ Gone(c) /\ UNCHANGED sandboxes
    /\ UNCHANGED <<trees, runs, proposals, executions, verifications, attempts, autofixes,
                   removed>>

(* An operator cleans a sandbox up at any time.                            *)
CleanUp(s) ==
    /\ sandboxes[s] # None
    /\ sandboxes' = [sandboxes EXCEPT ![s].status = "CLEANED_UP"]
    /\ trees' = [trees EXCEPT ![s] = Nothing] /\ removed' = removed \cup {s}
    /\ UNCHANGED <<runs, proposals, executions, verifications, attempts, autofixes, calls>>

-----------------------------------------------------------------------------
(* Autofix: the row first, then the attempts.                              *)

AutofixRow(status, ids) ==
    [status |-> status, proposal |-> ids.proposal, execution |-> ids.execution,
     verification |-> ids.verification]

Start(c) ==
    /\ At(c, "start")
    /\ \/ /\ Found(calls[c].run)
          /\ autofixes' = [autofixes EXCEPT ![c] = AutofixRow("RUNNING", NoIds)]
          /\ Continue(c, "generate")
       \/ Gone(c) /\ UNCHANGED autofixes
    /\ UNCHANGED <<trees, runs, proposals, executions, verifications, attempts, sandboxes,
                   removed>>

FailAttempt(c) == Becomes(c, [calls[c] EXCEPT !.phase = "attempt", !.try.status = "FAILED"])

(* The files the patcher is shown; without one there is no proposal.       *)
Shown(c) == {p \in AllowedOf(calls[c].run) : trees[calls[c].place][p] # Absent}

MayGenerate(c, patch) ==
    /\ runs[calls[c].run].status = "SUCCEEDED" /\ Shown(c) # {}
    /\ patch.ops # <<>>
    /\ \A i \in DOMAIN patch.ops : MayPropose(patch.ops[i], AllowedOf(calls[c].run))

(* A proposal has the id the patcher gave it.                              *)
Generate(c) ==
    /\ At(c, "generate")
    /\ \/ \E patch \in PatchesOf[c] :
            /\ MayGenerate(c, patch)
            /\ proposals' = [proposals EXCEPT ![patch.id] =
                               [run |-> calls[c].run, ops |-> patch.ops]]
            /\ Becomes(c, [calls[c] EXCEPT !.phase = "apply", !.patch = patch,
                             !.try.proposal = patch.id, !.latest.proposal = patch.id])
       \/ FailAttempt(c) /\ UNCHANGED proposals
    /\ UNCHANGED <<trees, runs, executions, verifications, attempts, autofixes, sandboxes,
                   removed>>

-----------------------------------------------------------------------------
(* Execution, operation by operation.                                      *)

Occurrences(content, text) == Cardinality({i \in DOMAIN content : content[i] = text})

(* Slip: existing files are not held against the plan.                     *)
PermittedAnywhere(op, content, allowed) ==
    /\ content = Absent => op.type = "write_file"
    /\ content # Absent /\ op.type = "write_file" => op.overwrite
    /\ op.type = "replace_text" => Occurrences(content, op.find) = 1

(* The guardrails, with the paths of the linked run if it has any.         *)
Permitted(op, content, allowed) ==
    /\ IF content = Absent
       THEN op.type = "write_file" /\ (allowed # {} => MayCreate(op.path, allowed))
       ELSE /\ allowed # {} => op.path \in allowed
            /\ op.path \notin Large
            /\ op.type = "write_file" => op.overwrite
    /\ op.type = "replace_text" => Occurrences(content, op.find) = 1

AfterText(op, content) ==
    CASE op.type = "write_file" -> <<op.text>>
      [] op.type = "append_text" -> Append(content, op.text)
      [] op.type = "replace_text" ->
           [i \in DOMAIN content |-> IF content[i] = op.find THEN op.text ELSE content[i]]

Operation(c) == calls[c].patch.ops[calls[c].next]

(* One operation; what it changed, by its receipt, it changed in the tree  *)
(* unless this is a dry run.                                               *)
Mutate(c) ==
    LET op == Operation(c)
        tree == trees[calls[c].place]
        after == AfterText(op, tree[op.path])
    IN  /\ Permitted(op, tree[op.path], AllowedOf(calls[c].run))
        /\ trees' = IF calls[c].mode = "apply"
                    THEN [trees EXCEPT ![calls[c].place][op.path] = after] ELSE trees
        /\ Becomes(c, [calls[c] EXCEPT
             !.changed = IF after # tree[op.path] THEN @ \cup {op.path} ELSE @,
             !.next = @ + 1,
             !.phase = IF calls[c].next = Len(calls[c].patch.ops) THEN "execution" ELSE "apply",
             !.status = "SUCCEEDED"])

FailExecution(c) == Becomes(c, [calls[c] EXCEPT !.phase = "execution", !.status = "FAILED"])

Apply(c) ==
    /\ At(c, "apply")
    /\ Mutate(c) \/ (FailExecution(c) /\ UNCHANGED trees)
    /\ UNCHANGED <<tables, removed>>

(* Slip: the receipts of a failed execution are left out.                  *)
NewExecutionOfSuccess(c) ==
    [status |-> calls[c].status, mode |-> calls[c].mode, run |-> calls[c].run,
     proposal |-> calls[c].patch.id, place |-> calls[c].place,
     changed |-> IF calls[c].status = "SUCCEEDED" THEN calls[c].changed ELSE {}]

NewExecution(c) ==
    [status |-> calls[c].status, mode |-> calls[c].mode, run |-> calls[c].run,
     proposal |-> calls[c].patch.id, place |-> calls[c].place, changed |-> calls[c].changed]

(* What the caller does with the result of the execution.                  *)
Executed(c) ==
    LET n == calls[c].number
        call == [calls[c] EXCEPT !.next = 1, !.changed = {}]
    IN  IF calls[c].kind = "patch" THEN Finish(c)
        ELSE Becomes(c, [call EXCEPT
               !.phase = IF call.status = "SUCCEEDED" THEN "verify" ELSE "attempt",
               !.target = <<c, n>>, !.try.execution = n, !.latest.execution = n])

(* The record of a success may fail to be saved: the execution is recorded *)
(* as failed then, and without a record when that fails too.               *)
SaveExecution(c) ==
    /\ At(c, "execution")
    /\ \/ /\ executions' = [executions EXCEPT ![c][calls[c].number] = NewExecution(c)]
          /\ Executed(c)
       \/ calls[c].status = "SUCCEEDED" /\ FailExecution(c) /\ UNCHANGED executions
       \/ /\ calls[c].status = "FAILED" /\ UNCHANGED executions
          /\ IF calls[c].kind = "patch" THEN Gone(c)
             ELSE Becomes(c, [calls[c] EXCEPT !.phase = "attempt", !.next = 1, !.changed = {}])
    /\ UNCHANGED <<trees, runs, proposals, verifications, attempts, autofixes, sandboxes,
                   removed>>

-----------------------------------------------------------------------------
(* Verification.                                                           *)

Passes(command, tree) == \A need \in Needs[command] :
    tree[need.path] # Absent /\ Contains(tree[need.path], need.text)

CommandsOf(r) ==
    First(AllowedCandidates(runs[r].plan, runs[r].context), VerifyMaxAttempts)

Verified(c, status, reason) ==
    Becomes(c, [calls[c] EXCEPT !.phase = "verification", !.status = status, !.reason = reason])

NoCommand(c) ==
    LET row == runs[calls[c].run] IN
    /\ CommandsOf(calls[c].run) = <<>>
    /\ Verified(c, "FAILED",
         IF Candidates(row.plan, row.context) = <<>> THEN "no_candidate_commands"
         ELSE "no_allowed_commands")

(* Why no further command is run.                                          *)
LastReason(ran) ==
    IF ran >= VerifyMaxAttempts THEN "max_attempts_reached" ELSE "candidate_commands_exhausted"

(* The next command; the first that passes is enough.                      *)
RunCommand(c) ==
    LET commands == CommandsOf(calls[c].run)
        tree == trees[calls[c].place]
        ran == calls[c].ran + 1
    IN  /\ commands # <<>> /\ Exists(tree)
        /\ IF Passes(commands[ran], tree) THEN Verified(c, "SUCCEEDED", "success")
           ELSE IF ran = Len(commands) THEN Verified(c, "FAILED", LastReason(ran))
           ELSE Becomes(c, [calls[c] EXCEPT !.ran = ran])

(* A command times out, or cannot be run.                                  *)
CommandRaises(c) ==
    CommandsOf(calls[c].run) # <<>> /\ Verified(c, "FAILED", "execution_error")

Verify(c) ==
    /\ At(c, "verify")
    /\ NoCommand(c) \/ RunCommand(c) \/ CommandRaises(c)
    /\ UNCHANGED <<trees, tables, removed>>

NewVerification(c) ==
    [status |-> calls[c].status, reason |-> calls[c].reason, run |-> calls[c].run,
     place |-> calls[c].place, execution |-> calls[c].target]

(* Slip: a verification whose save fails is run again.                     *)
VerificationUnsavedRetried(c) == Becomes(c, [calls[c] EXCEPT !.phase = "verify", !.ran = 0])

(* The attempt of a loop has failed then; the caller of another call is    *)
(* told.                                                                   *)
VerificationUnsaved(c) ==
    IF calls[c].kind = "verify" THEN Gone(c)
    ELSE Becomes(c, [calls[c] EXCEPT !.phase = "attempt", !.ran = 0, !.reason = None])

VerificationSaved(c) ==
    IF calls[c].kind = "verify" THEN Finish(c)
    ELSE LET n == calls[c].number IN
         Becomes(c, [calls[c] EXCEPT !.phase = "attempt", !.ran = 0, !.reason = None,
             !.try.status = calls[c].status, !.try.verification = n,
             !.latest.verification = n])

SaveVerification(c) ==
    /\ At(c, "verification")
    /\ \/ /\ verifications' =
               [verifications EXCEPT ![c][calls[c].number] = NewVerification(c)]
          /\ VerificationSaved(c)
       \/ VerificationUnsaved(c) /\ UNCHANGED verifications
    /\ UNCHANGED <<trees, runs, proposals, executions, attempts, autofixes, sandboxes, removed>>

-----------------------------------------------------------------------------
(* The end of an attempt.  These saves are outside of any try: one that    *)
(* fails is raised to the caller, with the row of the loop still RUNNING.  *)

SaveAttempt(c) ==
    /\ At(c, "attempt")
    /\ \/ /\ attempts' = [attempts EXCEPT ![c] = Append(@, calls[c].try)]
          /\ Becomes(c, [calls[c] EXCEPT !.phase = "save", !.target = None, !.patch = None,
                                         !.status = "SUCCEEDED"])
       \/ Gone(c) /\ UNCHANGED attempts
    /\ UNCHANGED <<trees, runs, proposals, executions, verifications, autofixes, sandboxes,
                   removed>>

(* Slip: one attempt too many.                                             *)
HasRemainingOfMore(c) == calls[c].number <= MaxAttempts

HasRemaining(c) == calls[c].number < MaxAttempts

(* Slip: an attempt without a proposal does not count.                     *)
NextAttemptUncounted(c) ==
    [calls[c] EXCEPT !.phase = "generate", !.try = NoTry,
       !.number = IF calls[c].try.proposal = None THEN @ ELSE @ + 1]

NextAttempt(c) ==
    [calls[c] EXCEPT !.phase = "generate", !.try = NoTry, !.number = @ + 1]

AutofixStatus(c) ==
    CASE calls[c].try.status = "SUCCEEDED" -> "SUCCEEDED"
      [] calls[c].try.status = "FAILED" /\ HasRemaining(c) -> "RUNNING"
      [] OTHER -> "FAILED"

(* The latest ids, which may be those of different attempts.               *)
NewAutofix(c) == AutofixRow(AutofixStatus(c), calls[c].latest)

SaveAutofix(c) ==
    /\ At(c, "save")
    /\ \/ /\ autofixes' = [autofixes EXCEPT ![c] = NewAutofix(c)]
          /\ IF AutofixStatus(c) = "RUNNING" THEN Becomes(c, NextAttempt(c))
             ELSE Finish(c)
       \/ Gone(c) /\ UNCHANGED autofixes
    /\ UNCHANGED <<trees, runs, proposals, executions, verifications, attempts, sandboxes,
                   removed>>

Die(c) ==
    /\ Underway(c)
    /\ Gone(c)
    /\ UNCHANGED <<trees, tables, removed>>

-----------------------------------------------------------------------------
Step(c) ==
    \/ Prepare(c) \/ Start(c) \/ Generate(c) \/ Apply(c) \/ SaveExecution(c)
    \/ Verify(c) \/ SaveVerification(c) \/ SaveAttempt(c) \/ SaveAutofix(c) \/ MarkUsed(c)

Next ==
    \/ \E r \in Runs : Plan(r)
    \/ \E c \in Calls : Begin(c) \/ Step(c) \/ Die(c)
    \/ \E s \in Sandboxed : CleanUp(s)

(* A call that is not dead goes on by itself: requests and commands time   *)
(* out, saves end.                                                         *)
Spec == Init /\ [][Next]_vars /\ \A c \in Calls : WF_vars(Step(c))

-----------------------------------------------------------------------------
(* Properties.                                                             *)

Users(s) == {c \in Calls : ~At(c, "idle") /\ calls[c].place = s}

(* When autofix has succeeded, a command of the plan or its context that   *)
(* the policy allows passes in the tree that it leaves behind, unless      *)
(* others work in the same place or its sandbox was removed.               *)
VerifiedAsLeft ==
    \A c \in Calls :
        /\ autofixes[c] # None /\ autofixes[c].status = "SUCCEEDED"
        /\ \A d \in Users(calls[c].place) : d = c \/ calls[d].kind = "verify"
        /\ calls[c].place \notin removed
        => LET row == runs[calls[c].run] IN
           \E command \in ToSet(Candidates(row.plan, row.context)) :
              Decision(command) = "allow" /\ Passes(command, trees[calls[c].place])

(* Whatever was changed can be told from the records: a file that differs  *)
(* from the commit is in the receipts of an execution in that place,       *)
(* failed ones included, of one underway there or dead, or was changed in  *)
(* the repository when the sandbox was made.  An attempt whose execution   *)
(* left no record still names the proposal that it applied: but the id is  *)
(* the patcher's, and a later proposal with the same id would replace the  *)
(* text, so that this is said of proposals with one text for each id.      *)
OneText == \A patch, other \in Patches : patch.id = other.id => patch.ops = other.ops

ByExecution(s, p) == \E e \in Calls, n \in Numbers :
    LET row == executions[e][n]
    IN  row # None /\ row.place = s /\ row.mode = "apply" /\ p \in row.changed
ByCall(s, p) == \E c \in Users(s) : calls[c].mode = "apply" /\ p \in calls[c].changed
Untold(c) == {try \in ToSet(attempts[c]) \cup {calls[c].try} : try.execution = None}
ByProposal(s, p) == \E c \in Users(s) : \E try \in Untold(c) :
    try.proposal # None /\ \E k \in DOMAIN proposals[try.proposal].ops :
                              proposals[try.proposal].ops[k].path = p
Told(s, p) == ByExecution(s, p) \/ ByCall(s, p) \/ ByProposal(s, p)

ReceiptsTellChanges ==
    OneText => \A s \in Places, p \in Paths :
        trees[s][p] \notin {BaseFiles[p], Absent} => Told(s, p) \/ Told(Repo, p)

(* The row of a loop and its attempts agree: there are no more than the    *)
(* bound, every one before the last has failed, and the last one's outcome *)
(* is that of the loop.  A loop that succeeded names an execution of its   *)
(* own proposal, in its own place, and the verification of that execution. *)
AttemptsAddUp ==
    \A c \in Calls : autofixes[c] # None =>
        LET row == autofixes[c]
            tries == attempts[c]
            n == row.execution
        IN
        /\ Len(tries) <= MaxAttempts
        /\ \A i \in DOMAIN tries : i < Len(tries) => tries[i].status = "FAILED"
        /\ row.status = "FAILED" =>
             Len(tries) = MaxAttempts /\ Last(tries).status = "FAILED"
        /\ row.status = "RUNNING" => ~At(c, "use") /\ ~At(c, "done")
        /\ row.status = "SUCCEEDED" =>
             /\ Last(tries) = [status |-> "SUCCEEDED", proposal |-> row.proposal,
                               execution |-> n, verification |-> row.verification]
             /\ executions[c][n].status = "SUCCEEDED"
             /\ executions[c][n].proposal = row.proposal
             /\ executions[c][n].place = calls[c].place
             /\ verifications[c][row.verification].status = "SUCCEEDED"
             /\ verifications[c][row.verification].execution = <<c, n>>

(* A file of the commit that no plan names is as it was, in the repository *)
(* and in every sandbox, through any number of attempts, unless a patch    *)
(* was applied that is linked to no run, or to one whose plan names none.  *)
(* Only where a sandbox lacks the file, because it was not copied, was     *)
(* never made or was removed, may it be written anew beside planned ones.  *)
Unrestricted(c) == calls[c].kind = "patch" /\ calls[c].mode = "apply" /\ ~At(c, "idle")
                     /\ AllowedOf(calls[c].run) = {}

Lacking(s, p) == s # Repo /\ sandboxes[s] # None
    /\ (p \in Uncopied \/ s \in removed \/ sandboxes[s].status = "FAILED")

ScopeKept ==
    \A s \in Places, p \in Paths :
        /\ BaseFiles[p] # Absent /\ trees[s][p] \notin {BaseFiles[p], Absent}
        /\ \A c \in Users(s) \cup Users(Repo) : ~Unrestricted(c)
        => \E r \in Runs :
             p \in AllowedOf(r) \/ (Lacking(s, p) /\ MayCreate(p, AllowedOf(r)))

(* Every call ends: with a result, an error for its caller, or its death.  *)
EveryCallEnds == \A c \in Calls : Underway(c) ~> calls[c].phase \in Ended

=============================================================================
