# Specifications of issue-to-pr-agent

TLA+ specifications, model-checking runs and machine-checked proofs for the program in this
repository: a service that turns an issue into a plan, a plan into a patch, verifies the patch,
asks for approvals and delivers a draft pull request, with a durable queue and workers to run the
long steps. Paths below are relative to `src/issue_to_pr_agent/`.

## 1. Inventory

Every process (CLI invocation, the HTTP server with its one thread, worker container) is a separate reader and
writer of one SQLite file through `infrastructure/persistence/run_repository.py`. There is no
other shared memory. Nearly every table is written with `INSERT OR REPLACE` of a whole row that
was read in an *earlier* transaction; only claiming and requeueing of queue jobs are
`BEGIN IMMEDIATE` transactions that read and write at once. This is where the hard behaviours of
the system come from.

| Component | State | Operations | Interacts with | Hard behaviour | What makes it correct |
|---|---|---|---|---|---|
| **Job queue** (`manage_queue.py`, `queue_budget.py`, `run_repository.py` 1276-1789) | table `queue_jobs` | enqueue (plan, external plan, verify, deliver), cancel, resume, claim, requeue expired | clients, operators, workers | check-then-insert, whole-row replacement, leases, caps | key, tenant and worker caps; a lease on every running row; no row lost; pending budget |
| **Queue worker** (`process_queue.py`) | the row as claimed, the charge, the row to write | process, dispatch, retry with back-off, cooperative cancel, finish | queue, every use case, notifications | death with a job in hand, a lease lapsing under a live worker, stale copies, permission withdrawn meanwhile | one executor per job, success is final, budget and attempts bounded, every job settles |
| **Approval workflow** (`manage_approval.py`, `approval_policy.py`) | table `approvals` (status, decisions, expiry) | request, decide | policy, tenants, delivery | two reviewers at once, a call that dies between the receipt file and the row, expiry between read and write, a policy that changes between request and gate | enough distinct entitled reviewers, no vote twice, a settled approval stays settled, no delivery outside the window |
| **Delivery** (`deliver_run.py`, `delivery_governance.py`, `delivery_summary.py`, `scm/local_repo.py`) | work tree, branch, index, remote, pull request, table `deliveries` | gates, branch, stage, commit, push, draft pull request, comment, receipt | approvals, GitHub, git | failure after any side effect, retry, two deliveries in one work tree, a branch checked out under a delivery | commits hold only what receipts list, the base branch is never pushed, one commit and one pull request per work, the row of a failure tells what it left behind |
| **Planning** (`plan_issue_to_pr.py`, planners, context builder, model routing) | table `runs`, artifacts | fetch issue, build context, plan, record | GitHub, model providers | provider errors at each call | a plan names only files that exist, and commands to verify them |
| **Autonomous patching** (`generate_patch_proposal.py`, `execute_patch_proposal.py`, `verify_run.py`, `run_autofix.py`, `workspace/mutator.py`) | proposals, executions, verifications, autofix runs, work tree | propose, reflect, apply, verify, repeat | planners, sandboxes, policies | a patch that fails half-way, a process dying inside the loop, bounded retries | edits stay in scope, loops end, receipts tell what was changed, what is reported verified is |
| **Sandboxes** (`manage_sandbox.py`, `sandbox/local.py`) | table of sandboxes, directories | prepare, use, clean up, prune | patching | clean-up during use | work in a sandbox does not reach the repository; what runs in a removed one fails and says so |
| **Tenants and identity** (`manage_tenant.py`, `tenant_access.py`, `sync_identity.py`, `authentication.py`) | tenants, memberships, principals, sessions | bootstrap, status, membership, sync, permission check | every mutating operation | check at enqueue and again at run, synchronisation that drops members | work only with a membership of an active tenant; a suspension holds; a synchronisation leaves the list it was given |
| **HTTP service** (`interfaces/http/app.py`, `server.py`) | idempotency records, rate-limit windows | authenticate, limit, replay, dispatch, save | all use cases | a crash or an error between dispatch and save, a torn record, another body under a used key | answered work is not repeated under its key |
| **Notifications, alerts, traces, metrics** | outbox and telemetry files and tables | emit, deliver, deduplicate | worker, delivery | a notification raising inside the dispatch | never changes an outcome (it may: see `DispatchRaises`) |
| **Backup and release manifest** (`manage_release.py`) | files | back up, restore, manifest | database | copying a live database | none beyond file copies |
| **CLI, UI, dashboards, retention, audit export, evaluation** | none or files | rendering, parsing, deletion by age | all | - | - |

## 2. The modules and how they correspond to the code

| Module | What it is |
|---|---|
| `JobQueue.tla` | the queue table, enqueueing clients, workers, operators and time |
| `ExclusiveWork.tla` | the abstract specification of the queue: exclusive executions of jobs |
| `MCJobQueue.tla` | values of the constants for TLC, shared by the `MCJobQueue_*.cfg` runs |
| `JobQueueProofs.tla` | the theorems about `JobQueue` and their proofs |
| `Approval.tla` | approval receipts, the calls that request and review them, the gate of a delivery, policy changes and time |
| `Signoff.tla` | the abstract specification of an approval: one vote per entitled actor, a quota, a veto |
| `MCApproval.tla` | values of the constants for TLC, shared by the `MCApproval_*.cfg` runs |
| `ApprovalProofs.tla` | the theorems about `Approval` and their proofs |
| `DeliveryPolicy.tla` | the approval and governance policies of a delivery as operators: layers, risk, reasons to block |
| `Delivery.tla` | deliveries in one work tree, git, the remote and GitHub, the records of them |
| `Handoff.tla` | the abstract specification of delivery: what reviewers may rely on |
| `MCDelivery.tla` | values of the constants for the `MCDelivery_*.cfg` runs |
| `DeliveryProofs.tla` | the theorems about `Delivery` and their proofs |
| `Planning.tla` | what a planning run computes: snapshot, ranking, plan, paths that may be touched, commands |
| `Patching.tla` | planning runs, proposals, executions, verifications, autofix loops and sandboxes |
| `MCPatching.tla` | values of the constants for the `MCPatching_patching.cfg` run |
| `PatchingProofs.tla` | the theorems about `Planning` and `Patching` and their proofs |
| `TenantAccess.tla` | roles, identity and permission decisions as operators |
| `Access.tla` | requests to the API and commands of administrators, tenants and members, idempotency records |
| `MCAccess.tla` | values of the constants for the `MCAccess_access.cfg` run |
| `AccessProofs.tla` | the theorems about `Access` and their proofs |

The parts meet where one calls another, and each module has the other side of such a call as a step with every outcome
the call may have. A worker of `JobQueue` dispatches a job (`DispatchSucceeds`, `DispatchRaises`); what it
dispatches is a call of `Delivery` or `Patching`, where the concurrency key that the queue enforces is the guard
`KeyHeld`. The gate of a delivery reads one approval: `Approval` has the reading, `Delivery` its result
(`granted`). `Access` decides who may start any of this; there the work itself is one step. `Patching` hands its
records to `Delivery` as constants (`Works`), because a delivery takes only finished ones.

### JobQueue

**State.** `queue_jobs[j]` is the row of job `j`; `ABSENT` stands for no row. The columns a claim
or a save decides on are kept (status, worker, attempts, budget used, next run, lease expiry,
cancel request), those fixed at insertion are constants (`Priority`, `TenantOf`, `KeyOf`, ...),
and links, summaries and payload JSON are left out. `worker[w]` is one worker process: its place
in the loop of `process()`, the row it works from, which it reads once and later writes back, and
the units it has charged. `operator[o]` is an operator between the read and the write of `cancel_job` or
`resume_job`. `client[j]` is the enqueueing client between its counts and its insert.

**Atomicity.** One SQLite transaction is one step. `RequeueExpired` and the claim are each one
transaction in the code (`BEGIN IMMEDIATE`), so each is one step here; `ensure_can_enqueue` and
`_create_job` are three transactions, so `CountPending`, `CountTenant` and `Insert` are three steps;
`cancel_job` and `resume_job` are two, `_process_job` is as many as it has reads and writes. Local
computation is merged into the step that reads its input.

**Time.** A timestamp is held as the time that remains until it. `Tick` ages every copy of a row,
also those in the hands of workers and operators, so that a stale row written back carries the
expiry it was read with. The unit of time is a tick; leases last 2, the first back-off 1 tick.

**Failures.** `Crash` is the death of a worker process with a job in hand at any point
(`docker-compose.yml` restarts it under the same worker id); an SQLite error or an exception that
leaves the `except` branch has the same effect on the table. `DispatchRaises` covers a use case that raises and
also a success notification that raises after the use case has succeeded, because the
notification is sent inside the same `try`. `RefuseActor` is the second permission check, made
when the job runs. `Tick` may let a lease lapse under a worker that still runs only `MaxOverruns`
times.

Actions and code, in the order of the life of a job:

| Action | Code |
|---|---|
| `CountPending`, `CountTenant`, `Insert` | `QueueBudgetManager.ensure_can_enqueue`, `ManageQueueUseCase._create_job` |
| `RequeueExpired` | `RunRepository.requeue_expired_queue_jobs` |
| `ClaimJob`, `ClaimNothing` | `RunRepository.claim_next_queue_job` with `_select_claimable_queue_job` |
| `RefuseActor`, `SkipCancelled`, `ExceedBudget`, `StartDispatch` | the four outcomes of the checks of `_process_job` |
| `DispatchSucceeds`, `DispatchRaises` | `_dispatch_job` and the notification |
| `HandleFailure` | the `except` branch: re-read, cancel or retry or fail |
| `SaveOutcome` | `_persist_job` (also of `_finalize_cancelled`) |
| `CancelJob`, `ResumeJob`, then `SaveCall` | `cancel_job`, `resume_job` |

### ExclusiveWork

Three actions: a job is submitted, a worker starts it, its execution ends, which settles it or leaves it waiting. At most one
worker executes a job, a worker executes one job, jobs with one concurrency key are never executed
at once, and a settled job is never started. `JobQueue` implements it under the mapping `phase` (waiting while the row is
QUEUED or RUNNING) and `executor` (the live worker process that works on the job, whatever the row
says); leases, retries, requeues and whole-row writes disappear in it.

### Approval

**State.** `approvals[a]` is the row (its columns and its payload say the same) and `files[a]` the
receipt file of the approval that call `a` requests; a request makes a fresh id, so request and approval are
named alike. A receipt holds its status, the approvals required, the hours of creation and expiry, and the
decisions made; comments, teams, reasons and risk level are left out. `calls[c]` is one request or
review: how far it has come and the receipt it has built and still has to write. `delivery[d]` is what a
delivery found when it passed the gate. `policy` gives, for each change, the approvals it requires and
whether it is blocked: what `evaluate_delivery` returns, with its risk scoring left out.

**Atomicity.** A review reads the row in one transaction and computes the whole new receipt from what it
read: `BeginReview`. `_persist_approval` then writes the file (`WriteFile`) and replaces the row in a second transaction
(`SaveRow`). A call may die before each of these (`Die`). A refused review (final state, expired,
not entitled, already reviewed) writes nothing and is not a step. The gate reads one row, so
each of its two ways through is one step.

**Overlapping reviews.** Nothing in the code keeps two reviews of one approval apart. The constant
`Overlapping` names the approvals on which they may overlap; on the others a review starts only when no
other is between its read and its write, as when the reviewers wait for each other's answer. The safety of deliveries is
stated for all approvals, what needs serial reviews for `Approvals \ Overlapping`, and what breaks without them is the run
`approval_final`.

**Time and policy.** `now` counts hours. `ChangePolicy` is an administrator who edits the policy file or the
tenant's overrides between any two steps. Who may review (`MayReview`: team rules and assignments; `AllowSelfApproval`)
is fixed for each approval.

| Action | Code |
|---|---|
| `Request` | `request_delivery_approval` up to `_persist_approval` |
| `BeginReview` | `decide` up to `_persist_approval`, with `approval_is_expired` and `ensure_reviewer_can_decide` |
| `WriteFile`, `SaveRow` | the two writes of `_persist_approval`; `save_approval` |
| `Die` | the process of a request or a review ends, or a write raises |
| `PassWithoutApproval`, `PassWithApproval` | `_ensure_delivery_approval` after `evaluate_delivery` |
| `ChangePolicy`, `Tick` | `_load_policy` finds another policy; an hour passes |

### Signoff

Three actions: a question is asked with a quota (or settled at once), an entitled actor who has not voted
approves, which grants it when the quota is met, or rejects, which refuses it for good. Serial approvals
implement it under `outcome`, `quota`, `voters` and `approvers`, read off the table alone; files, half-finished and dead calls
disappear in it, and a vote takes effect when its row is saved.

### DeliveryPolicy and Delivery

**State.** `tree`, `index`, `head` and `branches` are the local git repository, each file being the work (an
execution, or somebody's edit) that last wrote it; `remote` and `pulls` are what is at GitHub (comments are left out: nothing reads them);
`calls[d]` is one call of `deliver()`: the step it takes next, its work, its commit and the status it will record;
`rows` is the table `deliveries`. `interrupted` is history that no action reads: the deliveries that had looked at
the branch and not committed yet when somebody checked out another. A *work* is a run with its execution and verification: finished records,
so that what they say is constant (`Receipts`, one entry for each operation that changed a file, with `Changed` the set of the files, `Labels`, `Decisions`, ...), and `Linked` says whether `_validate_linked_records` accepts them.
`DeliveryPolicy` merges the layers of the two policies as the code does and computes risk level, required approvals
and the reasons to block from them. As in the code, the size of a change is the number of its receipts (`approval_policy.py:120,123` take the
length of a list with an entry per operation), not of its files, so that a file changed three times counts three times. A pattern is the pair of the files it
matches by relative and by absolute path: a directory matches no absolute path, a glob or a base name may (`Matching`).

**Atomicity.** A stage of `deliver` with its git commands (read the branch and create one, add files and look at what is staged,
commit and ask for the id) or its request is one step; between two of them other deliveries, executions and people use
the same work tree, which nothing locks: also between the look at the branch (`deliver_run.py:217-223`) and the commit (237), so that a commit
goes to whatever branch is checked out by then. The gate reads only finished records, one approval and GitHub, and is one step. Recording is
one step: the receipt file is read by nobody.

**Failures.** Every step may raise, and those that talk to GitHub may take effect and then raise; all go to the
one `except` branch, which records FAILED. A failure to record a success is recorded as a failure, one to record a failure
is raised. `Die` may come at any point; what it leaves in tree, index, branches and at GitHub stays.

| Action | Code |
|---|---|
| `Begin` | the checks of `deliver` up to the git commands, with `evaluate_delivery` of both policies |
| `Inspect` | `changed_paths` against `_changed_paths` of the execution, `_path_matches_expected_change`, `_is_under_artifact_dir` (`Artifacts`) |
| `TakeBranch`, `StagePaths`, `Commit` | `create_branch` or the branch that is checked out, `stage_paths` and `staged_paths`, `commit` |
| `Push`, `OpenPullRequest`, `Comment` | `push_branch` and the artifacts after it, `create_pull_request`, `add_issue_comment` |
| `Record` | `_finalize`, also from the `except` branch |
| `Apply` | an execution (or a person) that writes to the tree |
| `PlanBranch` | a planning run with `create_branch`, which checks out the branch it creates (`plan_issue_to_pr.py:140-142`) |
| `CheckOut` | `git checkout` by whoever uses the work tree, at any moment, with what git keeps, replaces and refuses |

`AbsoluteReceipts` is TRUE in the code (the mutator stores `str(target_path)`). With it no delivery gets past `Inspect`: that is the run
`delivery_paths`. The run `delivery` sets it FALSE, to check what follows as it is meant to work, with receipts
that name files the way git does.

### Handoff

Three actions: commits are shared on a branch, a branch with commits is proposed once, a delivery whose commit is on a proposed branch is
recorded. Deliveries implement it with `remote`, `pulls` and the rows that say SUCCEEDED; all local git state disappears. A delivery
whose commit another one beside it has diverted to its own branch (`OnOwnBranch` is false) does not count as recorded: its row says
SUCCEEDED though the branch it pushed may hold only older commits of its run, since nothing in the code compares the branch before a commit with the one that was asked for.

### Planning and Patching

**State.** `trees[s]` is the work tree of a place, the repository or the sandbox of a call, each file a short sequence of texts;
`runs`, `proposals`, `executions`, `verifications`, `attempts`, `autofixes`, `sandboxes` are the tables, with the fields that
decide something or that link one to another; `calls[c]` is one use of autofix, of a patch or of a verification: the step
it takes next and what it has in hand. `Planning` has the computations: which files are ranked, what is left of a
planner's draft, which paths a patch may name and which commands may run.

**Atomicity.** One operation of a patch (read, check, write) is a step, one command of a verification, one save.
Calls in other processes, an operator's clean-up and a death come between any two. A planning run writes one row at its end from
what it read, and is one step.

**Failures.** An operation may be refused or fail, leaving the files before it changed; a command may fail, time out or not exist; a proposal may not come; any
save may fail: of an execution it is retried as the record of a failure, of a verification it fails the attempt, of an attempt or of
the loop it leaves the row RUNNING.

| Action | Code |
|---|---|
| `Plan` | `IssueToPRAgent.run_with_issue`, `_build_audit_payload` |
| `Begin` | the commands and routes that start an autofix, a patch or a verification, in the repository or a sandbox |
| `Prepare`, `MarkUsed`, `CleanUp` | `ManageSandboxUseCase`, `LocalSandboxManager` |
| `Start`, `NextAttempt`, `SaveAttempt`, `SaveAutofix` | the loop of `RunAutofixUseCase.run` and its two saves |
| `Generate` | `GeneratePatchProposalUseCase.generate` |
| `Apply`, `SaveExecution` | the loop over operations of `ExecutePatchProposalUseCase.execute` with guardrails and mutator, `save_execution` in both branches |
| `Verify`, `SaveVerification` | the loop over commands of `VerifyRunUseCase.verify`, `_finalize` |

### TenantAccess and Access

**State.** `tenants`, `members`: the tables; `recent`: the tenants by `updated_at`, which decides whose a repository is when
patterns overlap; `stored`: the idempotency file of each path and key, or a torn one; `admitted`: the rate limiter's memory;
`procs[p]`: the API, which serves one request at a time, or a command, between its reads and writes; `log`: the requests that are over, kept for the properties.
`TenantAccess` has the roles, the scopes of services and who a caller is.

**Atomicity.** A transaction on the tables is a step: the tenant's row, the membership, each member that is enrolled, the removal of the
others, the replacement of the tenant's row by what was read and the change. Looking up and saving an idempotency record are the
first and the last step of a request.

**Failures.** `Raise` is an exception anywhere, also after the work was done; `Die` the death of a process, of the API perhaps
in the middle of writing a record (`Torn`), and its restart with an empty limiter. `Deliver` at the API always ends in an
error, as in the code: the handler uses the name `DeliveryStatus`, which `app.py` does not import.

| Action | Code |
|---|---|
| `Receive` | `handle_request` up to the dispatch: `_authenticate`, `InMemoryRateLimiter.check`, `_idempotent_replay` |
| `Start`, `Resolve`, `Check` | the identity of the caller, `resolve_tenant_for_repo` or the named tenant, the membership or the scopes |
| `Serve`, `EnqueueJob`, `RequestApproval`, `ReviewApproval`, `Deliver`, `Notify` | the handlers and `_emit_platform_notification` |
| `Register`, `SetPolicy`, `SetStatus`, `AddMember` | `ManageTenantUseCase` |
| `Enroll`, `Prune` | `sync_tenant_memberships` (and the members of a registration) |
| `Finish` | `_persist_idempotency` and the answer |
| `Run`, `Tick` | a command is started; the limiter's window moves |

## 3. What the runs check

Passing runs (`tlc -config MCJobQueue_X.cfg MCJobQueue`, and likewise for the other MC modules):

* **`queue_leases`** - three jobs that clients enqueue while workers run, two workers, one crash,
  no lease outlived by its worker, no operators. Jobs 1 and 2 share a concurrency key, 1 and 3 a
  tenant; 3 has the higher priority and a tag that one worker has; the caps are 1, job 2 has a retry but a budget for
  one attempt, the pending limit is 1 with two racing clients. Checks `OneExecutor`, `BudgetRespected`,
  `AttemptsWithinCrashes`, `PendingBounded`, `SucceededIsFinal`, `ImplementsExclusiveWork` and, under the
  fairness below, `EveryJobSettles`.
* **`queue_overruns`** - the same three jobs from a full backlog; a lease may lapse once under a live worker, and a
  worker may die once. Executions then overlap and late saves hit rows of other workers; `KeyExclusive`,
  `TenantCap` and `WorkerCap` on the rows of the table still hold.
* **`queue_operators`** - one job, two operators that make two calls of cancel and resume in all, two
  workers, a crash. Any stale row may be written back at any time. Checks `TypeOK`, `LeaseIffRunning`
  and `RunningEnds`: no row becomes unreclaimable.

* **`approval_votes`** - two approvals, one for a minor and one for a major change; the reviews of the second may
  overlap and its window is one hour. Three reviews by two entitled actors and the requester, any call may
  die, the policy switches between two that ask for 2 approvals or block the minor change and free the major one. Checks `OneVoteEach`,
  `DeliveriesEarned`, `DeliveriesInWindow`, `AnswersKept`, `SettlesForGood`, `TypeOK` and `ImplementsSignoff`.

* **`delivery`** - two deliveries of three works in one work tree. Two works share a concurrency key, as the two
  jobs of one repository do; the third changes a file of both, one of them twice, and has no key, as a delivery from the command line. One work adds a file in a
  directory that is not tracked yet, two change a file under the artifact directory, one a deployment file. A tenant replaces an entry of the policy and one of
  the approvals required by risk. Between any two steps of a delivery a planning run may create and check out the branch of the first work (`Planned`), and somebody may check out
  the base branch or that branch (`Visited`). `CommitsReceiptsOnly`: but for artifacts, which the inspection lets pass wherever they are staged, nothing gets into a commit that is
  not in the receipts of a work that the gate passes and whose delivery may run at that time, whatever others left in the index; and the commit is on the branch of such a work
  unless a branch was checked out under its delivery. `BaseUntouched`: the base branch is never pushed and no pull request comes from it, whoever checks out what at whatever
  moment; the *local* base branch can get a commit, that of a delivery under which somebody checked it out, and gets no other: deliveries that take their
  branches beside one another put none there. `OneCommitPerWork`: retries and second jobs under a concurrency key
  commit a work again only where its files were written again. Without a key it does not hold: two deliveries of one work
  may both have staged it before the first commits, and the second then commits what a third delivery has staged since. `RowsTellCommits`: the row of a delivery tells the
  commit it left behind, on whichever branch. `NoRiskWaved`: of two works the one with more labels, files, decisions and attempts, and no fewer receipts, never needs fewer
  approvals; the receipts have a condition of their own because they are what the code counts. `EveryDeliveryEnds` and `ImplementsHandoff`.
* **`patching`** - an autofix loop of two attempts in its own sandbox, and one call by hand, a patch or a verification, in the
  repository or in that sandbox, linked to the run, to none or to a failed one, as a dry run or not. The planner is a model whose draft names a file that does not exist and a
  command that is blocked, or the heuristic, or fails. One file is over the size limits, so that a copied sandbox lacks it and a patch of it is refused.
  `ReceiptsTellChanges`: every changed file is named by a record or a call underway or dead. `AttemptsAddUp`: the loop's row, its attempts and what they link to
  agree. `VerifiedAsLeft`: what is reported as fixed passes an allowed command in the tree that was left. `ScopeKept`: no file outside every plan changes,
  unless by a patch of no run or of a run without a plan, which the code does not restrict, or in a sandbox that lacks the file (too large to
  be copied, or removed): there it may be written anew as a new file beside planned ones. `EveryCallEnds`. `ReceiptsTellChanges` is said of
  proposals that have one text for each id (`OneText`), as here. The id is the model's, and the row of a proposal is replaced by the next one with
  its id (`run_repository.py:269`): with two texts under one id TLC finds an attempt that changed a file and whose execution was not
  saved, and a second attempt that replaces the only record of what it did.
* **`access`** - three requests or commands in all, of nine kinds of requests and seven of commands, with one death: jobs and approvals
  under keys, idempotency files torn by the death or by a write that raises, webhooks, a service whose token has scopes, synchronisations that replace members, registration, suspension and policy
  changes by two processes besides the API. `RepeatedOnlyAfterError` and `ReplaysAgree`: what was answered with a success is not done again under
  its key and always answered alike. `WorkPermitted`: work on a repository is allowed by the tables as they are, unless somebody
  changed them since it was asked for. `SyncedExactly`: an undisturbed synchronisation leaves its list. `SuspensionHolds`: a suspended tenant
  becomes active only by a registration or by a writer that was disturbed by another.

Runs that end in a counterexample, each of a statement of the repository that the code does not
keep:

* **`queue_attempts`** - `docs/architecture.md:202`: a job is marked failed when its attempts are exhausted. A
  worker that dies on the last attempt never reaches the code that counts; the reclaim requeues the row whatever its
  `attempt_count`, and the claim starts attempt `max_attempts + 1`. What does hold is
  `AttemptsWithinCrashes`: one attempt more per death, and no other.
* **`queue_cancel`** - `docs/operations.md:98-100`: a job stuck in RUNNING is cancelled with `cancel-job`. If its
  worker is dead nobody is left to honour the request; the reclaim makes the row QUEUED with `cancel_requested` set,
  the claim skips such rows, and it stays QUEUED for ever.
* **`queue_final`** - `manage_queue.py:297`: a SUCCEEDED job refuses a cancellation. `cancel_job` decides on
  the row it read and replaces the row later; if the worker finishes in between, the RUNNING row is
  written over the SUCCEEDED one and, after its lease expires, the job runs again.
* **`approval_final`** - `manage_approval.py:169`: an approved or rejected approval is in a final state. Two
  reviewers read it while it is pending, one rejects, one approves: the second row to be saved replaces the
  first, and with it the other decision. What does hold is `SettlesForGood`: once no such review is
  left, the row never changes again.

* **`delivery_paths`** - `README.md:395`: a delivery checks the workspace for unexpected changes. The mutator records the
  resolved path of a file, the delivery compares it with git's relative path, and so the files of the receipt are themselves
  unexpected: a tree that holds nothing else is refused. The tests of the delivery write receipts with relative paths by hand.
  The policies meet the same absolute paths: a pattern for a directory matches none of them.

Two disagreements that no run reports, because they need no interleaving. `README.md:200-209` delivers a work that was patched in a sandbox with `deliver --sandbox-id`,
which makes the sandbox's tree the `repo_root` (`main.py:1535-1542`). `deliver_run.py:388` refuses that unless the run was planned there too, and `391` refuses a
delivery from the repository: in `Delivery` such a work is one that `Linked` leaves out. The other: `docs/architecture.md:343` says that requests can be replayed
safely under an idempotency key, but `POST /v1/deliver` raises a `NameError` after each delivery (`app.py:1067`), so its answer is an
error, nothing is stored under its key, and a retry delivers again. `Access` has it so: `RepeatedOnlyAfterError` allows a repetition after an error, and
`OneCommitPerWork` bounds what it does.

**Bounds, and why they are enough.** Two workers are needed for every conflict the queue resolves and
a third adds no new kind of pair; three jobs are the fewest in which a shared key, a shared tenant and a tag that only one worker has
overlap pairwise but not all at once. One crash and one overrun put each row in each
half-finished state (claimed, dispatching, raised, saving) with another worker free to reclaim it.
Two operators with a call each give every pair of stale writes. Attempts up to 2 exercise both
branches of the retry decision; a lease of 2 ticks distinguishes expired from about to expire.
For approvals, a quota of 2 with three reviews has one review to spare: a vote can be lost, repeated or
come after the last one needed; one approval is serial and one overlapping, so that each property meets both; one hour
separates before, at and after the expiry. Reviews are interchangeable and no property is a liveness
property, so the symmetry over them is sound. Without a review left nothing is stuck: time, policies and the gate go on until
`MaxTime`, and the policy for ever. The theorems lift all of these bounds for the safety properties of every module.
Two deliveries give every pair of steps of two calls, and every retry after a failure or a death at each step; three works are the fewest in which
one shares files with each of the others, and one has no key. Branches that others check out are the base and the one that a planning run creates: with all four the run passes
as well (1.9 million states), too slowly to be kept. Two attempts are the fewest with a retry; one hand beside the
loop gives every pair of steps in one place; two operations in a patch are needed for one that fails half-way. Three requests are the
fewest with an answer, a conflict and a repetition under one key, or a read, a suspension and a stale write; with the limit 2 the
third is the one too many. Commands are interchangeable, `SuspensionHolds` is a property of steps, so their symmetry is sound. These three runs do without deadlock checking, since the calls they have
come to an end.

**Fairness.** `WF(WorkerStep(w))`: workers are restarted when they end (`restart: unless-stopped`)
and their loop always takes its next step; `WF(SaveCall(o))`: a call that has begun returns;
`WF(Tick)`: time passes. Nothing is assumed of clients, of operators starting calls, or of
crashes, and no dispatch is required to succeed. In `Delivery` and `Patching`, `WF(Step(c))` for each call: its process runs, requests and
verification commands have timeouts, a save returns or raises, and a git command ends (it has no timeout: a push that hangs for ever is outside the assumption); `Die` may pre-empt it, and each step may fail.
`Access` assumes no fairness: all its properties are safety properties.

## 4. What is proved

`JobQueueProofs.tla`, for every value of the constants that satisfies `QueueAssumption`: any finite sets of jobs
and workers, any priorities, keys, tenants, tags, limits, crashes.

| Theorem | Statement | Needs |
|---|---|---|
| `TypeCorrect` | `Spec => []TypeOK` | - |
| `LeasesMatchStatus` | `Spec => []LeaseIffRunning` | - |
| `KeysExclusive`, `TenantsCapped`, `WorkersCapped` | `[]KeyExclusive`, `[]TenantCap`, `[]WorkerCap` | no operators |
| `OneExecutorHolds` | `[]OneExecutor` | no operators, no overruns |
| `SuccessIsFinal` | `SucceededIsFinal` | no operators, no overruns |
| `AttemptsBoundedByCrashes` | `[]AttemptsWithinCrashes` | no operators, no overruns |
| `BudgetsRespected` | `[]BudgetRespected` | no operators, no overruns |
| `PendingJobsBounded` | `[]PendingBounded` | no operators, no overruns |
| `QueueImplementsExclusiveWork` | `Spec => Work!Spec` | no operators, no overruns |

"No operators" (`Operators = {}`) is needed because a stale cancel or resume breaks each of these
(the run `queue_final` shows one way); "no overruns" (`MaxOverruns = 0`: no dispatch outlives its
lease) because leases are checked by nobody when a job is saved. With an overrun TLC finds the budget exceeded, too: the check is made on
the row as claimed, the charge is added to the row that another worker has saved since.

The argument is a ladder of inductive invariants, each proved relative to the ones before it:

1. `TypeInv`: `TypeOK`, and a worker that works has a job and a row. It relies on a row being written only with values of the row type.
2. `LeaseInv`: every *copy* of a row, in the table, in the hands of a worker that is saving or of an operator, is `Leased`
   if it is RUNNING and `Released` otherwise. The copies are needed: a row written back is only as good as it was
   when read.
3. `KeyExclusive`, `TenantCap`, `WorkerCap` are then inductive: only a claim adds a RUNNING row, and it looks at the
   requeued table in its own transaction.
4. `OwnInv`: a working process owns its job: the row is RUNNING, names it, has time left on its lease, and
   differs from the copy held only where it may. This is what `MaxOverruns = 0` buys, and with it saves never hit
   another worker's row.
5. `AttemptInv` counts the attempts spent by dead workers (`Orphaned` rows) against `crashes`;
   `BudgetInv` bounds the row and the charge a working process still has to write; `PendingInv` counts clients
   that have passed the count against the rows pending.
6. The refinement: each action is `Submit`, `Start`, `End` or a stutter of `ExclusiveWork` under the mapping; 3
   and 4 give the guard of `Start`.

`ApprovalProofs.tla`, for every value of the constants that satisfies `ApprovalAssumption`: any finite sets of reviews
and actors, any approvals, deliveries, policies, windows, and any choice of `Overlapping`.

| Theorem | Statement | Holds for |
|---|---|---|
| `TypeCorrect` | `Spec => []TypeOK` | all approvals |
| `VotesOnce` | `[]OneVoteEach` | all approvals |
| `DeliveriesAreEarned` | `[]DeliveriesEarned` | all approvals |
| `DeliveriesStayInWindow` | `[]DeliveriesInWindow` | all approvals |
| `SettledForGood` | `SettlesForGood` | all approvals |
| `AnswersAreKept` | `[]AnswersKept` | serial approvals |
| `ApprovalImplementsSignoff` | `Spec => Votes!Spec` | serial approvals |

The argument, each invariant inductive relative to the ones before it:

1. `TypeInv`: `TypeOK`, a call that has begun names its approval, and one that has ended holds no receipt.
2. `SoundInv`: every *copy* of a receipt, in the table, in a file or in the hands of a call, is sound by itself: no actor twice, an
   APPROVED one with its count met by entitled actors and no rejection, an expiry that fits its creation. A copy
   written back is as sound as when it was built, and this is why lost updates cannot produce an unearned delivery.
   Counting actors instead of decisions uses that the map from decisions to actors is one-to-one when no actor is listed twice.
3. `DeliveryInv`: what a delivery saw at the gate was a sound copy, at that hour.
4. `RequestInv`: a row exists only once its request has saved it, with no decisions and not both PENDING and in need of none, and every
   review under way is of such a row.
5. `SerialInv`: on a serial approval the row a review has read is still the row in the table, and the file lists whatever the
   row lists (a dead review may have left it one decision ahead).
6. `AnswerInv`: on a serial approval a saved review is listed in the row, hence by 5 in the file.
7. The refinement: saving a request is `Ask`, saving a review is `Approve` or `Reject`, all else stutters; 5
   gives the guards.

`DeliveryProofs.tla`, for every value of the constants that satisfies `WorkAssumption`, `DeliveryAssumption` and `NoneAssumption`:
any finite sets of works, files and deliveries, any policies, keys and branches, receipts with absolute paths or with relative ones.

| Theorem | Statement | Needs |
|---|---|---|
| `TypeCorrect` | `Spec => []TypeOK` | - |
| `BaseIsUntouched` | `[]BaseUntouched` | - |
| `RowsTell` | `[]RowsTellCommits` | - |
| `HandoffImplemented` | `Spec => Reviewers!Spec` | - |
| `CommitsHoldReceipts` | `[]CommitsReceiptsOnly` | - |
| `CommittedOnce` | `[]OneCommitPerWork` | - (it speaks of works with a key) |
| `RiskNotWaved` | `[]NoRiskWaved` | `OrderlyPolicy` |

`RiskNotWaved` compares works of which one has at least the labels, files, decisions and attempts of the other and at least as many receipts. `OrderlyPolicy` is that a higher risk needs no fewer approvals, and that the limits are integers. The built-in policy is such; nothing keeps a tenant's or a
repository's entry from asking for fewer approvals at a higher risk, and then the statement is false.

The argument:

1. `TypeInv`: `TypeOK`, a call that has begun has a work, and one that came through the gate has changes to deliver and a branch of its own that is not the base.
2. `BaseInv`: from the time it has its branch until it has committed, a delivery does not find the base branch checked out, whichever branches other deliveries take, unless somebody
   checked out another under it, and then it is among `interrupted`. Pushes are of the branch of a work, which the gate keeps from being the base (`TypeInv`).
3. `CommitInv`: the commits on the branches are exactly those that calls made, each on the branch its call knows.
   `RowInv`: what a call believes of its pull request and of its push is so, and rows tell what their calls had come to. The two give
   `RowsTellCommits` and each step of the refinement: a push is `Share`, an opened pull request `Propose`, a saved success `Record`.
4. `StageInv`: of two deliveries underway at once, no two share a key; from inspection to commit what is staged comes from receipts of
   deliveries *beside* this one or is an artifact, as is the branch one of theirs from the time it has taken its own until somebody checks out another. The inspection establishes it, which is why what a dead delivery left
   staged does not get into a commit.
5. `CountInv` counts, for each file of a keyed work, the commits made, plus one if the file is yet to be staged, plus one if it is yet to be committed:
   together no more than the works that have written the file. A bare bound on the commits is not inductive: what is counted is what a
   commit uses up.

`PatchingProofs.tla`, for every value of the constants that satisfies `PlanningAssumption`, `PatchingAssumption` and `NoneAssumption`: any
files, snapshots, drafts, patches and policies, any finite or infinite set of calls, any bounds on attempts and commands.

| Theorem | Statement | Needs |
|---|---|---|
| `TypeCorrect` | `Spec => []TypeOK` | - |
| `ScopeIsKept` | `[]ScopeKept` | - |
| `AttemptsAgree` | `[]AttemptsAddUp` | - |
| `SuccessIsVerified` | `[]VerifiedAsLeft` | - |
| `ReceiptsTell` | `[]ReceiptsTellChanges` | - (it speaks of instances with `OneText`) |

The argument:

1. Lemmas about sequences and about what `Planning` computes: an order on a finite set has one sequence (`InOrder`), removing duplicates keeps the elements, a
   ranking, a plan and the commands of a run stay within the snapshot and the policy.
2. `TypeInv`: `TypeOK` and `CallInv`, which says for each phase of a call what it has in hand: its place, a patch that has operations,
   how many commands have run, a run that exists.
3. `ScopeInv`: every file that differs from the commit is planned, unless an unrestricted patch was applied in that place or in the repository; a file that
   is missing is missing in a sandbox that was not given it; a loop that applies a patch has a plan that names some file, because an empty set of
   paths would restrict nothing.
4. `AttemptInv`: for each call, in each phase, how the row of its loop, its list of attempts and the ids in its hands agree (`Going` while it
   tries, `Showing` when a success is to be recorded, `Settled` once it is over or dead). It is proved call by call, from the fact that nobody
   else writes the rows of a call.
5. `PassedInv`: from the moment its verification succeeds, the tree of a loop that is alone in its place is the one in which the command passed. Uses 4.
6. `ReceiptInv`: every difference is told by a saved execution, by the call that made it and still holds it, or by an attempt without an
   execution that names its proposal; an execution is saved only under a number that has no row yet, and the proposal's
   row has the text that is applied. Uses 4.

`AccessProofs.tla`, for every value of the constants that satisfies `TenantAccessAssumption`, `AccessAssumption`, `CallsAssumption` and `NoneAssumption`:
finitely many tenants, any actors, requests, keys and commands, any number of calls and deaths.

| Theorem | Statement |
|---|---|
| `TypeCorrect` | `Spec => []TypeOK`, the limiter's bound included |
| `DoneOnce` | `[]RepeatedOnlyAfterError` |
| `RepeatsAgree` | `[]ReplaysAgree` |
| `WorkIsPermitted` | `[]WorkPermitted` |
| `SyncIsExact` | `[]SyncedExactly` |
| `SuspensionIsKept` | `SuspensionHolds` |

The argument:

1. `TypeInv`: `TypeOK`, what a process knows in each phase, the limiter's ages in order, and a request underway has been counted.
2. `StoreInv`: what was answered with a success under a key is what is stored under it, and nothing is stored under the key of the request
   underway, so that a write that is cut short, by a death or an error, tears no file that holds an answer. It holds because one thread serves the API: a second one would break `UnderwayUnstored`.
3. `AloneInv`: while nobody else has written to the tables, the tenant's row that a process has seen is the row as it is, the repository is still that
   tenant's, and the member's row still permits what the process has checked; a synchronisation has enrolled, with the roles listed last, those that are not left to do.

Only model-checked: the liveness properties (`EveryJobSettles`, `RunningEnds`, `EveryDeliveryEnds`, `EveryCallEnds`), because neither liveness under fairness nor
`ENABLED` is within the prover's reach; and the five violations, which are facts about an instance. The safety properties of the passing runs all
have a theorem.

What the proofs changed in the models: four properties could not be proved as first stated because they were false beyond the run's instance.
`OneCommitPerWork` without a key and `ImplementsHandoff` with a diverted commit fail with three deliveries, `ReceiptsTellChanges` with two texts under one
id (TLC finds each), `ScopeKept` where a sandbox lacks a file. They now say what the code does keep.

## 5. What is not modelled, and why

* Heartbeats, traces, metrics, alerts, attempt files and receipts on disk: written by the worker, read by
  no decision of the queue.
* The two transactions at the top of the worker loop use one `now`; here each is taken at the time it
  runs. A claim may then see one lease more expired than the code would at that moment, which the code sees on its next turn.
* `max_jobs` and shutdown requests: a worker that ends is restarted, so they only add
  stops that a crash without a job would be.
* `max_running_jobs_* = 0` (meaning unlimited): `settings.py` rejects it.
* Links between jobs and runs, payload JSON and error texts.
* The risk scoring of `evaluate_delivery` is in `DeliveryPolicy`; in `Approval` the approvals it asks for are an
  arbitrary number. Listing of approvals and notifications about them read the table only.
* The team and assignment rules of `ensure_reviewer_can_decide` are the set `MayReview`, and do not change while an approval is open;
  the code reads the current ones at each review.
* Delivery: titles, bodies, summaries and copies of artifacts. Policies do not change between two deliveries. Others execute, create and check out branches in the work tree, but
  nobody else stages, commits or pushes; a branch that somebody else pushed to would make the push fail, which it may anyway. A file is the work that wrote it last: an edit by hand
  of a file that a delivery is to commit would go into the commit, since the code compares paths and not contents. A delivery on a server where `publish_pr_comment` is off skips the comment: the step then has no effect.
* Delivery: reads of the local repository that fail. `_git_output` returns nothing for a command that fails, so that a failed `git status` reads as
  a clean tree, and a commit whose id cannot be read is not in the row of its delivery.
* Patching: commands are run by the local runner and do not change the tree; the container runner differs in how a command is
  started. Planner and patcher are any draft and patch of a set; objectives, reflections, snippets and the
  routing of models are text or choices that no check reads. No file of the model is a symbolic link: the executor refuses one (`workspace.py:72`), but looks
  only after `resolve()` has replaced it by its target, which stands for it then. The model shows a planning run the state of one moment.
* Model-chosen proposal ids may collide in one row (`generate_patch_proposal.py:90`, `run_repository.py:269`): `Generate` replaces the row as the code does, but in the run each id has one text (`OneText`), and the attempts of the loop may repeat it.
* Access: the encoding, signature and expiry of tokens (a token is authentic or not), sessions, routes that only read, the body of a request beyond
  what decides. The two reads of `resolve_tenant_for_repo` (list, then row) are one step. Which of two webhooks share a key is the sender's choice.
* The shutdown of the API server on a signal (`server.py:31`): `shutdown()` is called in the thread whose loop it waits for; listed as a hazard.
* Backup and release manifests, dashboards, exports, evaluation, retention, observability: input and output, or read-only views.

## 6. Plan

Order by importance; each step is a module, its MC module and runs, its proofs.

1. *(done)* `JobQueue`, `ExclusiveWork`, `JobQueueProofs`.
2. *(done)* `Approval`, `Signoff`, `ApprovalProofs`.
3. *(done)* `DeliveryPolicy`, `Delivery`, `Handoff`.
4. *(done)* `Planning`, `Patching`, with the sandboxes.
5. *(done)* `TenantAccess`, `Access`.
6. *(done)* `DeliveryProofs`.
7. *(done)* `PatchingProofs`.
8. *(done)* `AccessProofs`.
9. Next: facts about the operators that decide most, stated for every input: the layers of `DeliveryPolicy` (which layer's value is in force), the
   paths and commands of `Planning` (what a plan may name, a command that the policy blocks is never run), the roles of `TenantAccess`.
