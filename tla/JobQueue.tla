------------------------------ MODULE JobQueue ------------------------------
(***************************************************************************)
(* The durable job queue: the table queue_jobs of run_repository.py, the   *)
(* clients that enqueue into it (manage_queue.py, queue_budget.py), the    *)
(* worker processes that claim, run and finish its jobs                    *)
(* (process_queue.py), and the operators that cancel and resume jobs.      *)
(*                                                                         *)
(* Every process shares only the table.  One SQLite transaction is one     *)
(* step; what a process read in one transaction and writes in a later one  *)
(* is held in its own state in between, so every interleaving of           *)
(* read-modify-write sequences is a behaviour of the specification.        *)
(*                                                                         *)
(* A time t is held as the time that remains until t (0 once it is past):  *)
(* next_run_at <= now reads next_run_in = 0, and Tick ages every copy of a *)
(* row, so no clock and no bound on time is needed.  The two transactions  *)
(* of one turn of the loop of process() share a now that is read just      *)
(* before the first; each is taken here at the time it runs.               *)
(***************************************************************************)
EXTENDS Integers, FiniteSets

CONSTANTS
    Jobs,        \* the enqueue requests, each a row of queue_jobs once inserted
    Workers,     \* worker ids, one process each
    Operators,   \* processes that run cancel_job and resume_job
    None         \* the SQL NULL

CONSTANTS        \* the columns of a job that never change once it is inserted
    Priority, CreatedAt, TenantOf, KeyOf, RequiredTags,
    MaxAttempts, BudgetUnits, AttemptCost

CONSTANTS        \* what each worker was started with
    WorkerTags,  \* the tags it advertises
    AllowedJobs  \* the jobs whose type it accepts

CONSTANTS        \* settings.py, the times in units of a tick
    LeaseSeconds, BackoffSeconds,
    MaxRunningPerWorker, MaxRunningPerTenant, CandidateScanLimit,
    MaxUnitsPerJob, MaxPendingJobs, MaxPendingPerTenant

CONSTANTS        \* the environment
    Backlog,     \* the jobs that are already queued at the start
    MaxClients,  \* how many clients may be between the first count and the insert
    MaxCrashes,  \* how many worker processes may die while they hold a job
    MaxOverruns, \* how often a lease may lapse under a worker that still runs
    MaxCalls     \* how many cancel and resume calls operators make

ASSUME QueueAssumption ==
    /\ None \notin Int /\ None \notin Jobs /\ None \notin Workers
    /\ IsFiniteSet(Jobs) /\ IsFiniteSet(Workers)
    /\ Backlog \subseteq Jobs /\ Cardinality(Backlog) <= MaxPendingJobs
    /\ Priority \in [Jobs -> Int] /\ CreatedAt \in [Jobs -> Nat]
    /\ \A i, j \in Jobs : i # j => CreatedAt[i] # CreatedAt[j]
    /\ DOMAIN TenantOf = Jobs /\ DOMAIN KeyOf = Jobs
    /\ MaxAttempts \in [Jobs -> Nat \ {0}]
    /\ BudgetUnits \in [Jobs -> Nat \ {0}]
    /\ AttemptCost \in [Jobs -> Nat \ {0}]
    /\ LeaseSeconds \in Nat \ {0} /\ BackoffSeconds \in Nat
    /\ MaxRunningPerWorker \in Nat \ {0} /\ MaxRunningPerTenant \in Nat \ {0}
    /\ CandidateScanLimit \in Nat \ {0}
    /\ MaxUnitsPerJob \in Nat \ {0}
    /\ MaxPendingJobs \in Nat \ {0} /\ MaxPendingPerTenant \in Nat \ {0}
    /\ MaxClients \in Nat \ {0}
    /\ MaxCrashes \in Nat /\ MaxOverruns \in Nat /\ MaxCalls \in Nat

VARIABLES
    queue_jobs,  \* the table: the row of each job
    client,      \* how far the client that enqueues each job has come
    worker,      \* what each worker process is doing
    operator,    \* the write each operator has read for and not yet made
    crashes, overruns, calls  \* how much of each environment bound is used

vars == <<queue_jobs, client, worker, operator, crashes, overruns, calls>>

-----------------------------------------------------------------------------
(* Rows. *)

Final == {"SUCCEEDED", "FAILED", "CANCELLED"}
Status == {"ABSENT", "QUEUED", "RUNNING"} \cup Final

Row == [status           : Status,
        worker_id        : Workers \cup {None},
        attempt_count    : Nat,
        budget_used      : Nat,
        next_run_in      : Nat,
        lease_expires_in : Nat \cup {None},
        cancel_requested : BOOLEAN]

(* The row _create_job inserts; AbsentRow stands for no row at all. *)
FreshRow == [status |-> "QUEUED", worker_id |-> None, attempt_count |-> 0,
             budget_used |-> 0, next_run_in |-> 0, lease_expires_in |-> None,
             cancel_requested |-> FALSE]
AbsentRow == [FreshRow EXCEPT !.status = "ABSENT"]

Pending == {j \in Jobs : queue_jobs[j].status \in {"QUEUED", "RUNNING"}}
Clients == {j \in Jobs : client[j] # "idle"}

-----------------------------------------------------------------------------
(* Processes.                                                              *)
(*   idle        not running, or at the top of the process() loop          *)
(*   claiming    has requeued expired jobs, about to claim                 *)
(*   claimed     holds a job, before the checks of _process_job            *)
(*   dispatching running the plan, verify or deliver use case              *)
(*   raised      in the except branch, before it re-reads the job          *)
(*   saving      holds the finished row it is about to write               *)
(* row is the row as claimed, or in saving the row to write.  charge is    *)
(* charge_units.                                                           *)
Idle == [pc |-> "idle", job |-> None, row |-> AbsentRow, charge |-> 0]
NoCall == [job |-> None, row |-> AbsentRow]

WorkerState ==
    [pc : {"idle", "claiming", "claimed", "dispatching", "raised", "saving"},
     job : Jobs \cup {None}, row : Row, charge : Nat]

TypeOK ==
    /\ queue_jobs \in [Jobs -> Row]
    /\ client \in [Jobs -> {"idle", "counted", "admitted"}]
    /\ worker \in [Workers -> WorkerState]
    /\ operator \in [Operators -> [job : Jobs \cup {None}, row : Row]]
    /\ crashes \in 0..MaxCrashes /\ overruns \in 0..MaxOverruns
    /\ calls \in 0..MaxCalls

Holding == {"claimed", "dispatching", "raised", "saving"}
Working(w) == worker[w].pc \in Holding

Init ==
    /\ queue_jobs = [j \in Jobs |-> IF j \in Backlog THEN FreshRow ELSE AbsentRow]
    /\ client = [j \in Jobs |-> "idle"]
    /\ worker = [w \in Workers |-> Idle]
    /\ operator = [o \in Operators |-> NoCall]
    /\ crashes = 0 /\ overruns = 0 /\ calls = 0

-----------------------------------------------------------------------------
(* Enqueueing: ensure_can_enqueue counts the pending rows, then those of   *)
(* the tenant, each in a transaction of its own, and refuses or goes on;   *)
(* _create_job inserts the row in a third.                                 *)

(* Slip: the limit itself still admits a job. *)
CountPendingAtLimit(j) ==
    /\ queue_jobs[j].status = "ABSENT" /\ client[j] = "idle"
    /\ Cardinality(Clients) < MaxClients
    /\ BudgetUnits[j] <= MaxUnitsPerJob
    /\ Cardinality(Pending) <= MaxPendingJobs
    /\ client' = [client EXCEPT ![j] = "counted"]
    /\ UNCHANGED <<queue_jobs, worker, operator, crashes, overruns, calls>>

CountPending(j) ==
    /\ queue_jobs[j].status = "ABSENT"
    /\ client[j] = "idle"
    /\ Cardinality(Clients) < MaxClients
    /\ BudgetUnits[j] <= MaxUnitsPerJob
    /\ Cardinality(Pending) < MaxPendingJobs
    /\ client' = [client EXCEPT ![j] = "counted"]
    /\ UNCHANGED <<queue_jobs, worker, operator, crashes, overruns, calls>>

TenantFull(j) ==
    /\ TenantOf[j] # None
    /\ Cardinality({i \in Pending : TenantOf[i] = TenantOf[j]}) >= MaxPendingPerTenant

CountTenant(j) ==
    /\ client[j] = "counted"
    /\ client' = [client EXCEPT ![j] = IF TenantFull(j) THEN "idle" ELSE "admitted"]
    /\ UNCHANGED <<queue_jobs, worker, operator, crashes, overruns, calls>>

Insert(j) ==
    /\ client[j] = "admitted"
    /\ queue_jobs' = [queue_jobs EXCEPT ![j] = FreshRow]
    /\ client' = [client EXCEPT ![j] = "idle"]
    /\ UNCHANGED <<worker, operator, crashes, overruns, calls>>

-----------------------------------------------------------------------------
(* Claiming.  The operators take the table as an argument because a claim  *)
(* looks at the table its own transaction has already requeued.            *)

(* Slips: a lease counts as expired while time is left on it; rows with a  *)
(* cancel request are not reclaimed.                                       *)
ExpiredEarly(row) == row.status = "RUNNING" /\ row.lease_expires_in <= 1
ExpiredUnlessCancelled(row) ==
    row.status = "RUNNING" /\ row.lease_expires_in = 0 /\ ~row.cancel_requested

Expired(row) == row.status = "RUNNING" /\ row.lease_expires_in = 0

RequeuedRow(row) ==
    [row EXCEPT !.status = "QUEUED", !.worker_id = None, !.lease_expires_in = None]

Requeued(rows) ==
    [j \in Jobs |-> IF Expired(rows[j]) THEN RequeuedRow(rows[j]) ELSE rows[j]]

Running(rows) == {j \in Jobs : rows[j].status = "RUNNING"}
WorkerRunning(rows, w) == Cardinality({j \in Running(rows) : rows[j].worker_id = w})
TenantRunning(rows, t) == Cardinality({j \in Running(rows) : TenantOf[j] = t})

(* Slip: the status column is left out of the WHERE clause. *)
DueAnyStatus(rows, w) ==
    {j \in AllowedJobs[w] \cap Jobs :
        rows[j].status # "ABSENT" /\ ~rows[j].cancel_requested /\ rows[j].next_run_in = 0}

(* The WHERE clause, then ORDER BY priority DESC, created_at ASC LIMIT.    *)
Due(rows, w) ==
    {j \in AllowedJobs[w] \cap Jobs :
        /\ rows[j].status = "QUEUED"
        /\ ~rows[j].cancel_requested
        /\ rows[j].next_run_in = 0}

Ahead(i, j) ==
    \/ Priority[i] > Priority[j]
    \/ Priority[i] = Priority[j] /\ CreatedAt[i] < CreatedAt[j]

Scanned(rows, w) ==
    {j \in Due(rows, w) :
        Cardinality({i \in Due(rows, w) : Ahead(i, j)}) < CandidateScanLimit}

(* Slips: the key is looked up within the tenant only; queued rows count too. *)
KeyFreeInTenant(rows, j) ==
    KeyOf[j] # None =>
        \A i \in Running(rows) : TenantOf[i] = TenantOf[j] => KeyOf[i] # KeyOf[j]
KeyFreeOfPending(rows, j) ==
    KeyOf[j] # None =>
        \A i \in Jobs \ {j} : rows[i].status \in {"QUEUED", "RUNNING"} => KeyOf[i] # KeyOf[j]

KeyFree(rows, j) ==
    KeyOf[j] # None => \A i \in Running(rows) : KeyOf[i] # KeyOf[j]

(* Slip: the cap is compared with <=. *)
TenantFreeAtCap(rows, j) ==
    TenantOf[j] # None => TenantRunning(rows, TenantOf[j]) <= MaxRunningPerTenant

TenantFree(rows, j) ==
    TenantOf[j] # None => TenantRunning(rows, TenantOf[j]) < MaxRunningPerTenant

Candidates(rows, w) ==
    {j \in Scanned(rows, w) :
        /\ RequiredTags[j] \subseteq WorkerTags[w]
        /\ KeyFree(rows, j)
        /\ TenantFree(rows, j)}

(* The fairness key (-priority, tenant_running, created_at), smallest first. *)
Preferred(rows, i, j) ==
    \/ Priority[i] > Priority[j]
    \/ /\ Priority[i] = Priority[j]
       /\ \/ TenantRunning(rows, TenantOf[i]) < TenantRunning(rows, TenantOf[j])
          \/ /\ TenantRunning(rows, TenantOf[i]) = TenantRunning(rows, TenantOf[j])
             /\ CreatedAt[i] < CreatedAt[j]

(* Slip: the cap is compared with >. *)
AboveWorkerCap(rows, w) == WorkerRunning(rows, w) > MaxRunningPerWorker

AtWorkerCap(rows, w) == WorkerRunning(rows, w) >= MaxRunningPerWorker

ClaimedRow(row, w) ==
    [row EXCEPT !.status = "RUNNING", !.worker_id = w, !.attempt_count = @ + 1,
                !.lease_expires_in = LeaseSeconds]

(* The top of the loop of process(): requeue_expired_queue_jobs.           *)
RequeueExpired(w) ==
    /\ worker[w].pc = "idle"
    /\ queue_jobs' = Requeued(queue_jobs)
    /\ worker' = [worker EXCEPT ![w].pc = "claiming"]
    /\ UNCHANGED <<client, operator, crashes, overruns, calls>>

(* claim_next_queue_job returns None and process() ends.                   *)
ClaimNothing(w) ==
    /\ worker[w].pc = "claiming"
    /\ LET rows == Requeued(queue_jobs) IN
        /\ AtWorkerCap(rows, w) \/ Candidates(rows, w) = {}
        /\ queue_jobs' = rows
    /\ worker' = [worker EXCEPT ![w] = Idle]
    /\ UNCHANGED <<client, operator, crashes, overruns, calls>>

ClaimJob(w) ==
    /\ worker[w].pc = "claiming"
    /\ LET rows == Requeued(queue_jobs) IN
        /\ ~AtWorkerCap(rows, w)
        /\ \E j \in Candidates(rows, w) :
            /\ \A i \in Candidates(rows, w) \ {j} : Preferred(rows, j, i)
            /\ queue_jobs' = [rows EXCEPT ![j] = ClaimedRow(rows[j], w)]
            /\ worker' = [worker EXCEPT ![w] =
                    [pc |-> "claimed", job |-> j,
                     row |-> ClaimedRow(rows[j], w), charge |-> 0]]
    /\ UNCHANGED <<client, operator, crashes, overruns, calls>>

-----------------------------------------------------------------------------
(* Processing: _process_job.                                               *)

(* The row _finalize_cancelled writes, made from the row it was given.     *)
CancelledRow(row, w) ==
    [row EXCEPT !.status = "CANCELLED", !.worker_id = w,
                !.lease_expires_in = None, !.cancel_requested = TRUE]

SucceededRow(w) ==
    [worker[w].row EXCEPT !.status = "SUCCEEDED", !.worker_id = w,
                          !.budget_used = @ + worker[w].charge,
                          !.lease_expires_in = None, !.cancel_requested = FALSE]

(* Slip: one attempt too many. *)
FailedRowOneMore(w, latest) ==
    LET retry == latest.attempt_count <= MaxAttempts[worker[w].job] IN
    [worker[w].row EXCEPT
        !.status = IF retry THEN "QUEUED" ELSE "FAILED", !.worker_id = w,
        !.budget_used = latest.budget_used + worker[w].charge,
        !.lease_expires_in = None]

(* The decision is taken on the row re-read in the except branch, the row  *)
(* written is otherwise the one the job was claimed with.                  *)
FailedRow(w, latest) ==
    LET retry == latest.attempt_count < MaxAttempts[worker[w].job]
        factor == IF latest.attempt_count > 1 THEN latest.attempt_count ELSE 1
    IN [worker[w].row EXCEPT
            !.status = IF retry THEN "QUEUED" ELSE "FAILED",
            !.worker_id = w,
            !.budget_used = latest.budget_used + worker[w].charge,
            !.next_run_in = IF retry THEN BackoffSeconds * factor ELSE latest.next_run_in,
            !.lease_expires_in = None]

Raise(w, charge) ==
    worker' = [worker EXCEPT ![w].pc = "raised", ![w].charge = charge]

ToSave(w, row) ==
    worker' = [worker EXCEPT ![w].pc = "saving", ![w].row = row]

OnlyWorker == UNCHANGED <<queue_jobs, client, operator, crashes, overruns, calls>>

(* require_repo_permission raises: the requester lost the permission, or   *)
(* the tenant was suspended, after the job was enqueued.                   *)
RefuseActor(w) ==
    /\ worker[w].pc = "claimed"
    /\ Raise(w, 0)
    /\ OnlyWorker

(* A cancel request is seen before execution begins.                       *)
SkipCancelled(w) ==
    /\ worker[w].pc = "claimed"
    /\ queue_jobs[worker[w].job].cancel_requested
    /\ ToSave(w, CancelledRow(queue_jobs[worker[w].job], w))
    /\ OnlyWorker

(* Slip: the cost of the attempt about to start is left out. *)
WithinBudgetSoFar(w) ==
    worker[w].row.budget_used <= BudgetUnits[worker[w].job]

WithinBudget(w) ==
    worker[w].row.budget_used + AttemptCost[worker[w].job] <= BudgetUnits[worker[w].job]

ExceedBudget(w) ==
    /\ worker[w].pc = "claimed"
    /\ ~queue_jobs[worker[w].job].cancel_requested
    /\ ~WithinBudget(w)
    /\ Raise(w, 0)
    /\ OnlyWorker

StartDispatch(w) ==
    /\ worker[w].pc = "claimed"
    /\ ~queue_jobs[worker[w].job].cancel_requested
    /\ WithinBudget(w)
    /\ worker' = [worker EXCEPT ![w].pc = "dispatching",
                                ![w].charge = AttemptCost[worker[w].job]]
    /\ OnlyWorker

DispatchSucceeds(w) ==
    /\ worker[w].pc = "dispatching"
    /\ ToSave(w, SucceededRow(w))
    /\ OnlyWorker

(* The use case raises, or it succeeds and the success notification, which *)
(* is sent inside the same try block, raises.                              *)
DispatchRaises(w) ==
    /\ worker[w].pc = "dispatching"
    /\ Raise(w, worker[w].charge)
    /\ OnlyWorker

HandleFailure(w) ==
    LET latest == queue_jobs[worker[w].job] IN
    /\ worker[w].pc = "raised"
    /\ ToSave(w, IF latest.cancel_requested THEN CancelledRow(latest, w)
                                            ELSE FailedRow(w, latest))
    /\ OnlyWorker

(* _persist_job: save_queue_job replaces the whole row, whatever it holds. *)
SaveOutcome(w) ==
    /\ worker[w].pc = "saving"
    /\ queue_jobs' = [queue_jobs EXCEPT ![worker[w].job] = worker[w].row]
    /\ worker' = [worker EXCEPT ![w] = Idle]
    /\ UNCHANGED <<client, operator, crashes, overruns, calls>>

(* The process dies while it holds a job; a new one starts under its id.   *)
Crash(w) ==
    /\ Working(w)
    /\ crashes < MaxCrashes
    /\ crashes' = crashes + 1
    /\ worker' = [worker EXCEPT ![w] = Idle]
    /\ UNCHANGED <<queue_jobs, client, operator, overruns, calls>>

WorkerStep(w) ==
    \/ RequeueExpired(w) \/ ClaimNothing(w) \/ ClaimJob(w)
    \/ RefuseActor(w) \/ SkipCancelled(w) \/ ExceedBudget(w)
    \/ StartDispatch(w) \/ DispatchSucceeds(w) \/ DispatchRaises(w)
    \/ HandleFailure(w) \/ SaveOutcome(w)

-----------------------------------------------------------------------------
(* Operators: cancel_job and resume_job read the row in one transaction    *)
(* and replace the whole row in another.                                   *)

Call(o, j, row) ==
    /\ operator[o] = NoCall
    /\ calls < MaxCalls
    /\ calls' = calls + 1
    /\ operator' = [operator EXCEPT ![o] = [job |-> j, row |-> row]]
    /\ UNCHANGED <<queue_jobs, client, worker, crashes, overruns>>

(* Slip: a running job's lease is cleared with the cancel request. *)
CancelJobDropsLease(o, j) ==
    LET row == queue_jobs[j] IN
    /\ row.status \notin {"ABSENT", "SUCCEEDED", "CANCELLED"}
    /\ Call(o, j, [row EXCEPT
            !.status = IF row.status = "QUEUED" THEN "CANCELLED" ELSE row.status,
            !.lease_expires_in = None, !.cancel_requested = TRUE])

CancelJob(o, j) ==
    LET row == queue_jobs[j] IN
    /\ row.status \notin {"ABSENT", "SUCCEEDED", "CANCELLED"}
    /\ Call(o, j, [row EXCEPT
            !.status = IF row.status = "QUEUED" THEN "CANCELLED" ELSE row.status,
            !.cancel_requested = TRUE])

(* Slip: the last attempt's units are refunded. *)
ResumeJobRefunds(o, j, reset_attempts) ==
    LET row == queue_jobs[j] IN
    /\ row.status \in {"FAILED", "CANCELLED"}
    /\ reset_attempts \/ row.attempt_count < MaxAttempts[j]
    /\ Call(o, j, [FreshRow EXCEPT
            !.attempt_count = IF reset_attempts THEN 0 ELSE row.attempt_count,
            !.budget_used = IF reset_attempts THEN 0 ELSE row.budget_used - AttemptCost[j]])

ResumeJob(o, j, reset_attempts) ==
    LET row == queue_jobs[j] IN
    /\ row.status \in {"FAILED", "CANCELLED"}
    /\ reset_attempts \/ row.attempt_count < MaxAttempts[j]
    /\ Call(o, j, [row EXCEPT
            !.status = "QUEUED", !.worker_id = None,
            !.attempt_count = IF reset_attempts THEN 0 ELSE @,
            !.budget_used = IF reset_attempts THEN 0 ELSE @,
            !.next_run_in = 0, !.lease_expires_in = None,
            !.cancel_requested = FALSE])

SaveCall(o) ==
    /\ operator[o] # NoCall
    /\ queue_jobs' = [queue_jobs EXCEPT ![operator[o].job] = operator[o].row]
    /\ operator' = [operator EXCEPT ![o] = NoCall]
    /\ UNCHANGED <<client, worker, crashes, overruns, calls>>

-----------------------------------------------------------------------------
(* Time. *)

Sooner(t) == IF t = None \/ t = 0 THEN t ELSE t - 1

Aged(row) == [row EXCEPT !.next_run_in = Sooner(@), !.lease_expires_in = Sooner(@)]

(* Some worker still runs a job whose lease this tick lets lapse.          *)
Overrunning ==
    \E w \in Workers :
        /\ Working(w)
        /\ queue_jobs[worker[w].job].status = "RUNNING"
        /\ queue_jobs[worker[w].job].worker_id = w
        /\ queue_jobs[worker[w].job].lease_expires_in = 1

Tick ==
    /\ Overrunning => overruns < MaxOverruns
    /\ overruns' = IF Overrunning THEN overruns + 1 ELSE overruns
    /\ queue_jobs' = [j \in Jobs |-> Aged(queue_jobs[j])]
    /\ worker' = [w \in Workers |-> [worker[w] EXCEPT !.row = Aged(@)]]
    /\ operator' = [o \in Operators |-> [operator[o] EXCEPT !.row = Aged(@)]]
    /\ UNCHANGED <<client, crashes, calls>>

-----------------------------------------------------------------------------
Next ==
    \/ \E j \in Jobs : CountPending(j) \/ CountTenant(j) \/ Insert(j)
    \/ \E w \in Workers : WorkerStep(w) \/ Crash(w)
    \/ \E o \in Operators : SaveCall(o)
    \/ \E o \in Operators, j \in Jobs :
         CancelJob(o, j) \/ \E reset \in BOOLEAN : ResumeJob(o, j, reset)
    \/ Tick

Spec == Init /\ [][Next]_vars

(* Workers are restarted whenever they end (docker-compose.yml: restart:   *)
(* unless-stopped), a call once begun returns, time passes; nothing obliges *)
(* a client to enqueue, an operator to call or a process to die.           *)
Fairness ==
    /\ \A w \in Workers : WF_vars(WorkerStep(w))
    /\ \A o \in Operators : WF_vars(SaveCall(o))
    /\ WF_vars(Tick)

FairSpec == Spec /\ Fairness

-----------------------------------------------------------------------------
(* Properties. *)

(* A row carries a lease exactly while it is RUNNING, and a RUNNING row    *)
(* names its worker, whatever stale row any process writes back: otherwise *)
(* _requeue_expired_queue_jobs_conn would never see the row again and it   *)
(* would hold its concurrency key and its tenant's slot for ever.          *)
LeaseIffRunning ==
    \A j \in Jobs :
        /\ queue_jobs[j].status = "RUNNING" <=> queue_jobs[j].lease_expires_in # None
        /\ queue_jobs[j].status = "RUNNING" => queue_jobs[j].worker_id # None

(* At most one RUNNING row per concurrency key: two claims, a reclaim and  *)
(* a late save between them never let a key run twice.                     *)
KeyExclusive ==
    \A i, j \in Running(queue_jobs) : i # j /\ KeyOf[i] # None => KeyOf[i] # KeyOf[j]

(* No tenant has more RUNNING rows than queue_max_running_jobs_per_tenant. *)
TenantCap ==
    \A j \in Jobs : TenantOf[j] # None =>
        TenantRunning(queue_jobs, TenantOf[j]) <= MaxRunningPerTenant

(* No worker id has more RUNNING rows than queue_max_running_jobs_per_worker, *)
(* the rows its dead predecessors left behind included.                    *)
WorkerCap ==
    \A w \in Workers : WorkerRunning(queue_jobs, w) <= MaxRunningPerWorker

(* While no dispatch outlives its lease: two worker processes are never    *)
(* working on the same job, nor on two jobs with one concurrency key, even *)
(* though a crashed worker's job is handed to another.                     *)
OneExecutor ==
    \A v, w \in Workers : v # w /\ Working(v) /\ Working(w) =>
        /\ worker[v].job # worker[w].job
        /\ KeyOf[worker[v].job] # None => KeyOf[worker[v].job] # KeyOf[worker[w].job]

(* The units charged to a job never exceed the job's budget, while no      *)
(* lease is outlived: the check uses the row as claimed, and the charge is *)
(* added to the row as re-read after the failure.                          *)
BudgetRespected ==
    \A j \in Jobs : queue_jobs[j].budget_used <= BudgetUnits[j]

(* A job is attempted beyond max_attempts only on account of workers that  *)
(* died: once for each.                                                    *)
AttemptsWithinCrashes ==
    \A j \in Jobs : queue_jobs[j].attempt_count <= MaxAttempts[j] + crashes

(* A check-then-insert race lets at most one job per further client past   *)
(* budget_max_pending_jobs.                                                *)
PendingBounded ==
    Cardinality(Pending) <= MaxPendingJobs + MaxClients - 1

(* A job once SUCCEEDED is never run or cancelled again: cancel_job and    *)
(* resume_job refuse it, and no late save may bring it back.               *)
SucceededIsFinal ==
    [][\A j \in Jobs : queue_jobs[j].status = "SUCCEEDED"
                         => queue_jobs'[j].status = "SUCCEEDED"]_queue_jobs

(* The queue as its clients see it: a job waits while its row is QUEUED or *)
(* RUNNING and is executed while some worker process is at work on it,     *)
(* whatever its row says meanwhile.                                        *)
phase ==
    [j \in Jobs |-> CASE queue_jobs[j].status = "ABSENT" -> "absent"
                      [] queue_jobs[j].status \in Final -> "settled"
                      [] OTHER -> "waiting"]
executor ==
    [j \in Jobs |-> IF \E w \in Workers : Working(w) /\ worker[w].job = j
                    THEN CHOOSE w \in Workers : Working(w) /\ worker[w].job = j
                    ELSE None]

Work == INSTANCE ExclusiveWork

(* While no dispatch outlives its lease the queue implements exclusive     *)
(* work: claims, requeues, deaths and saves amount to starting and ending  *)
(* exclusive executions of jobs that are not settled.                      *)
ImplementsExclusiveWork == Work!Spec

(* The queue flow of docs/architecture.md: a job is marked failed when its *)
(* attempts are exhausted, so none is attempted more often than that.      *)
AttemptsBounded ==
    \A j \in Jobs : queue_jobs[j].attempt_count <= MaxAttempts[j]

(* docs/operations.md: a job stuck in RUNNING is cancelled with cancel-job, *)
(* so a cancellation once requested takes effect, or the job ends first.   *)
CancelTakesEffect ==
    \A j \in Jobs :
        queue_jobs[j].status \in {"QUEUED", "RUNNING"} /\ queue_jobs[j].cancel_requested
            ~> queue_jobs[j].status \in Final

(* Every queued job eventually succeeds, fails or is cancelled, through    *)
(* retries, back-off and the deaths of workers.                            *)
EveryJobSettles ==
    \A j \in Jobs : queue_jobs[j].status = "QUEUED" ~> queue_jobs[j].status \in Final

(* No row stays RUNNING for ever, whatever died and whatever was written   *)
(* back over it.                                                           *)
RunningEnds ==
    \A j \in Jobs : queue_jobs[j].status = "RUNNING" ~> queue_jobs[j].status # "RUNNING"

=============================================================================
