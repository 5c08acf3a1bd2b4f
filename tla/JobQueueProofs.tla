--------------------------- MODULE JobQueueProofs ---------------------------
(***************************************************************************)
(* Theorems about JobQueue for every value of its constants, with proofs.  *)
(***************************************************************************)
EXTENDS JobQueue, FiniteSetTheorems, TLAPS

-----------------------------------------------------------------------------
(* What the helpers on rows return.                                        *)

(* Every row the code builds from a row of the table is a row of the table. *)
LEMMA RowTypes ==
    ASSUME NEW row \in Row, NEW w \in Workers
    PROVE  /\ FreshRow \in Row /\ AbsentRow \in Row
           /\ RequeuedRow(row) \in Row
           /\ ClaimedRow(row, w) \in Row
           /\ CancelledRow(row, w) \in Row
           /\ Aged(row) \in Row
  <1>1. FreshRow \in Row /\ AbsentRow \in Row
    BY DEF FreshRow, AbsentRow, Row, Status, Final
  <1>2. RequeuedRow(row) \in Row
    BY DEF RequeuedRow, Row, Status, Final
  <1>3. ClaimedRow(row, w) \in Row
    <2>1. LeaseSeconds \in Nat
      BY QueueAssumption
    <2>2. row.attempt_count + 1 \in Nat
      BY DEF Row
    <2> QED
      BY <2>1, <2>2 DEF ClaimedRow, Row, Status, Final
  <1>4. CancelledRow(row, w) \in Row
    BY DEF CancelledRow, Row, Status, Final
  <1>5. Aged(row) \in Row
    <2>1. \A t \in Nat \cup {None} : Sooner(t) \in Nat \cup {None}
      BY QueueAssumption DEF Sooner
    <2>2. \A t \in Nat : Sooner(t) \in Nat
      BY QueueAssumption DEF Sooner
    <2> QED
      BY <2>1, <2>2 DEF Aged, Row
  <1> QED
    BY <1>1, <1>2, <1>3, <1>4, <1>5

(* TypeOK, and every worker that is at work has a job.                     *)
TypeInv ==
    /\ TypeOK
    /\ \A w \in Workers : Working(w) => worker[w].job \in Jobs

LEMMA InitTypeInv == Init => TypeInv
  <1> SUFFICES ASSUME Init PROVE TypeInv
    OBVIOUS
  <1>1. FreshRow \in Row /\ AbsentRow \in Row
    BY DEF FreshRow, AbsentRow, Row, Status, Final
  <1>2. Idle \in WorkerState /\ NoCall \in [job : Jobs \cup {None}, row : Row]
    BY <1>1 DEF Idle, NoCall, WorkerState
  <1>3. queue_jobs \in [Jobs -> Row]
    BY <1>1 DEF Init
  <1>4. TypeOK
    BY <1>2, <1>3, QueueAssumption DEF Init, TypeOK
  <1>5. \A w \in Workers : ~Working(w)
    BY DEF Init, Idle, Working, Holding
  <1> QED
    BY <1>4, <1>5 DEF TypeInv


(* A step that replaces one worker's state by one that has a job whenever  *)
(* it is at work keeps the workers well typed.                             *)
LEMMA SetWorker ==
    ASSUME TypeInv, NEW w \in Workers, NEW s \in WorkerState,
           s.pc \in Holding => s.job \in Jobs,
           worker' = [worker EXCEPT ![w] = s]
    PROVE  /\ worker' \in [Workers -> WorkerState]
           /\ \A v \in Workers : Working(v)' => worker'[v].job \in Jobs
  <1>1. worker \in [Workers -> WorkerState]
    BY DEF TypeInv, TypeOK
  <1>2. worker' \in [Workers -> WorkerState]
    BY <1>1
  <1>3. ASSUME NEW v \in Workers, Working(v)'
        PROVE  worker'[v].job \in Jobs
    <2>1. CASE v = w
      BY <1>1, <1>3, <2>1 DEF Working
    <2>2. CASE v # w
      BY <1>1, <1>3, <2>2 DEF TypeInv, Working
    <2> QED
      BY <2>1, <2>2
  <1> QED
    BY <1>2, <1>3

(* A step of a worker that leaves the table and the rest alone.            *)
LEMMA LocalStep ==
    ASSUME TypeInv, OnlyWorker, NEW w \in Workers, NEW s \in WorkerState,
           s.pc \in Holding => s.job \in Jobs,
           worker' = [worker EXCEPT ![w] = s]
    PROVE  TypeInv'
  BY SetWorker DEF TypeInv, TypeOK, OnlyWorker

LEMMA RaiseType ==
    ASSUME TypeInv, OnlyWorker, NEW w \in Workers, Working(w),
           NEW charge \in Nat, Raise(w, charge)
    PROVE  TypeInv'
  <1> DEFINE s == [worker[w] EXCEPT !.pc = "raised", !.charge = charge]
  <1>1. worker[w] \in WorkerState /\ worker[w].job \in Jobs
    BY DEF TypeInv, TypeOK
  <1>2. s \in WorkerState /\ s.job \in Jobs
    BY <1>1 DEF WorkerState
  <1>3. worker' = [worker EXCEPT ![w] = s]
    BY DEF Raise
  <1> HIDE DEF s
  <1> QED
    BY <1>2, <1>3, LocalStep

LEMMA ToSaveType ==
    ASSUME TypeInv, OnlyWorker, NEW w \in Workers, Working(w),
           NEW row \in Row, ToSave(w, row)
    PROVE  TypeInv'
  <1> DEFINE s == [worker[w] EXCEPT !.pc = "saving", !.row = row]
  <1>1. worker[w] \in WorkerState /\ worker[w].job \in Jobs
    BY DEF TypeInv, TypeOK
  <1>2. s \in WorkerState /\ s.job \in Jobs
    BY <1>1 DEF WorkerState
  <1>3. worker' = [worker EXCEPT ![w] = s]
    BY DEF ToSave
  <1> HIDE DEF s
  <1> QED
    BY <1>2, <1>3, LocalStep

(* The rows a worker makes when an attempt ends.                           *)
LEMMA OutcomeTypes ==
    ASSUME TypeInv, NEW w \in Workers, Working(w), NEW latest \in Row
    PROVE  SucceededRow(w) \in Row /\ FailedRow(w, latest) \in Row
  <1>1. /\ worker[w].row \in Row /\ worker[w].charge \in Nat
        /\ worker[w].job \in Jobs
    BY DEF TypeInv, TypeOK, WorkerState
  <1>2. SucceededRow(w) \in Row
    <2>1. worker[w].row.budget_used + worker[w].charge \in Nat
      BY <1>1 DEF Row
    <2> QED
      BY <1>1, <2>1 DEF SucceededRow, Row, Status, Final
  <1>3. FailedRow(w, latest) \in Row
    <2> DEFINE retry == latest.attempt_count < MaxAttempts[worker[w].job]
               factor == IF latest.attempt_count > 1 THEN latest.attempt_count ELSE 1
               nextRun == IF retry THEN BackoffSeconds * factor ELSE latest.next_run_in
               used == latest.budget_used + worker[w].charge
               status == IF retry THEN "QUEUED" ELSE "FAILED"
    <2>1. used \in Nat
      BY <1>1 DEF Row
    <2>2. nextRun \in Nat
      <3>1. BackoffSeconds \in Nat /\ latest.next_run_in \in Nat
        BY QueueAssumption DEF Row
      <3>2. factor \in Nat
        BY DEF Row
      <3>3. BackoffSeconds * factor \in Nat
        BY <3>1, <3>2
      <3> QED
        BY <3>1, <3>3
    <2>3. status \in Status
      BY DEF Status, Final
    <2>4. FailedRow(w, latest) =
            [worker[w].row EXCEPT !.status = status, !.worker_id = w,
               !.budget_used = used, !.next_run_in = nextRun, !.lease_expires_in = None]
      BY DEF FailedRow
    <2> HIDE DEF retry, factor, nextRun, used, status
    <2> QED
      BY <1>1, <2>1, <2>2, <2>3, <2>4 DEF Row
  <1> QED
    BY <1>2, <1>3


(* The requeued table is a table.                                          *)
LEMMA RequeuedType ==
    ASSUME TypeInv
    PROVE  Requeued(queue_jobs) \in [Jobs -> Row]
  <1>1. \A j \in Jobs : queue_jobs[j] \in Row
    BY DEF TypeInv, TypeOK
  <1>2. ASSUME NEW j \in Jobs
        PROVE  RequeuedRow(queue_jobs[j]) \in Row
    BY <1>1 DEF RequeuedRow, Row, Status, Final
  <1> QED
    BY <1>1, <1>2 DEF Requeued

(* Every step of a worker keeps the types.                                 *)
LEMMA WorkerTypes ==
    ASSUME TypeInv, NEW w \in Workers, WorkerStep(w)
    PROVE  TypeInv'
  <1>1. /\ worker[w] \in WorkerState /\ worker[w].row \in Row
        /\ worker[w].charge \in Nat
        /\ Working(w) => worker[w].job \in Jobs /\ queue_jobs[worker[w].job] \in Row
    BY DEF TypeInv, TypeOK, WorkerState
  <1>2. Idle \in WorkerState /\ Idle.pc \notin Holding
    BY RowTypes, <1>1 DEF Idle, WorkerState, Holding
  <1>3. CASE RequeueExpired(w)
    <2> DEFINE s == [worker[w] EXCEPT !.pc = "claiming"]
    <2>1. s \in WorkerState /\ s.pc \notin Holding
      BY <1>1 DEF WorkerState, Holding
    <2>2. worker' = [worker EXCEPT ![w] = s]
      BY <1>3 DEF RequeueExpired
    <2> HIDE DEF s
    <2>3. queue_jobs' \in [Jobs -> Row]
      BY <1>3, RequeuedType DEF RequeueExpired
    <2> QED
      BY <1>3, <2>1, <2>2, <2>3, SetWorker DEF RequeueExpired, TypeInv, TypeOK
  <1>4. CASE ClaimNothing(w)
    <2>1. queue_jobs' \in [Jobs -> Row]
      BY <1>4, RequeuedType DEF ClaimNothing
    <2> QED
      BY <1>2, <1>4, <2>1, SetWorker DEF ClaimNothing, TypeInv, TypeOK
  <1>5. CASE ClaimJob(w)
    <2> DEFINE rows == Requeued(queue_jobs)
    <2>1. PICK j \in Jobs :
            /\ queue_jobs' = [rows EXCEPT ![j] = ClaimedRow(rows[j], w)]
            /\ worker' = [worker EXCEPT ![w] =
                 [pc |-> "claimed", job |-> j, row |-> ClaimedRow(rows[j], w), charge |-> 0]]
      BY <1>5 DEF ClaimJob, Candidates, Scanned, Due
    <2>2. rows \in [Jobs -> Row]
      BY RequeuedType
    <2> HIDE DEF rows
    <2>3. ClaimedRow(rows[j], w) \in Row
      BY <2>2, RowTypes
    <2>4. queue_jobs' \in [Jobs -> Row]
      BY <2>1, <2>2, <2>3
    <2> DEFINE s == [pc |-> "claimed", job |-> j, row |-> ClaimedRow(rows[j], w), charge |-> 0]
    <2>5. s \in WorkerState /\ s.job \in Jobs
      BY <2>3 DEF WorkerState
    <2>6. worker' = [worker EXCEPT ![w] = s]
      BY <2>1
    <2> HIDE DEF s
    <2> QED
      BY <1>5, <2>4, <2>5, <2>6, SetWorker DEF ClaimJob, TypeInv, TypeOK
  <1>6. CASE RefuseActor(w)
    BY <1>6, RaiseType DEF RefuseActor, Working, Holding
  <1>7. CASE SkipCancelled(w)
    <2>1. Working(w)
      BY <1>7 DEF SkipCancelled, Working, Holding
    <2>2. CancelledRow(queue_jobs[worker[w].job], w) \in Row
      BY <1>1, <2>1, RowTypes
    <2> QED
      BY <1>7, <2>1, <2>2, ToSaveType DEF SkipCancelled
  <1>8. CASE ExceedBudget(w)
    BY <1>8, RaiseType DEF ExceedBudget, Working, Holding
  <1>9. CASE StartDispatch(w)
    <2> DEFINE s == [worker[w] EXCEPT !.pc = "dispatching",
                                      !.charge = AttemptCost[worker[w].job]]
    <2>1. Working(w)
      BY <1>9 DEF StartDispatch, Working, Holding
    <2>2. AttemptCost[worker[w].job] \in Nat
      BY <1>1, <2>1, QueueAssumption
    <2>3. s \in WorkerState /\ s.job \in Jobs
      BY <1>1, <2>1, <2>2 DEF WorkerState
    <2>4. worker' = [worker EXCEPT ![w] = s]
      BY <1>9 DEF StartDispatch
    <2> HIDE DEF s
    <2> QED
      BY <1>9, <2>3, <2>4, LocalStep DEF StartDispatch
  <1>10. CASE DispatchSucceeds(w)
    <2>1. Working(w)
      BY <1>10 DEF DispatchSucceeds, Working, Holding
    <2>2. SucceededRow(w) \in Row
      BY <1>1, <2>1, OutcomeTypes
    <2> QED
      BY <1>10, <2>1, <2>2, ToSaveType DEF DispatchSucceeds
  <1>11. CASE DispatchRaises(w)
    BY <1>1, <1>11, RaiseType DEF DispatchRaises, Working, Holding
  <1>12. CASE HandleFailure(w)
    <2> DEFINE latest == queue_jobs[worker[w].job]
               row == IF latest.cancel_requested THEN CancelledRow(latest, w)
                                                 ELSE FailedRow(w, latest)
    <2>1. Working(w)
      BY <1>12 DEF HandleFailure, Working, Holding
    <2>2. latest \in Row
      BY <1>1, <2>1
    <2>3. row \in Row
      BY <2>1, <2>2, OutcomeTypes, RowTypes
    <2>4. OnlyWorker /\ ToSave(w, row)
      BY <1>12 DEF HandleFailure
    <2> HIDE DEF row
    <2> QED
      BY <2>1, <2>3, <2>4, ToSaveType
  <1>13. CASE SaveOutcome(w)
    <2>1. queue_jobs' \in [Jobs -> Row]
      BY <1>1, <1>13 DEF SaveOutcome, TypeInv, TypeOK
    <2> QED
      BY <1>2, <1>13, <2>1, SetWorker DEF SaveOutcome, TypeInv, TypeOK
  <1> QED
    BY <1>3, <1>4, <1>5, <1>6, <1>7, <1>8, <1>9, <1>10, <1>11, <1>12, <1>13
    DEF WorkerStep


(* What a client that enqueues does.                                       *)
ClientStep(j) == CountPending(j) \/ CountTenant(j) \/ Insert(j)

LEMMA ClientTypes ==
    ASSUME TypeInv, NEW j \in Jobs, ClientStep(j)
    PROVE  TypeInv'
  <1>1. CASE CountPending(j)
    BY <1>1 DEF CountPending, TypeInv, TypeOK, Working
  <1>2. CASE CountTenant(j)
    BY <1>2 DEF CountTenant, TypeInv, TypeOK, Working
  <1>3. CASE Insert(j)
    <2>1. FreshRow \in Row
      BY DEF FreshRow, Row, Status, Final
    <2> QED
      BY <1>3, <2>1 DEF Insert, TypeInv, TypeOK, Working
  <1> QED
    BY <1>1, <1>2, <1>3 DEF ClientStep

LEMMA CrashTypes ==
    ASSUME TypeInv, NEW w \in Workers, Crash(w)
    PROVE  TypeInv'
  <1>1. Idle \in WorkerState /\ Idle.pc \notin Holding
    BY DEF Idle, AbsentRow, FreshRow, WorkerState, Holding, Row, Status, Final
  <1>2. crashes' \in 0..MaxCrashes
    BY QueueAssumption DEF Crash, TypeInv, TypeOK
  <1> QED
    BY <1>1, <1>2, SetWorker DEF Crash, TypeInv, TypeOK

(* The rows cancel_job and resume_job write are rows.                      *)
LEMMA CallTypes ==
    ASSUME TypeInv, NEW o \in Operators, NEW j \in Jobs,
           CancelJob(o, j) \/ \E reset \in BOOLEAN : ResumeJob(o, j, reset)
    PROVE  TypeInv'
  <1>1. queue_jobs[j] \in Row
    BY DEF TypeInv, TypeOK
  <1>2. PICK row \in Row : Call(o, j, row)
    <2>1. CASE CancelJob(o, j)
      <3> DEFINE row == [queue_jobs[j] EXCEPT
            !.status = IF queue_jobs[j].status = "QUEUED" THEN "CANCELLED"
                                                          ELSE queue_jobs[j].status,
            !.cancel_requested = TRUE]
      <3>1. row \in Row
        BY <1>1 DEF Row, Status, Final
      <3>2. Call(o, j, row)
        BY <2>1 DEF CancelJob
      <3> HIDE DEF row
      <3> QED
        BY <3>1, <3>2
    <2>2. ASSUME NEW reset \in BOOLEAN, ResumeJob(o, j, reset)
          PROVE  \E row \in Row : Call(o, j, row)
      <3> DEFINE row == [queue_jobs[j] EXCEPT
            !.status = "QUEUED", !.worker_id = None,
            !.attempt_count = IF reset THEN 0 ELSE @,
            !.budget_used = IF reset THEN 0 ELSE @,
            !.next_run_in = 0, !.lease_expires_in = None,
            !.cancel_requested = FALSE]
      <3>1. row \in Row
        BY <1>1 DEF Row, Status, Final
      <3>2. Call(o, j, row)
        BY <2>2 DEF ResumeJob
      <3> HIDE DEF row
      <3> QED
        BY <3>1, <3>2
    <2> QED
      BY <2>1, <2>2
  <1>3. calls' \in 0..MaxCalls
    BY <1>2, QueueAssumption DEF Call, TypeInv, TypeOK
  <1> QED
    BY <1>2, <1>3 DEF Call, TypeInv, TypeOK, Working

LEMMA SaveCallTypes ==
    ASSUME TypeInv, NEW o \in Operators, SaveCall(o)
    PROVE  TypeInv'
  <1>1. NoCall \in [job : Jobs \cup {None}, row : Row]
    BY DEF NoCall, AbsentRow, FreshRow, Row, Status, Final
  <1>2. operator[o].row \in Row
    BY DEF TypeInv, TypeOK
  <1>3. queue_jobs' \in [Jobs -> Row]
    BY <1>2 DEF SaveCall, TypeInv, TypeOK
  <1> QED
    BY <1>1, <1>3 DEF SaveCall, TypeInv, TypeOK, Working

LEMMA TickTypes ==
    ASSUME TypeInv, Tick
    PROVE  TypeInv'
  <1>1. \A row \in Row : Aged(row) \in Row
    <2>1. \A t \in Nat \cup {None} : Sooner(t) \in Nat \cup {None}
      BY QueueAssumption DEF Sooner
    <2>2. \A t \in Nat : Sooner(t) \in Nat
      BY QueueAssumption DEF Sooner
    <2> QED
      BY <2>1, <2>2 DEF Aged, Row
  <1>2. queue_jobs' \in [Jobs -> Row]
    BY <1>1 DEF Tick, TypeInv, TypeOK
  <1>3. ASSUME NEW w \in Workers
        PROVE  /\ worker'[w] \in WorkerState
               /\ worker'[w].pc = worker[w].pc /\ worker'[w].job = worker[w].job
    <2>1. worker'[w] = [worker[w] EXCEPT !.row = Aged(worker[w].row)]
      BY <1>3 DEF Tick
    <2>2. worker[w] \in WorkerState /\ Aged(worker[w].row) \in Row
      BY <1>1 DEF TypeInv, TypeOK, WorkerState
    <2> QED
      BY <2>1, <2>2 DEF WorkerState
  <1>4. worker' \in [Workers -> WorkerState]
    BY <1>3 DEF Tick
  <1>5. ASSUME NEW o \in Operators
        PROVE  operator'[o] \in [job : Jobs \cup {None}, row : Row]
    <2>1. operator'[o] = [operator[o] EXCEPT !.row = Aged(operator[o].row)]
      BY <1>5 DEF Tick
    <2> QED
      BY <1>1, <2>1 DEF TypeInv, TypeOK
  <1>6. operator' \in [Operators -> [job : Jobs \cup {None}, row : Row]]
    BY <1>5 DEF Tick
  <1>7. overruns' \in 0..MaxOverruns
    BY QueueAssumption DEF Tick, TypeInv, TypeOK
  <1> QED
    BY <1>2, <1>3, <1>4, <1>6, <1>7 DEF Tick, TypeInv, TypeOK, Working

LEMMA NextTypeInv == TypeInv /\ [Next]_vars => TypeInv'
  <1> SUFFICES ASSUME TypeInv, [Next]_vars PROVE TypeInv'
    OBVIOUS
  <1>1. CASE UNCHANGED vars
    BY <1>1 DEF vars, TypeInv, TypeOK, Working
  <1>2. CASE Next
    BY <1>2, ClientTypes, WorkerTypes, CrashTypes, SaveCallTypes, CallTypes, TickTypes
    DEF Next, ClientStep
  <1> QED
    BY <1>1, <1>2

(* Type correctness: no interleaving of claims, late saves, cancellations, *)
(* resumptions and crashes writes anything but a row into the table.       *)
THEOREM TypeCorrect == Spec => []TypeOK
  <1>1. Spec => []TypeInv
    BY InitTypeInv, NextTypeInv, PTL DEF Spec
  <1>2. TypeInv => TypeOK
    BY DEF TypeInv
  <1> QED
    BY <1>1, <1>2, PTL


-----------------------------------------------------------------------------
(* Leases.  LeaseIffRunning is not inductive: SaveOutcome and SaveCall     *)
(* write rows that were made earlier, so the invariant speaks of those too. *)

Leased(row) ==
    /\ row.status = "RUNNING" <=> row.lease_expires_in # None
    /\ row.status = "RUNNING" => row.worker_id # None

Released(row) == row.status \in Final \cup {"QUEUED"} /\ row.lease_expires_in = None

LeaseInv ==
    /\ \A j \in Jobs : Leased(queue_jobs[j])
    /\ \A w \in Workers : worker[w].pc = "saving" => Released(worker[w].row)
    /\ \A o \in Operators : Leased(operator[o].row)

LEMMA InitLeaseInv == Init => LeaseInv
  BY DEF Init, LeaseInv, Leased, FreshRow, AbsentRow, Idle, NoCall

(* The rows a worker makes when an attempt ends hold no lease.             *)
LEMMA OutcomeReleased ==
    ASSUME TypeInv, NEW w \in Workers, Working(w), NEW latest \in Row
    PROVE  /\ Released(CancelledRow(latest, w))
           /\ Released(SucceededRow(w)) /\ Released(FailedRow(w, latest))
  <1>1. worker[w].row \in Row
    BY DEF TypeInv, TypeOK, WorkerState
  <1>2. Released(CancelledRow(latest, w))
    BY DEF Released, CancelledRow, Row, Final
  <1>3. Released(SucceededRow(w))
    BY <1>1 DEF Released, SucceededRow, Row, Final
  <1>4. Released(FailedRow(w, latest))
    BY <1>1 DEF Released, FailedRow, Row, Final
  <1> QED
    BY <1>2, <1>3, <1>4

(* Requeueing leaves every row leased exactly when it is RUNNING.          *)
LEMMA RequeuedLeased ==
    ASSUME TypeInv, LeaseInv, NEW j \in Jobs
    PROVE  Leased(Requeued(queue_jobs)[j])
  <1>1. queue_jobs[j] \in Row
    BY DEF TypeInv, TypeOK
  <1>2. Leased(RequeuedRow(queue_jobs[j]))
    BY <1>1 DEF RequeuedRow, Row, Leased
  <1> QED
    BY <1>2 DEF Requeued, LeaseInv

LEMMA ClaimedLeased ==
    ASSUME NEW row \in Row, NEW w \in Workers
    PROVE  Leased(ClaimedRow(row, w))
  <1>1. LeaseSeconds # None /\ w # None
    BY QueueAssumption
  <1> QED
    BY <1>1 DEF ClaimedRow, Leased, Row

LEMMA WorkerLeases ==
    ASSUME TypeInv, LeaseInv, NEW w \in Workers, WorkerStep(w)
    PROVE  LeaseInv'
  <1>1. worker \in [Workers -> WorkerState] /\ queue_jobs \in [Jobs -> Row]
    BY DEF TypeInv, TypeOK
  <1>2. Working(w) => worker[w].job \in Jobs /\ queue_jobs[worker[w].job] \in Row
    BY DEF TypeInv, TypeOK
  <1>3. ASSUME NEW row, UNCHANGED <<queue_jobs, operator>>, ToSave(w, row), Released(row)
        PROVE  LeaseInv'
    BY <1>1, <1>3 DEF LeaseInv, ToSave, WorkerState
  <1>4. ASSUME NEW charge, UNCHANGED <<queue_jobs, operator>>, Raise(w, charge)
        PROVE  LeaseInv'
    BY <1>1, <1>4 DEF LeaseInv, Raise, WorkerState
  <1>5. CASE RequeueExpired(w)
    BY <1>1, <1>5, RequeuedLeased DEF RequeueExpired, LeaseInv, WorkerState
  <1>6. CASE ClaimNothing(w)
    BY <1>1, <1>6, RequeuedLeased DEF ClaimNothing, LeaseInv, Idle
  <1>7. CASE ClaimJob(w)
    <2> DEFINE rows == Requeued(queue_jobs)
    <2>1. PICK j \in Jobs :
            /\ queue_jobs' = [rows EXCEPT ![j] = ClaimedRow(rows[j], w)]
            /\ worker' = [worker EXCEPT ![w] =
                 [pc |-> "claimed", job |-> j, row |-> ClaimedRow(rows[j], w), charge |-> 0]]
      BY <1>7 DEF ClaimJob, Candidates, Scanned, Due
    <2>2. rows \in [Jobs -> Row] /\ \A i \in Jobs : Leased(rows[i])
      BY RequeuedType, RequeuedLeased
    <2> HIDE DEF rows
    <2>3. Leased(ClaimedRow(rows[j], w))
      BY <2>2, ClaimedLeased
    <2>4. \A i \in Jobs : Leased(queue_jobs'[i])
      BY <2>1, <2>2, <2>3
    <2> QED
      BY <1>1, <1>7, <2>1, <2>4 DEF ClaimJob, LeaseInv
  <1>8. CASE RefuseActor(w) \/ ExceedBudget(w) \/ DispatchRaises(w)
    BY <1>4, <1>8 DEF RefuseActor, ExceedBudget, DispatchRaises, OnlyWorker
  <1>9. CASE SkipCancelled(w)
    BY <1>2, <1>3, <1>9, OutcomeReleased
    DEF SkipCancelled, OnlyWorker, Working, Holding
  <1>10. CASE StartDispatch(w)
    BY <1>1, <1>10 DEF StartDispatch, OnlyWorker, LeaseInv, WorkerState
  <1>11. CASE DispatchSucceeds(w)
    <2>1. Working(w)
      BY <1>11 DEF DispatchSucceeds, Working, Holding
    <2>2. Released(SucceededRow(w))
      BY <1>2, <2>1, OutcomeReleased
    <2> QED
      BY <1>3, <1>11, <2>2 DEF DispatchSucceeds, OnlyWorker
  <1>12. CASE HandleFailure(w)
    <2> DEFINE latest == queue_jobs[worker[w].job]
               row == IF latest.cancel_requested THEN CancelledRow(latest, w)
                                                 ELSE FailedRow(w, latest)
    <2>1. Working(w)
      BY <1>12 DEF HandleFailure, Working, Holding
    <2>2. Released(row)
      BY <1>2, <2>1, OutcomeReleased
    <2>3. OnlyWorker /\ ToSave(w, row)
      BY <1>12 DEF HandleFailure
    <2> HIDE DEF row
    <2> QED
      BY <1>3, <2>2, <2>3 DEF OnlyWorker
  <1>13. CASE SaveOutcome(w)
    <2>1. Leased(worker[w].row)
      BY <1>13 DEF SaveOutcome, LeaseInv, Released, Leased, Final
    <2> QED
      BY <1>1, <1>13, <2>1 DEF SaveOutcome, LeaseInv, Idle
  <1> QED
    BY <1>5, <1>6, <1>7, <1>8, <1>9, <1>10, <1>11, <1>12, <1>13 DEF WorkerStep

(* Time passing turns no lease into none.                                  *)
LEMMA AgedLease ==
    ASSUME NEW row \in Row
    PROVE  /\ Leased(row) => Leased(Aged(row))
           /\ Released(row) => Released(Aged(row))
           /\ Aged(row).status = row.status
  <1>1. row.lease_expires_in # None => Sooner(row.lease_expires_in) # None
    BY QueueAssumption DEF Sooner, Row
  <1>2. Sooner(None) = None
    BY DEF Sooner
  <1> QED
    BY <1>1, <1>2 DEF Aged, Leased, Released, Row

LEMMA NextLeaseInv == TypeInv /\ LeaseInv /\ [Next]_vars => LeaseInv'
  <1> SUFFICES ASSUME TypeInv, LeaseInv, [Next]_vars PROVE LeaseInv'
    OBVIOUS
  <1>1. /\ worker \in [Workers -> WorkerState] /\ queue_jobs \in [Jobs -> Row]
        /\ operator \in [Operators -> [job : Jobs \cup {None}, row : Row]]
    BY DEF TypeInv, TypeOK
  <1>2. CASE UNCHANGED vars
    BY <1>2 DEF vars, LeaseInv
  <1>3. ASSUME NEW j \in Jobs, ClientStep(j) PROVE LeaseInv'
    <2>1. Leased(FreshRow)
      BY DEF FreshRow, Leased
    <2> QED
      BY <1>1, <1>3, <2>1 DEF ClientStep, CountPending, CountTenant, Insert, LeaseInv
  <1>4. ASSUME NEW w \in Workers, Crash(w) PROVE LeaseInv'
    BY <1>1, <1>4 DEF Crash, LeaseInv, Idle
  <1>5. ASSUME NEW o \in Operators, SaveCall(o) PROVE LeaseInv'
    <2>1. Leased(NoCall.row)
      BY DEF NoCall, AbsentRow, FreshRow, Leased
    <2>2. Leased(operator[o].row)
      BY DEF LeaseInv
    <2> QED
      BY <1>1, <1>5, <2>1, <2>2 DEF SaveCall, LeaseInv
  <1>6. ASSUME NEW o \in Operators, NEW j \in Jobs, CancelJob(o, j) PROVE LeaseInv'
    <2> DEFINE row == [queue_jobs[j] EXCEPT
          !.status = IF queue_jobs[j].status = "QUEUED" THEN "CANCELLED"
                                                        ELSE queue_jobs[j].status,
          !.cancel_requested = TRUE]
    <2>1. Leased(row)
      BY <1>1 DEF LeaseInv, Leased, Row
    <2>2. Call(o, j, row)
      BY <1>6 DEF CancelJob
    <2> HIDE DEF row
    <2> QED
      BY <1>1, <2>1, <2>2 DEF Call, LeaseInv
  <1>7. ASSUME NEW o \in Operators, NEW j \in Jobs, NEW reset \in BOOLEAN,
               ResumeJob(o, j, reset)
        PROVE  LeaseInv'
    <2> DEFINE row == [queue_jobs[j] EXCEPT
          !.status = "QUEUED", !.worker_id = None,
          !.attempt_count = IF reset THEN 0 ELSE @,
          !.budget_used = IF reset THEN 0 ELSE @,
          !.next_run_in = 0, !.lease_expires_in = None,
          !.cancel_requested = FALSE]
    <2>1. Leased(row)
      BY <1>1 DEF Leased, Row
    <2>2. Call(o, j, row)
      BY <1>7 DEF ResumeJob
    <2> HIDE DEF row
    <2> QED
      BY <1>1, <2>1, <2>2 DEF Call, LeaseInv
  <1>8. CASE Tick
    <2>1. \A j \in Jobs : Leased(queue_jobs'[j])
      BY <1>1, <1>8, AgedLease DEF Tick, LeaseInv
    <2>2. ASSUME NEW w \in Workers, worker'[w].pc = "saving"
          PROVE  Released(worker'[w].row)
      <3>1. worker'[w] = [worker[w] EXCEPT !.row = Aged(worker[w].row)]
        BY <1>8 DEF Tick
      <3>2. worker[w] \in WorkerState /\ worker[w].row \in Row
        BY <1>1 DEF WorkerState
      <3>3. worker[w].pc = "saving" /\ worker'[w].row = Aged(worker[w].row)
        BY <2>2, <3>1, <3>2 DEF WorkerState
      <3> QED
        BY <3>2, <3>3, AgedLease DEF LeaseInv
    <2>3. ASSUME NEW o \in Operators
          PROVE  Leased(operator'[o].row)
      <3>1. operator'[o] = [operator[o] EXCEPT !.row = Aged(operator[o].row)]
        BY <1>8 DEF Tick
      <3>2. operator'[o].row = Aged(operator[o].row) /\ operator[o].row \in Row
        BY <1>1, <3>1
      <3> QED
        BY <3>2, AgedLease DEF LeaseInv
    <2> QED
      BY <2>1, <2>2, <2>3 DEF LeaseInv
  <1> QED
    BY <1>2, <1>3, <1>4, <1>5, <1>6, <1>7, <1>8, WorkerLeases DEF Next, ClientStep

(* A row carries a lease exactly while it is RUNNING, under any mixture of *)
(* claims, stale saves of workers and of operators, crashes and time.      *)
THEOREM LeasesMatchStatus == Spec => []LeaseIffRunning
  <1>1. Spec => [](TypeInv /\ LeaseInv)
    BY InitTypeInv, NextTypeInv, InitLeaseInv, NextLeaseInv, PTL DEF Spec
  <1>2. LeaseInv => LeaseIffRunning
    BY DEF LeaseInv, Leased, LeaseIffRunning
  <1> QED
    BY <1>1, <1>2, PTL


-----------------------------------------------------------------------------
(* Exclusion, for the queue as clients and workers alone use it.  A job is *)
(* made RUNNING only by a claim: a save writes a released row.             *)

LEMMA OnlyClaimsRun ==
    ASSUME Operators = {}, TypeInv, LeaseInv, [Next]_vars,
           \A w \in Workers : ~ClaimJob(w),
           NEW j \in Jobs, queue_jobs'[j].status = "RUNNING"
    PROVE  /\ queue_jobs[j].status = "RUNNING"
           /\ queue_jobs'[j].worker_id = queue_jobs[j].worker_id
  <1>1. worker \in [Workers -> WorkerState] /\ queue_jobs \in [Jobs -> Row]
    BY DEF TypeInv, TypeOK
  <1>2. CASE queue_jobs' = queue_jobs
    BY <1>2
  <1>3. CASE queue_jobs' = Requeued(queue_jobs)
    BY <1>1, <1>3 DEF Requeued, RequeuedRow, Row
  <1>4. ASSUME NEW i \in Jobs, Insert(i)
        PROVE  queue_jobs'[j] = queue_jobs[j]
    BY <1>1, <1>4 DEF Insert, FreshRow
  <1>5. ASSUME NEW w \in Workers, SaveOutcome(w)
        PROVE  queue_jobs'[j] = queue_jobs[j]
    BY <1>1, <1>5 DEF SaveOutcome, LeaseInv, Released, Final
  <1>6. CASE Tick
    <2>1. queue_jobs'[j] = Aged(queue_jobs[j])
      BY <1>6 DEF Tick
    <2> QED
      BY <1>1, <2>1 DEF Aged, Row
  <1>7. CASE UNCHANGED vars
    BY <1>2, <1>7 DEF vars
  <1>8. ASSUME NEW i \in Jobs, CountPending(i) \/ CountTenant(i)
        PROVE  queue_jobs' = queue_jobs
    BY <1>8 DEF CountPending, CountTenant
  <1>9. ASSUME NEW w \in Workers, WorkerStep(w) \/ Crash(w), ~SaveOutcome(w)
        PROVE  queue_jobs' = queue_jobs \/ queue_jobs' = Requeued(queue_jobs)
    BY <1>9 DEF WorkerStep, Crash, OnlyWorker, RequeueExpired, ClaimNothing, RefuseActor,
        SkipCancelled, ExceedBudget, StartDispatch, DispatchSucceeds, DispatchRaises,
        HandleFailure
  <1> QED
    BY <1>2, <1>3, <1>4, <1>5, <1>6, <1>7, <1>8, <1>9 DEF Next

(* What a claim does to the table.                                         *)
LEMMA ClaimEffect ==
    ASSUME TypeInv, NEW w \in Workers, ClaimJob(w)
    PROVE  LET rows == Requeued(queue_jobs) IN
           /\ ~AtWorkerCap(rows, w)
           /\ \E j \in Candidates(rows, w) :
                /\ j \in Jobs
                /\ rows[j].status = "QUEUED"
                /\ queue_jobs' = [rows EXCEPT ![j] = ClaimedRow(rows[j], w)]
                /\ worker' = [worker EXCEPT ![w] =
                     [pc |-> "claimed", job |-> j,
                      row |-> ClaimedRow(rows[j], w), charge |-> 0]]
                /\ queue_jobs'[j].status = "RUNNING" /\ queue_jobs'[j].worker_id = w
                /\ \A i \in Jobs \ {j} : queue_jobs'[i] = rows[i]
                /\ Running(queue_jobs') = Running(rows) \cup {j}
  <1> DEFINE rows == Requeued(queue_jobs)
  <1>1. ~AtWorkerCap(rows, w)
    BY DEF ClaimJob
  <1>2. PICK j \in Candidates(rows, w) :
          /\ queue_jobs' = [rows EXCEPT ![j] = ClaimedRow(rows[j], w)]
          /\ worker' = [worker EXCEPT ![w] =
               [pc |-> "claimed", job |-> j,
                row |-> ClaimedRow(rows[j], w), charge |-> 0]]
    BY DEF ClaimJob
  <1>3. rows \in [Jobs -> Row]
    BY RequeuedType
  <1>4. j \in Jobs /\ rows[j].status = "QUEUED"
    BY DEF Candidates, Scanned, Due
  <1> HIDE DEF rows
  <1>5. queue_jobs'[j] = ClaimedRow(rows[j], w)
    BY <1>2, <1>3, <1>4
  <1>6. queue_jobs'[j].status = "RUNNING" /\ queue_jobs'[j].worker_id = w
    <2>1. rows[j] \in Row
      BY <1>3, <1>4
    <2> QED
      BY <1>5, <2>1 DEF ClaimedRow, Row
  <1>7. \A i \in Jobs \ {j} : queue_jobs'[i] = rows[i]
    BY <1>2, <1>3
  <1>8. Running(queue_jobs') = Running(rows) \cup {j}
    BY <1>4, <1>6, <1>7 DEF Running
  <1> QED
    BY <1>1, <1>2, <1>4, <1>6, <1>7, <1>8 DEF rows

(* A row still RUNNING after the requeue was RUNNING for the same worker.  *)
LEMMA RequeueOnlyFrees ==
    ASSUME TypeInv, NEW j \in Running(Requeued(queue_jobs))
    PROVE  j \in Jobs /\ j \in Running(queue_jobs) /\ Requeued(queue_jobs)[j] = queue_jobs[j]
  <1>1. j \in Jobs /\ queue_jobs[j] \in Row /\ Requeued(queue_jobs)[j].status = "RUNNING"
    BY DEF Running, TypeInv, TypeOK
  <1>2. ~Expired(queue_jobs[j])
    BY <1>1 DEF Requeued, RequeuedRow, Row
  <1> QED
    BY <1>1, <1>2 DEF Requeued, Running

LEMMA NextKeyExclusive ==
    ASSUME Operators = {}
    PROVE  TypeInv /\ LeaseInv /\ KeyExclusive /\ [Next]_vars => KeyExclusive'
  <1> SUFFICES ASSUME TypeInv, LeaseInv, KeyExclusive, [Next]_vars PROVE KeyExclusive'
    OBVIOUS
  <1>1. CASE \A w \in Workers : ~ClaimJob(w)
    <2>1. Running(queue_jobs') \subseteq Running(queue_jobs)
      BY <1>1, OnlyClaimsRun DEF Running
    <2> QED
      BY <2>1 DEF KeyExclusive
  <1>2. ASSUME NEW w \in Workers, ClaimJob(w)
        PROVE  KeyExclusive'
    <2> DEFINE rows == Requeued(queue_jobs)
    <2>1. PICK j \in Candidates(rows, w) : Running(queue_jobs') = Running(rows) \cup {j}
      BY <1>2, ClaimEffect
    <2>2. KeyFree(rows, j)
      BY DEF Candidates
    <2>3. Running(rows) \subseteq Running(queue_jobs)
      BY RequeueOnlyFrees
    <2> HIDE DEF rows
    <2> QED
      BY <2>1, <2>2, <2>3 DEF KeyExclusive, KeyFree
  <1> QED
    BY <1>1, <1>2

(* Without operators no two jobs with one concurrency key are RUNNING,     *)
(* even when leases lapse under live workers that save late.               *)
THEOREM KeysExclusive ==
    ASSUME Operators = {}
    PROVE  Spec => []KeyExclusive
  <1>1. Init => KeyExclusive
    BY DEF Init, KeyExclusive, Running, FreshRow, AbsentRow
  <1> QED
    BY <1>1, InitTypeInv, NextTypeInv, InitLeaseInv, NextLeaseInv, NextKeyExclusive, PTL
    DEF Spec


(* A claim adds one RUNNING row to a set of rows that was below its limit. *)
LEMMA OneMoreRunning ==
    ASSUME NEW old \in SUBSET Jobs, NEW new \in SUBSET Jobs, NEW j \in Jobs,
           new \subseteq old \cup {j}, NEW limit \in Nat, Cardinality(old) < limit
    PROVE  Cardinality(new) <= limit
  <1>1. IsFiniteSet(old)
    BY FS_Subset, QueueAssumption
  <1>2. IsFiniteSet(old \cup {j}) /\ Cardinality(old \cup {j}) <= Cardinality(old) + 1
    <2>1. Cardinality(old) \in Nat
      BY <1>1, FS_CardinalityType
    <2>2. /\ IsFiniteSet(old \cup {j})
          /\ Cardinality(old \cup {j}) =
               IF j \in old THEN Cardinality(old) ELSE Cardinality(old) + 1
      BY <1>1, FS_AddElement, Zenon
    <2> QED
      BY <2>1, <2>2
  <1>3. IsFiniteSet(new) /\ Cardinality(new) <= Cardinality(old \cup {j})
    BY <1>2, FS_Subset
  <1> QED
    BY <1>1, <1>2, <1>3, FS_CardinalityType

(* A set of RUNNING rows that shrinks stays within its limit.              *)
LEMMA NoMoreRunning ==
    ASSUME NEW old \in SUBSET Jobs, NEW new \in SUBSET old, NEW limit \in Nat,
           Cardinality(old) <= limit
    PROVE  Cardinality(new) <= limit
  <1>1. IsFiniteSet(old)
    BY FS_Subset, QueueAssumption
  <1>2. IsFiniteSet(new) /\ Cardinality(new) <= Cardinality(old)
    BY <1>1, FS_Subset
  <1> QED
    BY <1>1, <1>2, FS_CardinalityType

LEMMA NextTenantCap ==
    ASSUME Operators = {}
    PROVE  TypeInv /\ LeaseInv /\ TenantCap /\ [Next]_vars => TenantCap'
  <1> SUFFICES ASSUME TypeInv, LeaseInv, TenantCap, [Next]_vars,
                      NEW i \in Jobs, TenantOf[i] # None
               PROVE  TenantRunning(queue_jobs', TenantOf[i]) <= MaxRunningPerTenant
    BY DEF TenantCap
  <1> DEFINE t == TenantOf[i]
             Of(rows) == {j \in Running(rows) : TenantOf[j] = t}
             rows == Requeued(queue_jobs)
  <1>1. MaxRunningPerTenant \in Nat
    BY QueueAssumption
  <1>2. Cardinality(Of(queue_jobs)) <= MaxRunningPerTenant
    BY DEF TenantCap, TenantRunning
  <1>3. /\ Of(queue_jobs) \in SUBSET Jobs /\ Of(queue_jobs') \in SUBSET Jobs
        /\ Of(rows) \in SUBSET Jobs
    BY DEF Running
  <1>4. CASE \A w \in Workers : ~ClaimJob(w)
    <2>1. Of(queue_jobs') \in SUBSET Of(queue_jobs)
      BY <1>4, OnlyClaimsRun DEF Running
    <2> HIDE DEF Of
    <2>2. Cardinality(Of(queue_jobs')) <= MaxRunningPerTenant
      BY <1>1, <1>2, <1>3, <2>1, NoMoreRunning
    <2> QED
      BY <2>2 DEF Of, TenantRunning
  <1>5. ASSUME NEW w \in Workers, ClaimJob(w)
        PROVE  TenantRunning(queue_jobs', t) <= MaxRunningPerTenant
    <2>1. PICK j \in Candidates(rows, w) :
            j \in Jobs /\ Running(queue_jobs') = Running(rows) \cup {j}
      BY <1>5, ClaimEffect
    <2>2. CASE TenantOf[j] = t
      <3>1. Cardinality(Of(rows)) < MaxRunningPerTenant
        BY <2>2 DEF Candidates, TenantFree, TenantRunning
      <3>2. Of(queue_jobs') \subseteq Of(rows) \cup {j}
        BY <2>1
      <3> HIDE DEF Of, rows
      <3>3. Cardinality(Of(queue_jobs')) <= MaxRunningPerTenant
        BY <1>1, <1>3, <2>1, <3>1, <3>2, OneMoreRunning
      <3> QED
        BY <3>3 DEF Of, TenantRunning
    <2>3. CASE TenantOf[j] # t
      <3>1. Of(queue_jobs') \in SUBSET Of(queue_jobs)
        BY <2>1, <2>3, RequeueOnlyFrees
      <3> HIDE DEF Of
      <3>2. Cardinality(Of(queue_jobs')) <= MaxRunningPerTenant
        BY <1>1, <1>2, <1>3, <3>1, NoMoreRunning
      <3> QED
        BY <3>2 DEF Of, TenantRunning
    <2> QED
      BY <2>2, <2>3
  <1> QED
    BY <1>4, <1>5

(* Without operators no tenant ever has more RUNNING jobs than its cap.    *)
THEOREM TenantsCapped ==
    ASSUME Operators = {}
    PROVE  Spec => []TenantCap
  <1>1. Init => TenantCap
    <2> SUFFICES ASSUME Init, NEW i \in Jobs
                 PROVE  TenantRunning(queue_jobs, TenantOf[i]) <= MaxRunningPerTenant
      BY DEF TenantCap
    <2>1. {j \in Running(queue_jobs) : TenantOf[j] = TenantOf[i]} = {}
      BY DEF Init, Running, FreshRow, AbsentRow
    <2> QED
      BY <2>1, FS_EmptySet, QueueAssumption DEF TenantRunning
  <1> QED
    BY <1>1, InitTypeInv, NextTypeInv, InitLeaseInv, NextLeaseInv, NextTenantCap, PTL
    DEF Spec

LEMMA NextWorkerCap ==
    ASSUME Operators = {}
    PROVE  TypeInv /\ LeaseInv /\ WorkerCap /\ [Next]_vars => WorkerCap'
  <1> SUFFICES ASSUME TypeInv, LeaseInv, WorkerCap, [Next]_vars, NEW v \in Workers
               PROVE  WorkerRunning(queue_jobs', v) <= MaxRunningPerWorker
    BY DEF WorkerCap
  <1> DEFINE Of(rows) == {j \in Running(rows) : rows[j].worker_id = v}
             rows == Requeued(queue_jobs)
  <1>1. MaxRunningPerWorker \in Nat
    BY QueueAssumption
  <1>2. Cardinality(Of(queue_jobs)) <= MaxRunningPerWorker
    BY DEF WorkerCap, WorkerRunning
  <1>3. /\ Of(queue_jobs) \in SUBSET Jobs /\ Of(queue_jobs') \in SUBSET Jobs
        /\ Of(rows) \in SUBSET Jobs
    BY DEF Running
  <1>4. CASE \A w \in Workers : ~ClaimJob(w)
    <2>1. Of(queue_jobs') \in SUBSET Of(queue_jobs)
      BY <1>4, OnlyClaimsRun DEF Running
    <2> HIDE DEF Of
    <2>2. Cardinality(Of(queue_jobs')) <= MaxRunningPerWorker
      BY <1>1, <1>2, <1>3, <2>1, NoMoreRunning
    <2> QED
      BY <2>2 DEF Of, WorkerRunning
  <1>5. ASSUME NEW w \in Workers, ClaimJob(w)
        PROVE  WorkerRunning(queue_jobs', v) <= MaxRunningPerWorker
    <2>1. ~AtWorkerCap(rows, w)
      BY <1>5, ClaimEffect
    <2>2. PICK j \in Jobs : /\ Running(queue_jobs') = Running(rows) \cup {j}
                            /\ queue_jobs'[j].worker_id = w
                            /\ \A i \in Jobs \ {j} : queue_jobs'[i] = rows[i]
      BY <1>5, ClaimEffect
    <2>3. \A i \in Running(rows) : i \in Jobs /\ i \in Running(queue_jobs) /\ rows[i] = queue_jobs[i]
      BY RequeueOnlyFrees
    <2> HIDE DEF rows
    <2>4. CASE v = w
      <3>1. Of(queue_jobs') \subseteq Of(rows) \cup {j}
        BY <2>2, <2>3
      <3>2. IsFiniteSet(Of(rows))
        BY <1>3, FS_Subset, QueueAssumption
      <3> HIDE DEF Of
      <3>3. Cardinality(Of(rows)) \in Nat /\ ~(Cardinality(Of(rows)) >= MaxRunningPerWorker)
        BY <2>1, <2>4, <3>2, FS_CardinalityType DEF AtWorkerCap, WorkerRunning, Of
      <3>4. Cardinality(Of(rows)) < MaxRunningPerWorker
        BY <1>1, <3>3
      <3>5. Cardinality(Of(queue_jobs')) <= MaxRunningPerWorker
        BY <1>1, <1>3, <2>2, <3>1, <3>4, OneMoreRunning
      <3> QED
        BY <3>5 DEF Of, WorkerRunning
    <2>5. CASE v # w
      <3>1. Of(queue_jobs') \in SUBSET Of(queue_jobs)
        BY <2>2, <2>3, <2>5
      <3> HIDE DEF Of
      <3>2. Cardinality(Of(queue_jobs')) <= MaxRunningPerWorker
        BY <1>1, <1>2, <1>3, <3>1, NoMoreRunning
      <3> QED
        BY <3>2 DEF Of, WorkerRunning
    <2> QED
      BY <2>4, <2>5
  <1> QED
    BY <1>4, <1>5

(* Without operators no worker id ever has more RUNNING jobs than its cap, *)
(* those that earlier processes under that id left behind included.        *)
THEOREM WorkersCapped ==
    ASSUME Operators = {}
    PROVE  Spec => []WorkerCap
  <1>1. Init => WorkerCap
    <2> SUFFICES ASSUME Init, NEW w \in Workers
                 PROVE  WorkerRunning(queue_jobs, w) <= MaxRunningPerWorker
      BY DEF WorkerCap
    <2>1. {j \in Running(queue_jobs) : queue_jobs[j].worker_id = w} = {}
      BY DEF Init, Running, FreshRow, AbsentRow
    <2> QED
      BY <2>1, FS_EmptySet, QueueAssumption DEF WorkerRunning
  <1> QED
    BY <1>1, InitTypeInv, NextTypeInv, InitLeaseInv, NextLeaseInv, NextWorkerCap, PTL
    DEF Spec


-----------------------------------------------------------------------------
(* Lease discipline: there are no operators, and no lease lapses under a   *)
(* worker that still runs (Operators = {}, MaxOverruns = 0).  Processes    *)
(* may die.  A worker then owns its job's row until it has saved it.       *)

(* A row whose times alone have changed.                                   *)
Kept(old, new) ==
    /\ new.status = old.status /\ new.worker_id = old.worker_id
    /\ new.attempt_count = old.attempt_count /\ new.budget_used = old.budget_used

(* The five things a step can do to a row.                                 *)
LEMMA RowStep ==
    ASSUME Operators = {}, TypeInv, [Next]_vars, NEW j \in Jobs
    PROVE  \/ Kept(queue_jobs[j], queue_jobs'[j])
           \/ Expired(queue_jobs[j]) /\ queue_jobs'[j] = RequeuedRow(queue_jobs[j])
           \/ \E w \in Workers :
                /\ ClaimJob(w) /\ worker'[w].job = j
                /\ Requeued(queue_jobs)[j].status = "QUEUED"
                /\ queue_jobs'[j] = ClaimedRow(Requeued(queue_jobs)[j], w)
           \/ \E w \in Workers :
                SaveOutcome(w) /\ worker[w].job = j /\ queue_jobs'[j] = worker[w].row
           \/ Insert(j) /\ queue_jobs'[j] = FreshRow
  <1>1. worker \in [Workers -> WorkerState] /\ queue_jobs \in [Jobs -> Row]
    BY DEF TypeInv, TypeOK
  <1>2. CASE queue_jobs'[j] = queue_jobs[j]
    BY <1>2 DEF Kept
  <1>3. CASE queue_jobs'[j] = Requeued(queue_jobs)[j]
    BY <1>2, <1>3 DEF Requeued
  <1>4. ASSUME NEW i \in Jobs, Insert(i)
        PROVE  queue_jobs'[j] = queue_jobs[j] \/ (i = j /\ queue_jobs'[j] = FreshRow)
    BY <1>1, <1>4 DEF Insert
  <1>5. ASSUME NEW w \in Workers, SaveOutcome(w)
        PROVE  \/ queue_jobs'[j] = queue_jobs[j]
               \/ worker[w].job = j /\ queue_jobs'[j] = worker[w].row
    BY <1>1, <1>5 DEF SaveOutcome
  <1>6. CASE Tick
    <2>1. queue_jobs'[j] = Aged(queue_jobs[j])
      BY <1>6 DEF Tick
    <2>2. Kept(queue_jobs[j], queue_jobs'[j])
      BY <1>1, <2>1 DEF Aged, Row, Kept
    <2> QED
      BY <2>2
  <1>7. CASE UNCHANGED vars
    BY <1>2, <1>7 DEF vars
  <1>8. ASSUME NEW i \in Jobs, CountPending(i) \/ CountTenant(i)
        PROVE  queue_jobs' = queue_jobs
    BY <1>8 DEF CountPending, CountTenant
  <1>9. ASSUME NEW w \in Workers, ClaimJob(w)
        PROVE  \/ queue_jobs'[j] = Requeued(queue_jobs)[j]
               \/ /\ worker'[w].job = j
                  /\ Requeued(queue_jobs)[j].status = "QUEUED"
                  /\ queue_jobs'[j] = ClaimedRow(Requeued(queue_jobs)[j], w)
    <2> DEFINE rows == Requeued(queue_jobs)
    <2>1. PICK i \in Jobs :
            /\ rows[i].status = "QUEUED"
            /\ queue_jobs' = [rows EXCEPT ![i] = ClaimedRow(rows[i], w)]
            /\ worker' = [worker EXCEPT ![w] =
                 [pc |-> "claimed", job |-> i,
                  row |-> ClaimedRow(rows[i], w), charge |-> 0]]
      BY <1>9, ClaimEffect
    <2>2. rows \in [Jobs -> Row]
      BY RequeuedType
    <2> HIDE DEF rows
    <2>3. CASE i = j
      BY <1>1, <2>1, <2>2, <2>3 DEF rows
    <2>4. CASE i # j
      BY <2>1, <2>2, <2>4 DEF rows
    <2> QED
      BY <2>3, <2>4
  <1>10. ASSUME NEW w \in Workers, WorkerStep(w) \/ Crash(w), ~SaveOutcome(w), ~ClaimJob(w)
         PROVE  queue_jobs' = queue_jobs \/ queue_jobs' = Requeued(queue_jobs)
    BY <1>10 DEF WorkerStep, Crash, OnlyWorker, RequeueExpired, ClaimNothing, RefuseActor,
        SkipCancelled, ExceedBudget, StartDispatch, DispatchSucceeds, DispatchRaises,
        HandleFailure
  <1>11. ASSUME NEW w \in Workers, WorkerStep(w) \/ Crash(w)
         PROVE  \/ queue_jobs'[j] = queue_jobs[j]
                \/ queue_jobs'[j] = Requeued(queue_jobs)[j]
                \/ /\ ClaimJob(w) /\ worker'[w].job = j
                   /\ Requeued(queue_jobs)[j].status = "QUEUED"
                   /\ queue_jobs'[j] = ClaimedRow(Requeued(queue_jobs)[j], w)
                \/ SaveOutcome(w) /\ worker[w].job = j /\ queue_jobs'[j] = worker[w].row
    BY <1>5, <1>9, <1>10, <1>11
  <1> QED
    BY <1>2, <1>3, <1>4, <1>6, <1>7, <1>8, <1>11 DEF Next

(* Only a worker's own steps, its death and time change its state.         *)
LEMMA OthersLeaveWorker ==
    ASSUME TypeInv, [Next]_vars, NEW w \in Workers, ~WorkerStep(w), ~Crash(w), ~Tick
    PROVE  worker'[w] = worker[w]
  <1>1. worker \in [Workers -> WorkerState]
    BY DEF TypeInv, TypeOK
  <1>2. ASSUME NEW v \in Workers, v # w, WorkerStep(v) \/ Crash(v)
        PROVE  worker'[w] = worker[w]
    BY <1>1, <1>2 DEF WorkerStep, Crash, RequeueExpired, ClaimNothing, ClaimJob, RefuseActor,
       SkipCancelled, ExceedBudget, StartDispatch, DispatchSucceeds, DispatchRaises,
       HandleFailure, SaveOutcome, Raise, ToSave
  <1>3. ASSUME NEW j \in Jobs, ClientStep(j)
        PROVE  worker'[w] = worker[w]
    BY <1>3 DEF ClientStep, CountPending, CountTenant, Insert
  <1>4. ASSUME NEW o \in Operators, NEW j \in Jobs,
               CancelJob(o, j) \/ \E reset \in BOOLEAN : ResumeJob(o, j, reset)
        PROVE  worker'[w] = worker[w]
    BY <1>4 DEF CancelJob, ResumeJob, Call
  <1>5. ASSUME NEW o \in Operators, SaveCall(o)
        PROVE  worker'[w] = worker[w]
    BY <1>5 DEF SaveCall
  <1>6. CASE UNCHANGED vars
    BY <1>6 DEF vars
  <1>7. CASE Next
    BY <1>2, <1>3, <1>4, <1>5, <1>7 DEF Next, ClientStep
  <1> QED
    BY <1>6, <1>7

(* A worker that is at work after a step was before it, with the same job, *)
(* or has just claimed the job.                                            *)
LEMMA StillWorking ==
    ASSUME TypeInv, [Next]_vars, NEW w \in Workers, Working(w)', ~ClaimJob(w)
    PROVE  /\ Working(w) /\ ~SaveOutcome(w) /\ ~Crash(w)
           /\ worker'[w].job = worker[w].job
  <1>1. worker \in [Workers -> WorkerState]
    BY DEF TypeInv, TypeOK
  <1>2. ~SaveOutcome(w) /\ ~Crash(w) /\ ~ClaimNothing(w)
    BY <1>1 DEF SaveOutcome, Crash, ClaimNothing, Idle, Working, Holding
  <1>3. ~RequeueExpired(w)
    BY <1>1 DEF RequeueExpired, Working, Holding, WorkerState
  <1>4. CASE worker'[w] = worker[w]
    BY <1>2, <1>4 DEF Working
  <1>5. CASE Tick
    <2>1. worker'[w] = [worker[w] EXCEPT !.row = Aged(worker[w].row)]
      BY <1>5 DEF Tick
    <2> QED
      BY <1>1, <1>2, <2>1 DEF Working, WorkerState
  <1>6. CASE \/ RefuseActor(w) \/ SkipCancelled(w) \/ ExceedBudget(w) \/ StartDispatch(w)
             \/ DispatchSucceeds(w) \/ DispatchRaises(w) \/ HandleFailure(w)
    <2>1. Working(w)
      BY <1>6 DEF RefuseActor, SkipCancelled, ExceedBudget, StartDispatch,
         DispatchSucceeds, DispatchRaises, HandleFailure, Working, Holding
    <2>2. worker'[w].job = worker[w].job
      BY <1>1, <1>6 DEF RefuseActor, SkipCancelled, ExceedBudget, StartDispatch,
         DispatchSucceeds, DispatchRaises, HandleFailure, Raise, ToSave, WorkerState
    <2> QED
      BY <1>2, <2>1, <2>2
  <1>7. CASE WorkerStep(w)
    BY <1>2, <1>3, <1>6, <1>7 DEF WorkerStep
  <1> QED
    BY <1>2, <1>4, <1>5, <1>7, OthersLeaveWorker

Owned(row, w) ==
    row.status = "RUNNING" /\ row.worker_id = w /\ row.lease_expires_in # 0

OwnInv ==
    /\ \A j \in Clients : queue_jobs[j].status = "ABSENT"
    /\ \A w \in Workers : Working(w) => Owned(queue_jobs[worker[w].job], w)

(* While a worker is at work no step but its own save changes its row, and *)
(* its lease does not lapse.                                               *)
LEMMA HeldRow ==
    ASSUME Operators = {}, MaxOverruns = 0, TypeInv, OwnInv, [Next]_vars,
           NEW w \in Workers, Working(w), ~SaveOutcome(w)
    PROVE  /\ Kept(queue_jobs[worker[w].job], queue_jobs'[worker[w].job])
           /\ queue_jobs'[worker[w].job].lease_expires_in # 0
  <1> DEFINE j == worker[w].job
  <1>1. j \in Jobs /\ queue_jobs[j] \in Row /\ Owned(queue_jobs[j], w)
    BY DEF TypeInv, TypeOK, OwnInv
  <1>2. worker \in [Workers -> WorkerState] /\ queue_jobs \in [Jobs -> Row]
    BY DEF TypeInv, TypeOK
  <1>3. ~Expired(queue_jobs[j])
    BY <1>1 DEF Owned, Expired
  <1>4. Requeued(queue_jobs)[j] = queue_jobs[j]
    BY <1>1, <1>3 DEF Requeued
  <1>5. \A v \in Workers : SaveOutcome(v) => worker[v].job # j
    <2> SUFFICES ASSUME NEW v \in Workers, SaveOutcome(v), worker[v].job = j
                 PROVE  FALSE
      OBVIOUS
    <2>1. Working(v)
      BY DEF SaveOutcome, Working, Holding
    <2>2. queue_jobs[j].worker_id = v
      BY <2>1 DEF OwnInv, Owned
    <2> QED
      BY <1>1, <2>2 DEF Owned
  <1>6. ~Insert(j)
    BY <1>1 DEF Insert, Clients, OwnInv, Owned
  <1>7. Requeued(queue_jobs)[j].status # "QUEUED"
    BY <1>1, <1>4 DEF Owned
  <1>8. Kept(queue_jobs[j], queue_jobs'[j])
    BY <1>1, <1>3, <1>5, <1>6, <1>7, RowStep
  <1>9. queue_jobs'[j].lease_expires_in # 0
    <2>1. CASE Tick
      <3>1. queue_jobs'[j].lease_expires_in = Sooner(queue_jobs[j].lease_expires_in)
        BY <1>1, <2>1 DEF Tick, Aged, Row
      <3>2. ~Overrunning
        BY <2>1, QueueAssumption DEF Tick, TypeInv, TypeOK
      <3>3. queue_jobs[j].lease_expires_in # 1
        BY <1>1, <3>2 DEF Overrunning, Owned
      <3>4. queue_jobs[j].lease_expires_in \in Nat \cup {None}
        BY <1>1 DEF Row
      <3>5. queue_jobs[j].lease_expires_in # 0
        BY <1>1 DEF Owned
      <3>6. Sooner(queue_jobs[j].lease_expires_in) # 0
        BY <3>3, <3>4, <3>5, QueueAssumption DEF Sooner
      <3> QED
        BY <3>1, <3>6
    <2>2. CASE ~Tick
      <3>1. queue_jobs'[j] = queue_jobs[j] \/ queue_jobs'[j] = Requeued(queue_jobs)[j]
        <4>1. ASSUME NEW i \in Jobs, ClientStep(i)
              PROVE  queue_jobs'[j] = queue_jobs[j]
          <5>1. Insert(i) => i # j
            BY <1>6
          <5> QED
            BY <1>1, <1>2, <4>1, <5>1 DEF ClientStep, CountPending, CountTenant, Insert
        <4>2. ASSUME NEW v \in Workers, SaveOutcome(v)
              PROVE  queue_jobs'[j] = queue_jobs[j]
          BY <1>1, <1>2, <1>5, <4>2 DEF SaveOutcome
        <4>3. ASSUME NEW v \in Workers, ClaimJob(v)
              PROVE  queue_jobs'[j] = Requeued(queue_jobs)[j]
          BY <1>1, <1>7, <4>3, ClaimEffect
        <4>4. ASSUME NEW v \in Workers, WorkerStep(v) \/ Crash(v),
                     ~SaveOutcome(v), ~ClaimJob(v)
              PROVE  queue_jobs' = queue_jobs \/ queue_jobs' = Requeued(queue_jobs)
          BY <4>4 DEF WorkerStep, Crash, OnlyWorker, RequeueExpired, ClaimNothing,
             RefuseActor, SkipCancelled, ExceedBudget, StartDispatch, DispatchSucceeds,
             DispatchRaises, HandleFailure
        <4>5. CASE UNCHANGED vars
          BY <4>5 DEF vars
        <4> QED
          BY <2>2, <4>1, <4>2, <4>3, <4>4, <4>5 DEF Next, ClientStep
      <3> QED
        BY <1>1, <1>4, <3>1 DEF Owned
    <2> QED
      BY <2>1, <2>2
  <1> QED
    BY <1>8, <1>9

LEMMA NextOwnInv ==
    ASSUME Operators = {}, MaxOverruns = 0
    PROVE  TypeInv /\ OwnInv /\ [Next]_vars => OwnInv'
  <1> SUFFICES ASSUME TypeInv, OwnInv, [Next]_vars PROVE OwnInv'
    OBVIOUS
  <1>1. worker \in [Workers -> WorkerState] /\ queue_jobs \in [Jobs -> Row]
        /\ client \in [Jobs -> {"idle", "counted", "admitted"}]
    BY DEF TypeInv, TypeOK
  <1>2. ASSUME NEW j \in Clients'
        PROVE  queue_jobs'[j].status = "ABSENT"
    <2>1. CASE j \in Clients
      <3>1. j \in Jobs /\ queue_jobs[j].status = "ABSENT"
        BY <2>1 DEF OwnInv, Clients
      <3>2. ~Insert(j)
        BY <1>1, <1>2 DEF Insert, Clients
      <3>3. \A w \in Workers : SaveOutcome(w) => worker[w].job # j
        BY <3>1 DEF OwnInv, Owned, SaveOutcome, Working, Holding
      <3>4. ~Expired(queue_jobs[j]) /\ Requeued(queue_jobs)[j].status # "QUEUED"
        BY <3>1 DEF Expired, Requeued
      <3> QED
        BY <3>1, <3>2, <3>3, <3>4, RowStep DEF Kept
    <2>2. CASE j \notin Clients
      <3>1. j \in Jobs /\ client[j] = "idle" /\ client'[j] # "idle"
        BY <1>2, <2>2 DEF Clients
      <3>2. CountPending(j)
        <4>1. ASSUME NEW w \in Workers, WorkerStep(w) \/ Crash(w)
              PROVE  client' = client
          BY <4>1 DEF WorkerStep, Crash, OnlyWorker, RequeueExpired, ClaimNothing, ClaimJob,
             RefuseActor, SkipCancelled, ExceedBudget, StartDispatch, DispatchSucceeds,
             DispatchRaises, HandleFailure, SaveOutcome
        <4>2. ASSUME NEW i \in Jobs, i # j, ClientStep(i)
              PROVE  client'[j] = client[j]
          BY <1>1, <3>1, <4>2 DEF ClientStep, CountPending, CountTenant, Insert
        <4>3. ~CountTenant(j) /\ ~Insert(j)
          BY <3>1 DEF CountTenant, Insert
        <4>4. ~Tick /\ ~UNCHANGED vars
          BY <3>1 DEF Tick, vars
        <4> QED
          BY <3>1, <4>1, <4>2, <4>3, <4>4 DEF Next, ClientStep
      <3> QED
        BY <3>1, <3>2 DEF CountPending
    <2> QED
      BY <2>1, <2>2
  <1>3. ASSUME NEW w \in Workers, Working(w)'
        PROVE  Owned(queue_jobs'[worker'[w].job], w)
    <2>1. CASE ClaimJob(w)
      <3> DEFINE rows == Requeued(queue_jobs)
      <3>1. PICK j \in Jobs :
              /\ queue_jobs' = [rows EXCEPT ![j] = ClaimedRow(rows[j], w)]
              /\ worker' = [worker EXCEPT ![w] =
                   [pc |-> "claimed", job |-> j,
                    row |-> ClaimedRow(rows[j], w), charge |-> 0]]
        BY <2>1, ClaimEffect
      <3>2. rows \in [Jobs -> Row]
        BY RequeuedType
      <3> HIDE DEF rows
      <3>3. worker'[w].job = j /\ queue_jobs'[j] = ClaimedRow(rows[j], w)
        BY <1>1, <3>1, <3>2
      <3>4. Owned(ClaimedRow(rows[j], w), w)
        <4>1. LeaseSeconds # 0 /\ rows[j] \in Row
          BY <3>2, QueueAssumption
        <4> QED
          BY <4>1 DEF ClaimedRow, Owned, Row
      <3> QED
        BY <3>3, <3>4
    <2>2. CASE ~ClaimJob(w)
      <3>1. /\ Working(w) /\ ~SaveOutcome(w)
            /\ worker'[w].job = worker[w].job
        BY <1>3, <2>2, StillWorking
      <3>2. /\ Kept(queue_jobs[worker[w].job], queue_jobs'[worker[w].job])
            /\ queue_jobs'[worker[w].job].lease_expires_in # 0
        BY <3>1, HeldRow
      <3> QED
        BY <3>1, <3>2 DEF Kept, Owned, OwnInv
    <2> QED
      BY <2>1, <2>2
  <1> QED
    BY <1>2, <1>3 DEF OwnInv

LEMMA InitOwnInv == Init => OwnInv
  BY DEF Init, OwnInv, Clients, Idle, Working, Holding

(* While no lease lapses under a live worker, no two workers are at work   *)
(* on one job or one concurrency key, although workers die and their jobs  *)
(* are handed on.                                                          *)
THEOREM OneExecutorHolds ==
    ASSUME Operators = {}, MaxOverruns = 0
    PROVE  Spec => []OneExecutor
  <1>1. TypeInv /\ OwnInv /\ KeyExclusive => OneExecutor
    BY DEF TypeInv, OwnInv, Owned, KeyExclusive, OneExecutor, Running
  <1>2. Spec => [](TypeInv /\ OwnInv)
    BY InitTypeInv, NextTypeInv, InitOwnInv, NextOwnInv, PTL DEF Spec
  <1> QED
    BY <1>1, <1>2, KeysExclusive, PTL

(* Under the same discipline a job that has SUCCEEDED stays so.            *)
THEOREM SuccessIsFinal ==
    ASSUME Operators = {}, MaxOverruns = 0
    PROVE  Spec => SucceededIsFinal
  <1>1. ASSUME TypeInv, OwnInv, [Next]_vars, NEW j \in Jobs,
               queue_jobs[j].status = "SUCCEEDED"
        PROVE  queue_jobs'[j].status = "SUCCEEDED"
    <2>1. ~Insert(j)
      BY <1>1 DEF Insert, Clients, OwnInv
    <2>2. \A w \in Workers : SaveOutcome(w) => worker[w].job # j
      BY <1>1 DEF OwnInv, Owned, SaveOutcome, Working, Holding
    <2>3. ~Expired(queue_jobs[j]) /\ Requeued(queue_jobs)[j].status # "QUEUED"
      BY <1>1 DEF Expired, Requeued
    <2> QED
      BY <1>1, <2>1, <2>2, <2>3, RowStep DEF Kept
  <1>2. TypeInv /\ OwnInv /\ [Next]_vars
          => [\A j \in Jobs : queue_jobs[j].status = "SUCCEEDED"
                                => queue_jobs'[j].status = "SUCCEEDED"]_queue_jobs
    BY <1>1
  <1>3. Spec => [](TypeInv /\ OwnInv)
    BY InitTypeInv, NextTypeInv, InitOwnInv, NextOwnInv, PTL DEF Spec
  <1> QED
    BY <1>2, <1>3, PTL DEF Spec, SucceededIsFinal


-----------------------------------------------------------------------------
(* What a job's attempts and units amount to, under lease discipline.      *)

(* How the state of a worker that stays at work changes.                   *)
LEMMA WorkerMove ==
    ASSUME TypeInv, [Next]_vars, NEW w \in Workers, Working(w)', ~ClaimJob(w)
    PROVE  LET old == worker[w]
               new == worker'[w]
               latest == queue_jobs[worker[w].job]
           IN \/ new.pc = old.pc /\ new.charge = old.charge /\ Kept(old.row, new.row)
              \/ /\ old.pc # "saving" /\ new.pc = "raised" /\ new.row = old.row
                 /\ new.charge = 0 \/ new.charge = old.charge
              \/ /\ old.pc # "saving" /\ new.pc = "dispatching" /\ new.row = old.row
                 /\ WithinBudget(w) /\ new.charge = AttemptCost[old.job]
              \/ /\ old.pc # "saving" /\ new.pc = "saving"
                 /\ \/ new.row = CancelledRow(latest, w) \/ new.row = SucceededRow(w)
                    \/ new.row = FailedRow(w, latest)
  <1>1. worker \in [Workers -> WorkerState] /\ worker[w] \in WorkerState
    BY DEF TypeInv, TypeOK
  <1>2. Working(w) /\ ~SaveOutcome(w) /\ ~Crash(w)
    BY StillWorking
  <1>3. CASE worker'[w] = worker[w]
    BY <1>3 DEF Kept
  <1>4. CASE Tick
    <2>1. worker'[w] = [worker[w] EXCEPT !.row = Aged(worker[w].row)]
      BY <1>4 DEF Tick
    <2>2. worker[w].row \in Row
      BY <1>1 DEF WorkerState
    <2>3. Kept(worker[w].row, Aged(worker[w].row))
      BY <2>2 DEF Aged, Row, Kept
    <2> QED
      BY <1>1, <2>1, <2>3 DEF WorkerState
  <1>5. CASE RefuseActor(w) \/ ExceedBudget(w) \/ DispatchRaises(w)
    BY <1>1, <1>5 DEF RefuseActor, ExceedBudget, DispatchRaises, Raise, WorkerState
  <1>6. CASE StartDispatch(w)
    BY <1>1, <1>6 DEF StartDispatch, WorkerState
  <1>7. CASE SkipCancelled(w) \/ DispatchSucceeds(w) \/ HandleFailure(w)
    BY <1>1, <1>7 DEF SkipCancelled, DispatchSucceeds, HandleFailure, ToSave, WorkerState
  <1>8. CASE WorkerStep(w)
    <2>1. ~RequeueExpired(w) /\ ~ClaimNothing(w)
      BY <1>2 DEF RequeueExpired, ClaimNothing, Working, Holding
    <2> QED
      BY <1>2, <1>5, <1>6, <1>7, <1>8, <2>1 DEF WorkerStep
  <1> QED
    BY <1>2, <1>3, <1>4, <1>8, OthersLeaveWorker

(* The count of deaths only grows, by one at each death.                   *)
LEMMA CrashCount ==
    ASSUME TypeInv, [Next]_vars
    PROVE  /\ crashes \in Nat /\ crashes' \in Nat /\ crashes <= crashes'
           /\ (\E w \in Workers : Crash(w)) => crashes' = crashes + 1
  <1>1. crashes \in Nat
    BY QueueAssumption DEF TypeInv, TypeOK
  <1>2. (\E w \in Workers : Crash(w)) => crashes' = crashes + 1
    BY DEF Crash
  <1>3. (\A w \in Workers : ~Crash(w)) => crashes' = crashes
    BY DEF Next, vars, CountPending, CountTenant, Insert, WorkerStep, RequeueExpired, ClaimNothing, ClaimJob,
       RefuseActor, SkipCancelled, ExceedBudget, StartDispatch, DispatchSucceeds,
       DispatchRaises, HandleFailure, SaveOutcome, OnlyWorker, SaveCall, CancelJob,
       ResumeJob, Call, Tick
  <1> QED
    BY <1>1, <1>2, <1>3

(* A worker stays at work on its job until it saves it or dies.            *)
LEMMA StaysWorking ==
    ASSUME TypeInv, [Next]_vars, NEW w \in Workers, Working(w), ~SaveOutcome(w), ~Crash(w)
    PROVE  Working(w)' /\ worker'[w].job = worker[w].job
  <1>1. worker \in [Workers -> WorkerState] /\ worker[w] \in WorkerState
    BY DEF TypeInv, TypeOK
  <1>2. CASE worker'[w] = worker[w]
    BY <1>2 DEF Working
  <1>3. CASE Tick
    <2>1. worker'[w] = [worker[w] EXCEPT !.row = Aged(worker[w].row)]
      BY <1>3 DEF Tick
    <2> QED
      BY <1>1, <2>1 DEF Working, WorkerState
  <1>4. CASE WorkerStep(w)
    <2>1. ~RequeueExpired(w) /\ ~ClaimNothing(w) /\ ~ClaimJob(w)
      BY DEF RequeueExpired, ClaimNothing, ClaimJob, Working, Holding
    <2> QED
      BY <1>1, <1>4, <2>1 DEF WorkerStep, RefuseActor, SkipCancelled, ExceedBudget,
         StartDispatch, DispatchSucceeds, DispatchRaises, HandleFailure, Raise, ToSave,
         WorkerState, Working, Holding
  <1> QED
    BY <1>2, <1>3, <1>4, OthersLeaveWorker


(* AttemptsWithinCrashes is not inductive: a job that is QUEUED, or RUNNING *)
(* for a worker that has died, must have an attempt left for its next      *)
(* claim.  A worker that dies leaves its job such an attempt, its own.     *)
Orphaned(j) ==
    queue_jobs[j].status = "RUNNING" /\ \A w \in Workers : Working(w) => worker[w].job # j

AttemptInv ==
    /\ \A j \in Jobs :
        /\ queue_jobs[j].attempt_count <= MaxAttempts[j] + crashes
        /\ queue_jobs[j].status = "QUEUED" \/ Orphaned(j)
             => queue_jobs[j].attempt_count < MaxAttempts[j] + crashes
    /\ \A w \in Workers : Working(w) =>
        /\ worker[w].row.attempt_count = queue_jobs[worker[w].job].attempt_count
        /\ worker[w].pc = "saving" /\ worker[w].row.status = "QUEUED"
             => worker[w].row.attempt_count < MaxAttempts[worker[w].job] + crashes

LEMMA InitAttemptInv == Init => AttemptInv
  <1> SUFFICES ASSUME Init PROVE AttemptInv
    OBVIOUS
  <1>1. \A w \in Workers : ~Working(w)
    BY DEF Init, Idle, Working, Holding
  <1>2. \A j \in Jobs : queue_jobs[j].attempt_count = 0 /\ MaxAttempts[j] \in Nat \ {0}
    BY QueueAssumption DEF Init, FreshRow, AbsentRow
  <1>3. crashes = 0
    BY DEF Init
  <1> QED
    BY <1>1, <1>2, <1>3 DEF AttemptInv

(* The worker's part: the row it will write has the attempts of its job.   *)
LEMMA NextAttemptHeld ==
    ASSUME Operators = {}, MaxOverruns = 0, TypeInv, LeaseInv, OwnInv, AttemptInv, [Next]_vars,
           NEW w \in Workers, Working(w)'
    PROVE  /\ worker'[w].row.attempt_count = queue_jobs'[worker'[w].job].attempt_count
           /\ worker'[w].pc = "saving" /\ worker'[w].row.status = "QUEUED"
                => worker'[w].row.attempt_count < MaxAttempts[worker'[w].job] + crashes'
  <1>1. worker \in [Workers -> WorkerState] /\ queue_jobs \in [Jobs -> Row]
    BY DEF TypeInv, TypeOK
  <1>2. CASE ClaimJob(w)
    <2> DEFINE rows == Requeued(queue_jobs)
    <2>1. PICK j \in Jobs :
            /\ queue_jobs' = [rows EXCEPT ![j] = ClaimedRow(rows[j], w)]
            /\ worker' = [worker EXCEPT ![w] =
                 [pc |-> "claimed", job |-> j,
                  row |-> ClaimedRow(rows[j], w), charge |-> 0]]
      BY <1>2, ClaimEffect
    <2>2. rows \in [Jobs -> Row]
      BY RequeuedType
    <2> HIDE DEF rows
    <2> QED
      BY <1>1, <2>1, <2>2
  <1>3. CASE ~ClaimJob(w)
    <2> DEFINE j == worker[w].job
               latest == queue_jobs[j]
    <2>1. Working(w) /\ ~SaveOutcome(w) /\ worker'[w].job = j
      BY <1>3, StillWorking
    <2>2. /\ j \in Jobs /\ latest \in Row /\ worker[w].row \in Row
          /\ worker[w].row.attempt_count = latest.attempt_count
      BY <1>1, <2>1 DEF TypeInv, WorkerState, AttemptInv
    <2>3. queue_jobs'[j].attempt_count = latest.attempt_count
      BY <2>1, HeldRow DEF Kept
    <2>4. /\ crashes \in Nat /\ crashes' \in Nat /\ crashes <= crashes'
          /\ MaxAttempts[j] \in Nat /\ latest.attempt_count \in Nat
      BY <2>2, CrashCount, QueueAssumption DEF Row
    <2>5. CASE worker'[w].row = CancelledRow(latest, w)
      <3>1. /\ worker'[w].row.attempt_count = latest.attempt_count
            /\ worker'[w].row.status = "CANCELLED"
        BY <2>2, <2>5 DEF CancelledRow, Row
      <3> QED
        BY <2>1, <2>3, <3>1
    <2>6. CASE worker'[w].row = SucceededRow(w)
      <3>1. /\ worker'[w].row.attempt_count = worker[w].row.attempt_count
            /\ worker'[w].row.status = "SUCCEEDED"
        BY <2>2, <2>6 DEF SucceededRow, Row
      <3> QED
        BY <2>1, <2>2, <2>3, <3>1
    <2>7. CASE worker'[w].row = FailedRow(w, latest)
      <3>1. worker'[w].row.attempt_count = worker[w].row.attempt_count
        BY <2>2, <2>7 DEF FailedRow, Row
      <3>2. worker'[w].row.status = "QUEUED" => latest.attempt_count < MaxAttempts[j]
        BY <2>2, <2>7 DEF FailedRow, Row
      <3> QED
        BY <2>1, <2>2, <2>3, <2>4, <3>1, <3>2
    <2>8. CASE worker'[w].pc = worker[w].pc /\ Kept(worker[w].row, worker'[w].row)
      <3>1. /\ worker'[w].row.attempt_count = worker[w].row.attempt_count
            /\ worker'[w].row.status = worker[w].row.status
        BY <2>8 DEF Kept
      <3>2. worker[w].pc = "saving" /\ worker[w].row.status = "QUEUED"
              => worker[w].row.attempt_count < MaxAttempts[j] + crashes
        BY <2>1 DEF AttemptInv
      <3> QED
        BY <2>1, <2>2, <2>3, <2>4, <2>8, <3>1, <3>2
    <2>9. CASE worker'[w].row = worker[w].row /\ worker'[w].pc # "saving"
      BY <2>1, <2>2, <2>3, <2>9
    <2> QED
      BY <1>3, <2>5, <2>6, <2>7, <2>8, <2>9, WorkerMove
  <1> QED
    BY <1>2, <1>3

(* The table's part.                                                       *)
LEMMA NextAttemptRow ==
    ASSUME Operators = {}, MaxOverruns = 0, TypeInv, LeaseInv, OwnInv, AttemptInv, [Next]_vars,
           NEW j \in Jobs
    PROVE  /\ queue_jobs'[j].attempt_count <= MaxAttempts[j] + crashes'
           /\ queue_jobs'[j].status = "QUEUED" \/ Orphaned(j)'
                => queue_jobs'[j].attempt_count < MaxAttempts[j] + crashes'
  <1>1. worker \in [Workers -> WorkerState] /\ queue_jobs \in [Jobs -> Row]
    BY DEF TypeInv, TypeOK
  <1>2. /\ crashes \in Nat /\ crashes' \in Nat /\ crashes <= crashes'
        /\ (\E w \in Workers : Crash(w)) => crashes' = crashes + 1
        /\ MaxAttempts[j] \in Nat \ {0} /\ queue_jobs[j].attempt_count \in Nat
    BY <1>1, CrashCount, QueueAssumption DEF Row
  <1>3. /\ queue_jobs[j].attempt_count <= MaxAttempts[j] + crashes
        /\ queue_jobs[j].status = "QUEUED" \/ Orphaned(j)
             => queue_jobs[j].attempt_count < MaxAttempts[j] + crashes
    BY DEF AttemptInv
  <1>4. CASE Kept(queue_jobs[j], queue_jobs'[j])
    <2>1. /\ queue_jobs'[j].attempt_count = queue_jobs[j].attempt_count
          /\ queue_jobs'[j].status = queue_jobs[j].status
      BY <1>4 DEF Kept
    <2>2. CASE Orphaned(j)' /\ ~Orphaned(j)
      <3>1. PICK w \in Workers : Working(w) /\ worker[w].job = j
        BY <2>1, <2>2 DEF Orphaned
      <3>2. SaveOutcome(w) \/ Crash(w)
        BY <2>2, <3>1, StaysWorking DEF Orphaned
      <3>3. ~SaveOutcome(w)
        <4>1. SaveOutcome(w) => queue_jobs'[j].status # "RUNNING"
          BY <1>1, <3>1 DEF SaveOutcome, LeaseInv, Released, Final
        <4> QED
          BY <2>2, <4>1 DEF Orphaned
      <3>4. crashes' = crashes + 1
        BY <1>2, <3>2, <3>3
      <3> QED
        BY <1>2, <1>3, <2>1, <3>4
    <2> QED
      BY <1>2, <1>3, <2>1, <2>2
  <1>5. CASE Expired(queue_jobs[j]) /\ queue_jobs'[j] = RequeuedRow(queue_jobs[j])
    <2>1. queue_jobs'[j].attempt_count = queue_jobs[j].attempt_count
      BY <1>1, <1>5 DEF RequeuedRow, Row
    <2>2. Orphaned(j)
      BY <1>5 DEF Orphaned, Expired, OwnInv, Owned
    <2> QED
      BY <1>2, <1>3, <2>1, <2>2
  <1>6. ASSUME NEW w \in Workers, ClaimJob(w), worker'[w].job = j,
               Requeued(queue_jobs)[j].status = "QUEUED",
               queue_jobs'[j] = ClaimedRow(Requeued(queue_jobs)[j], w)
        PROVE  /\ queue_jobs'[j].attempt_count <= MaxAttempts[j] + crashes'
               /\ ~(queue_jobs'[j].status = "QUEUED" \/ Orphaned(j)')
    <2>1. Requeued(queue_jobs)[j].attempt_count = queue_jobs[j].attempt_count
      BY <1>1 DEF Requeued, RequeuedRow, Row
    <2>2. queue_jobs[j].attempt_count < MaxAttempts[j] + crashes
      <3>1. CASE Expired(queue_jobs[j])
        BY <1>3, <3>1 DEF Orphaned, Expired, OwnInv, Owned
      <3>2. CASE ~Expired(queue_jobs[j])
        BY <1>3, <1>6, <3>2 DEF Requeued
      <3> QED
        BY <3>1, <3>2
    <2>3. /\ queue_jobs'[j].attempt_count = queue_jobs[j].attempt_count + 1
          /\ queue_jobs'[j].status = "RUNNING"
      <3>1. Requeued(queue_jobs)[j] \in Row
        BY RequeuedType
      <3> QED
        BY <1>6, <2>1, <3>1 DEF ClaimedRow, Row
    <2>4. Working(w)'
      <3>1. worker'[w].pc = "claimed"
        BY <1>1, <1>6, ClaimEffect
      <3> QED
        BY <3>1 DEF Working, Holding
    <2> QED
      BY <1>2, <1>6, <2>2, <2>3, <2>4 DEF Orphaned
  <1>7. ASSUME NEW w \in Workers, SaveOutcome(w), worker[w].job = j,
               queue_jobs'[j] = worker[w].row
        PROVE  /\ queue_jobs'[j].attempt_count <= MaxAttempts[j] + crashes'
               /\ queue_jobs'[j].status = "QUEUED" \/ Orphaned(j)'
                    => queue_jobs'[j].attempt_count < MaxAttempts[j] + crashes'
    <2>1. Working(w) /\ worker[w].pc = "saving"
      BY <1>7 DEF SaveOutcome, Working, Holding
    <2>2. queue_jobs'[j].status # "RUNNING"
      BY <1>7, <2>1 DEF LeaseInv, Released, Final
    <2>3. queue_jobs'[j].attempt_count = queue_jobs[j].attempt_count
      BY <1>7, <2>1 DEF AttemptInv
    <2>4. queue_jobs'[j].status = "QUEUED"
            => queue_jobs'[j].attempt_count < MaxAttempts[j] + crashes
      BY <1>7, <2>1 DEF AttemptInv
    <2> QED
      BY <1>2, <1>3, <2>2, <2>3, <2>4 DEF Orphaned
  <1>8. CASE queue_jobs'[j] = FreshRow
    BY <1>2, <1>8 DEF FreshRow, Orphaned
  <1> QED
    BY <1>4, <1>5, <1>6, <1>7, <1>8, RowStep

(* Under lease discipline a job exceeds max_attempts by at most one        *)
(* attempt for every worker that died, however many die.                   *)
THEOREM AttemptsBoundedByCrashes ==
    ASSUME Operators = {}, MaxOverruns = 0
    PROVE  Spec => []AttemptsWithinCrashes
  <1>1. TypeInv /\ LeaseInv /\ OwnInv /\ AttemptInv /\ [Next]_vars => AttemptInv'
    <2> SUFFICES ASSUME TypeInv, LeaseInv, OwnInv, AttemptInv, [Next]_vars
                 PROVE  AttemptInv'
      OBVIOUS
    <2>1. \A w \in Workers : Working(w)' =>
            /\ worker'[w].row.attempt_count = queue_jobs'[worker'[w].job].attempt_count
            /\ worker'[w].pc = "saving" /\ worker'[w].row.status = "QUEUED"
                 => worker'[w].row.attempt_count < MaxAttempts[worker'[w].job] + crashes'
      BY NextAttemptHeld
    <2>2. \A j \in Jobs :
            /\ queue_jobs'[j].attempt_count <= MaxAttempts[j] + crashes'
            /\ queue_jobs'[j].status = "QUEUED" \/ Orphaned(j)'
                 => queue_jobs'[j].attempt_count < MaxAttempts[j] + crashes'
      BY NextAttemptRow
    <2> QED
      BY <2>1, <2>2 DEF AttemptInv
  <1>2. AttemptInv => AttemptsWithinCrashes
    BY DEF AttemptInv, AttemptsWithinCrashes
  <1>3. Spec => []AttemptInv
    BY <1>1, InitTypeInv, NextTypeInv, InitLeaseInv, NextLeaseInv, InitOwnInv, NextOwnInv,
       InitAttemptInv, PTL DEF Spec
  <1> QED
    BY <1>2, <1>3, PTL


(* The check of ensure_attempt_within_budget uses the row as claimed and   *)
(* the charge is added later, to the row as re-read: what makes that safe  *)
(* is that the units of the two stay the same while the worker is at work. *)
BudgetHeld(w) ==
    LET j == worker[w].job IN
    IF worker[w].pc = "saving"
    THEN worker[w].row.budget_used <= BudgetUnits[j]
    ELSE /\ worker[w].row.budget_used = queue_jobs[j].budget_used
         /\ worker[w].row.budget_used + worker[w].charge <= BudgetUnits[j]

BudgetInv ==
    BudgetRespected /\ \A w \in Workers : Working(w) => BudgetHeld(w)

LEMMA NextBudgetHeld ==
    ASSUME Operators = {}, MaxOverruns = 0, TypeInv, OwnInv, BudgetInv, [Next]_vars,
           NEW w \in Workers, Working(w)'
    PROVE  BudgetHeld(w)'
  <1>1. worker \in [Workers -> WorkerState] /\ queue_jobs \in [Jobs -> Row]
    BY DEF TypeInv, TypeOK
  <1>2. CASE ClaimJob(w)
    <2> DEFINE rows == Requeued(queue_jobs)
    <2>1. PICK j \in Jobs :
            /\ queue_jobs' = [rows EXCEPT ![j] = ClaimedRow(rows[j], w)]
            /\ worker' = [worker EXCEPT ![w] =
                 [pc |-> "claimed", job |-> j,
                  row |-> ClaimedRow(rows[j], w), charge |-> 0]]
      BY <1>2, ClaimEffect
    <2>2. rows \in [Jobs -> Row] /\ rows[j].budget_used = queue_jobs[j].budget_used
      BY <1>1, RequeuedType DEF Requeued, RequeuedRow, Row
    <2> HIDE DEF rows
    <2>3. /\ worker'[w].pc = "claimed" /\ worker'[w].job = j /\ worker'[w].charge = 0
          /\ worker'[w].row = ClaimedRow(rows[j], w)
          /\ queue_jobs'[j] = ClaimedRow(rows[j], w)
      BY <1>1, <2>1, <2>2
    <2>4. ClaimedRow(rows[j], w).budget_used = queue_jobs[j].budget_used
      BY <2>2 DEF ClaimedRow, Row
    <2>5. queue_jobs[j].budget_used \in Nat /\ queue_jobs[j].budget_used <= BudgetUnits[j]
      BY <1>1 DEF Row, BudgetInv, BudgetRespected
    <2> QED
      BY <2>3, <2>4, <2>5 DEF BudgetHeld
  <1>3. CASE ~ClaimJob(w)
    <2> DEFINE j == worker[w].job
               latest == queue_jobs[j]
    <2>1. Working(w) /\ ~SaveOutcome(w) /\ worker'[w].job = j
      BY <1>3, StillWorking
    <2>2. /\ j \in Jobs /\ latest \in Row /\ worker[w].row \in Row /\ worker[w].charge \in Nat
          /\ BudgetHeld(w)
      BY <1>1, <2>1 DEF TypeInv, WorkerState, BudgetInv
    <2>3. queue_jobs'[j].budget_used = latest.budget_used
      BY <2>1, HeldRow DEF Kept
    <2>4. /\ latest.budget_used \in Nat /\ worker[w].row.budget_used \in Nat
          /\ BudgetUnits[j] \in Nat /\ AttemptCost[j] \in Nat
          /\ latest.budget_used <= BudgetUnits[j]
      BY <2>2, QueueAssumption DEF Row, BudgetInv, BudgetRespected
    <2>5. CASE /\ worker[w].pc # "saving" /\ worker'[w].pc = "saving"
               /\ worker'[w].row = CancelledRow(latest, w)
      <3>1. worker'[w].row.budget_used = latest.budget_used
        BY <2>2, <2>5 DEF CancelledRow, Row
      <3> QED
        BY <2>1, <2>4, <2>5, <3>1 DEF BudgetHeld
    <2>6. CASE /\ worker[w].pc # "saving" /\ worker'[w].pc = "saving"
               /\ worker'[w].row = SucceededRow(w)
      <3>1. worker'[w].row.budget_used = worker[w].row.budget_used + worker[w].charge
        BY <2>2, <2>6 DEF SucceededRow, Row
      <3> QED
        BY <2>1, <2>2, <2>6, <3>1 DEF BudgetHeld
    <2>7. CASE /\ worker[w].pc # "saving" /\ worker'[w].pc = "saving"
               /\ worker'[w].row = FailedRow(w, latest)
      <3>1. worker'[w].row.budget_used = latest.budget_used + worker[w].charge
        BY <2>2, <2>7 DEF FailedRow, Row
      <3> QED
        BY <2>1, <2>2, <2>7, <3>1 DEF BudgetHeld
    <2>8. CASE /\ worker'[w].pc = worker[w].pc /\ worker'[w].charge = worker[w].charge
               /\ Kept(worker[w].row, worker'[w].row)
      BY <2>1, <2>2, <2>3, <2>8 DEF BudgetHeld, Kept
    <2>9. CASE /\ worker[w].pc # "saving" /\ worker'[w].pc = "raised"
               /\ worker'[w].row = worker[w].row
               /\ worker'[w].charge = 0 \/ worker'[w].charge = worker[w].charge
      BY <2>1, <2>2, <2>3, <2>4, <2>9 DEF BudgetHeld
    <2>10. CASE /\ worker[w].pc # "saving" /\ worker'[w].pc = "dispatching"
                /\ worker'[w].row = worker[w].row
                /\ WithinBudget(w) /\ worker'[w].charge = AttemptCost[j]
      BY <2>1, <2>2, <2>3, <2>4, <2>10 DEF BudgetHeld, WithinBudget
    <2> QED
      BY <1>3, <2>5, <2>6, <2>7, <2>8, <2>9, <2>10, WorkerMove
  <1> QED
    BY <1>2, <1>3

LEMMA NextBudgetRespected ==
    ASSUME Operators = {}, TypeInv, BudgetInv, [Next]_vars
    PROVE  BudgetRespected'
  <1> SUFFICES ASSUME NEW j \in Jobs
               PROVE  queue_jobs'[j].budget_used <= BudgetUnits[j]
    BY DEF BudgetRespected
  <1>1. queue_jobs[j] \in Row /\ queue_jobs[j].budget_used <= BudgetUnits[j]
    BY DEF TypeInv, TypeOK, BudgetInv, BudgetRespected
  <1>2. CASE Kept(queue_jobs[j], queue_jobs'[j])
    BY <1>1, <1>2 DEF Kept
  <1>3. CASE queue_jobs'[j] = RequeuedRow(queue_jobs[j])
    BY <1>1, <1>3 DEF RequeuedRow, Row
  <1>4. ASSUME NEW w \in Workers, queue_jobs'[j] = ClaimedRow(Requeued(queue_jobs)[j], w)
        PROVE  queue_jobs'[j].budget_used <= BudgetUnits[j]
    <2>1. Requeued(queue_jobs)[j] \in Row
      BY RequeuedType
    <2>2. Requeued(queue_jobs)[j].budget_used = queue_jobs[j].budget_used
      BY <1>1 DEF Requeued, RequeuedRow, Row
    <2> QED
      BY <1>1, <1>4, <2>1, <2>2 DEF ClaimedRow, Row
  <1>5. ASSUME NEW w \in Workers, SaveOutcome(w), worker[w].job = j,
               queue_jobs'[j] = worker[w].row
        PROVE  queue_jobs'[j].budget_used <= BudgetUnits[j]
    BY <1>5 DEF SaveOutcome, Working, Holding, BudgetInv, BudgetHeld
  <1>6. CASE queue_jobs'[j] = FreshRow
    BY <1>6, QueueAssumption DEF FreshRow
  <1> QED
    BY <1>2, <1>3, <1>4, <1>5, <1>6, RowStep

(* Under lease discipline no job is charged more units than its budget.    *)
THEOREM BudgetsRespected ==
    ASSUME Operators = {}, MaxOverruns = 0
    PROVE  Spec => []BudgetRespected
  <1>1. Init => BudgetInv
    BY QueueAssumption
    DEF Init, BudgetInv, BudgetRespected, FreshRow, AbsentRow, Idle, Working, Holding
  <1>2. TypeInv /\ OwnInv /\ BudgetInv /\ [Next]_vars => BudgetInv'
    BY NextBudgetHeld, NextBudgetRespected DEF BudgetInv
  <1>3. Spec => []BudgetInv
    BY <1>1, <1>2, InitTypeInv, NextTypeInv, InitOwnInv, NextOwnInv, PTL DEF Spec
  <1> QED
    BY <1>3, PTL DEF BudgetInv

-----------------------------------------------------------------------------
(* Admission.  The check and the insert are separate transactions, so what *)
(* is bounded is the pending jobs together with the clients in between.    *)

PendingInv ==
    Cardinality(Pending) + Cardinality(Clients) <= MaxPendingJobs + MaxClients - 1

LEMMA NextPendingInv ==
    ASSUME Operators = {}, MaxOverruns = 0
    PROVE  TypeInv /\ LeaseInv /\ OwnInv /\ PendingInv /\ [Next]_vars => PendingInv'
  <1> SUFFICES ASSUME TypeInv, LeaseInv, OwnInv, PendingInv, [Next]_vars
               PROVE  PendingInv'
    OBVIOUS
  <1>1. worker \in [Workers -> WorkerState] /\ queue_jobs \in [Jobs -> Row]
        /\ client \in [Jobs -> {"idle", "counted", "admitted"}]
        /\ Clients \subseteq Jobs /\ Pending \subseteq Jobs
    BY DEF TypeInv, TypeOK, Pending, Clients
  <1>2. /\ IsFiniteSet(Pending) /\ IsFiniteSet(Clients)
        /\ Cardinality(Pending) \in Nat /\ Cardinality(Clients) \in Nat
    BY <1>1, FS_Subset, FS_CardinalityType, QueueAssumption
  <1>3. MaxPendingJobs \in Nat /\ MaxClients \in Nat
    BY QueueAssumption
  <1>4. ASSUME NEW j \in Pending', ~Insert(j)
        PROVE  j \in Pending
    <2>1. j \in Jobs /\ queue_jobs'[j].status \in {"QUEUED", "RUNNING"}
      BY <1>4 DEF Pending
    <2>2. CASE Kept(queue_jobs[j], queue_jobs'[j])
      BY <2>1, <2>2 DEF Kept, Pending
    <2>3. CASE Expired(queue_jobs[j])
      BY <2>1, <2>3 DEF Expired, Pending
    <2>4. CASE Requeued(queue_jobs)[j].status = "QUEUED"
      BY <2>1, <2>4 DEF Requeued, Expired, Pending
    <2>5. ASSUME NEW w \in Workers, SaveOutcome(w), worker[w].job = j
          PROVE  j \in Pending
      BY <2>1, <2>5 DEF SaveOutcome, OwnInv, Owned, Working, Holding, Pending
    <2> QED
      BY <1>4, <2>1, <2>2, <2>3, <2>4, <2>5, RowStep
  <1>5. ASSUME NEW j \in Jobs, CountPending(j)
        PROVE  PendingInv'
    <2>1. Pending' = Pending /\ Clients' = Clients \cup {j} /\ j \notin Clients
      BY <1>1, <1>5 DEF CountPending, Pending, Clients
    <2>2. Cardinality(Clients') = Cardinality(Clients) + 1
      BY <1>2, <2>1, FS_AddElement
    <2>3. Cardinality(Clients) < MaxClients /\ Cardinality(Pending) < MaxPendingJobs
      BY <1>5 DEF CountPending
    <2>4. Cardinality(Pending') = Cardinality(Pending)
      BY <2>1
    <2> QED
      BY <1>2, <1>3, <2>2, <2>3, <2>4 DEF PendingInv
  <1>6. ASSUME NEW j \in Jobs, Insert(j)
        PROVE  PendingInv'
    <2>1. Pending' \subseteq Pending \cup {j}
      BY <1>1, <1>6 DEF Insert, Pending
    <2>2. Clients' = Clients \ {j} /\ j \in Clients
      BY <1>1, <1>6 DEF Insert, Clients
    <2>3. Cardinality(Clients') = Cardinality(Clients) - 1
      BY <1>2, <2>2, FS_RemoveElement
    <2>4. IsFiniteSet(Pending \cup {j})
          /\ Cardinality(Pending \cup {j}) <= Cardinality(Pending) + 1
      <3>1. /\ IsFiniteSet(Pending \cup {j})
            /\ Cardinality(Pending \cup {j}) =
                 IF j \in Pending THEN Cardinality(Pending) ELSE Cardinality(Pending) + 1
        BY <1>2, FS_AddElement, Zenon
      <3> QED
        BY <1>2, <3>1
    <2>5. Cardinality(Pending') \in Nat /\ Cardinality(Pending') <= Cardinality(Pending \cup {j})
      BY <2>1, <2>4, FS_Subset, FS_CardinalityType
    <2>6. Cardinality(Pending \cup {j}) \in Nat
      BY <2>4, FS_CardinalityType
    <2> QED
      BY <1>2, <1>3, <2>3, <2>4, <2>5, <2>6 DEF PendingInv
  <1>7. ASSUME \A j \in Jobs : ~CountPending(j) /\ ~Insert(j)
        PROVE  PendingInv'
    <2>1. ASSUME NEW j \in Jobs, CountTenant(j)
          PROVE  Clients' \subseteq Clients
      BY <1>1, <2>1 DEF CountTenant, Clients
    <2>2. ASSUME \A j \in Jobs : ~CountTenant(j)
          PROVE  client' = client
      BY <1>7, <2>2 DEF Next, vars, WorkerStep, RequeueExpired, ClaimNothing, ClaimJob,
         RefuseActor, SkipCancelled, ExceedBudget, StartDispatch, DispatchSucceeds,
         DispatchRaises, HandleFailure, SaveOutcome, OnlyWorker, Crash, Tick
    <2>3. Clients' \subseteq Clients
      BY <2>1, <2>2 DEF Clients
    <2>4. Pending' \subseteq Pending
      BY <1>4, <1>7 DEF Pending
    <2>5. Cardinality(Pending') \in Nat /\ Cardinality(Pending') <= Cardinality(Pending)
      BY <1>2, <2>4, FS_Subset, FS_CardinalityType
    <2>6. Cardinality(Clients') \in Nat /\ Cardinality(Clients') <= Cardinality(Clients)
      BY <1>2, <2>3, FS_Subset, FS_CardinalityType
    <2> QED
      BY <1>2, <1>3, <2>5, <2>6 DEF PendingInv
  <1> QED
    BY <1>5, <1>6, <1>7

(* Under lease discipline at most one job per further client slips past    *)
(* budget_max_pending_jobs.                                                *)
THEOREM PendingJobsBounded ==
    ASSUME Operators = {}, MaxOverruns = 0
    PROVE  Spec => []PendingBounded
  <1>1. Init => PendingInv
    <2> SUFFICES ASSUME Init PROVE PendingInv
      OBVIOUS
    <2>1. Pending = Backlog /\ Clients = {}
      BY QueueAssumption DEF Init, Pending, Clients, FreshRow, AbsentRow
    <2>2. Cardinality(Backlog) \in Nat
      BY FS_Subset, FS_CardinalityType, QueueAssumption
    <2>3. Cardinality({}) = 0
      BY FS_EmptySet
    <2> QED
      BY <2>1, <2>2, <2>3, QueueAssumption DEF PendingInv
  <1>2. TypeInv /\ PendingInv => PendingBounded
    <2> SUFFICES ASSUME TypeInv, PendingInv PROVE PendingBounded
      OBVIOUS
    <2>1. IsFiniteSet(Pending) /\ IsFiniteSet(Clients)
      BY FS_Subset, QueueAssumption DEF Pending, Clients
    <2>2. Cardinality(Pending) \in Nat /\ Cardinality(Clients) \in Nat
      BY <2>1, FS_CardinalityType
    <2> QED
      BY <2>2, QueueAssumption DEF PendingInv, PendingBounded
  <1>3. Spec => [](TypeInv /\ PendingInv)
    BY <1>1, InitTypeInv, NextTypeInv, InitLeaseInv, NextLeaseInv, InitOwnInv, NextOwnInv,
       NextPendingInv, PTL DEF Spec
  <1> QED
    BY <1>2, <1>3, PTL


-----------------------------------------------------------------------------
(* The refinement of ExclusiveWork, under lease discipline.                *)

(* The mapped executor of a job is the one worker at work on it, before a  *)
(* step and after it.                                                      *)
LEMMA ExecutorIff ==
    ASSUME OwnInv, NEW j \in Jobs
    PROVE  /\ executor[j] \in Workers \cup {None}
           /\ \A w \in Workers : executor[j] = w <=> Working(w) /\ worker[w].job = j
  <1>1. \A v, w \in Workers :
          Working(v) /\ worker[v].job = j /\ Working(w) /\ worker[w].job = j => v = w
    BY DEF OwnInv, Owned
  <1>2. CASE \E w \in Workers : Working(w) /\ worker[w].job = j
    <2>1. executor[j] = CHOOSE w \in Workers : Working(w) /\ worker[w].job = j
      BY <1>2 DEF executor
    <2>2. /\ executor[j] \in Workers
          /\ Working(executor[j]) /\ worker[executor[j]].job = j
      BY <1>2, <2>1
    <2> QED
      BY <1>1, <2>2
  <1>3. CASE \A w \in Workers : ~(Working(w) /\ worker[w].job = j)
    BY <1>3, QueueAssumption DEF executor
  <1> QED
    BY <1>2, <1>3

LEMMA ExecutorIffNext ==
    ASSUME OwnInv', NEW j \in Jobs
    PROVE  /\ executor'[j] \in Workers \cup {None}
           /\ \A w \in Workers : executor'[j] = w <=> Working(w)' /\ worker'[w].job = j
  <1>1. \A v, w \in Workers :
          Working(v)' /\ worker'[v].job = j /\ Working(w)' /\ worker'[w].job = j => v = w
    BY DEF OwnInv, Owned
  <1>2. CASE \E w \in Workers : Working(w)' /\ worker'[w].job = j
    <2>1. executor'[j] = CHOOSE w \in Workers : Working(w)' /\ worker'[w].job = j
      BY <1>2 DEF executor
    <2>2. \E w \in Workers : executor'[j] = w /\ Working(w)' /\ worker'[w].job = j
      BY <1>2, <2>1
    <2> QED
      BY <1>1, <2>2
  <1>3. CASE \A w \in Workers : ~(Working(w)' /\ worker'[w].job = j)
    BY <1>3, QueueAssumption DEF executor
  <1> QED
    BY <1>2, <1>3

(* A worker whose state is not touched executes what it executed.          *)
LEMMA ExecutorKept ==
    ASSUME OwnInv, OwnInv', NEW j \in Jobs,
           \A w \in Workers : Working(w)' /\ worker'[w].job = j <=> Working(w) /\ worker[w].job = j
    PROVE  executor'[j] = executor[j]
  BY ExecutorIff, ExecutorIffNext, QueueAssumption

(* Only a save and an insertion change the phase of a job.                 *)
LEMMA PhaseStep ==
    ASSUME Operators = {}, TypeInv, LeaseInv, OwnInv, [Next]_vars, NEW j \in Jobs
    PROVE  /\ \/ phase'[j] = phase[j]
              \/ Insert(j)
              \/ \E w \in Workers : SaveOutcome(w) /\ worker[w].job = j
           /\ Insert(j) => phase[j] = "absent" /\ phase'[j] = "waiting"
           /\ \A w \in Workers : SaveOutcome(w) /\ worker[w].job = j
                => phase'[j] \in {"waiting", "settled"}
  <1>1. queue_jobs \in [Jobs -> Row] /\ worker \in [Workers -> WorkerState]
        /\ client \in [Jobs -> {"idle", "counted", "admitted"}]
    BY DEF TypeInv, TypeOK
  <1>2. ASSUME Kept(queue_jobs[j], queue_jobs'[j])
        PROVE  phase'[j] = phase[j]
    BY <1>2 DEF Kept, phase
  <1>3. ASSUME Expired(queue_jobs[j]), queue_jobs'[j] = RequeuedRow(queue_jobs[j])
        PROVE  phase'[j] = phase[j]
    <2>1. queue_jobs'[j].status = "QUEUED" /\ queue_jobs[j].status = "RUNNING"
      BY <1>1, <1>3 DEF Expired, RequeuedRow, Row
    <2> QED
      BY <2>1 DEF phase, Final
  <1>4. ASSUME NEW w \in Workers, Requeued(queue_jobs)[j].status = "QUEUED",
               queue_jobs'[j] = ClaimedRow(Requeued(queue_jobs)[j], w)
        PROVE  phase'[j] = phase[j]
    <2>1. Requeued(queue_jobs)[j] \in Row
      BY RequeuedType
    <2>2. queue_jobs'[j].status = "RUNNING"
      BY <1>4, <2>1 DEF ClaimedRow, Row
    <2>3. queue_jobs[j].status \in {"QUEUED", "RUNNING"}
      BY <1>4 DEF Requeued, Expired
    <2> QED
      BY <2>2, <2>3 DEF phase, Final
  <1>5. Insert(j) => phase[j] = "absent" /\ phase'[j] = "waiting"
    <2> SUFFICES ASSUME Insert(j) PROVE phase[j] = "absent" /\ phase'[j] = "waiting"
      OBVIOUS
    <2>1. queue_jobs[j].status = "ABSENT"
      BY DEF Insert, OwnInv, Clients
    <2>2. queue_jobs'[j].status = "QUEUED"
      BY <1>1 DEF Insert, FreshRow
    <2> QED
      BY <2>1, <2>2 DEF phase, Final
  <1>6. ASSUME NEW w \in Workers, SaveOutcome(w), worker[w].job = j
        PROVE  phase'[j] \in {"waiting", "settled"}
    <2>1. queue_jobs'[j].status \in Final \cup {"QUEUED"}
      BY <1>1, <1>6 DEF SaveOutcome, LeaseInv, Released
    <2> QED
      BY <2>1 DEF phase, Final
  <1> QED
    BY <1>2, <1>3, <1>4, <1>5, <1>6, RowStep


(* A claim is the start of an exclusive execution.                         *)
LEMMA ClaimRefines ==
    ASSUME Operators = {}, MaxOverruns = 0, TypeInv, LeaseInv, OwnInv, OwnInv', [Next]_vars,
           NEW w \in Workers, ClaimJob(w)
    PROVE  \E j \in Jobs : Work!Start(j, w)
  <1> DEFINE rows == Requeued(queue_jobs)
  <1>1. worker \in [Workers -> WorkerState] /\ queue_jobs \in [Jobs -> Row]
    BY DEF TypeInv, TypeOK
  <1>2. PICK j \in Candidates(rows, w) :
          /\ j \in Jobs /\ rows[j].status = "QUEUED"
          /\ worker' = [worker EXCEPT ![w] =
               [pc |-> "claimed", job |-> j, row |-> ClaimedRow(rows[j], w), charge |-> 0]]
    BY ClaimEffect
  <1>3. worker[w].pc = "claiming"
    BY DEF ClaimJob
  <1>4. ASSUME NEW i \in Jobs, NEW v \in Workers, executor[i] = v
        PROVE  /\ v # w /\ i # j
               /\ queue_jobs[i].status = "RUNNING" /\ rows[i].status = "RUNNING"
    <2>1. Working(v) /\ worker[v].job = i
      BY <1>4, ExecutorIff
    <2>2. v # w
      BY <1>3, <2>1 DEF Working, Holding
    <2>3. Owned(queue_jobs[i], v)
      BY <2>1 DEF OwnInv
    <2>4. rows[i] = queue_jobs[i]
      BY <2>3 DEF Owned, Requeued, Expired
    <2> QED
      BY <1>2, <2>2, <2>3, <2>4 DEF Owned
  <1>5. executor[j] = None
    BY <1>2, <1>4, ExecutorIff
  <1>6. phase[j] = "waiting"
    <2>1. queue_jobs[j].status \in {"QUEUED", "RUNNING"}
      BY <1>2 DEF Requeued, Expired
    <2> QED
      BY <1>2, <2>1 DEF phase, Final
  <1>7. \A i \in Jobs : executor[i] # None =>
          executor[i] # w /\ (KeyOf[j] # None => KeyOf[i] # KeyOf[j])
    <2>1. KeyFree(rows, j)
      BY <1>2 DEF Candidates
    <2>2. \A i \in Jobs : executor[i] # None => executor[i] \in Workers
      BY ExecutorIff
    <2>3. \A i \in Jobs : executor[i] # None => executor[i] # w /\ rows[i].status = "RUNNING"
      BY <1>4, <2>2
    <2> HIDE DEF rows
    <2> QED
      BY <2>1, <2>3 DEF KeyFree, Running
  <1>8. ASSUME NEW i \in Jobs
        PROVE  executor'[i] = IF i = j THEN w ELSE executor[i]
    <2>1. worker'[w].pc = "claimed" /\ worker'[w].job = j
      BY <1>1, <1>2
    <2>2. \A v \in Workers : v # w => worker'[v] = worker[v]
      BY <1>1, <1>2
    <2>3. CASE i = j
      BY <1>2, <2>1, <2>3, ExecutorIffNext DEF Working, Holding
    <2>4. CASE i # j
      <3>1. \A v \in Workers :
              Working(v)' /\ worker'[v].job = i <=> Working(v) /\ worker[v].job = i
        BY <1>3, <2>1, <2>2, <2>4 DEF Working, Holding
      <3> QED
        BY <2>4, <3>1, ExecutorKept
    <2> QED
      BY <2>3, <2>4
  <1>9. executor' = [executor EXCEPT ![j] = w]
    BY <1>8 DEF executor
  <1>10. phase' = phase
    <2>1. \A v \in Workers : ~SaveOutcome(v)
      <3>1. ~SaveOutcome(w)
        BY <1>3 DEF SaveOutcome
      <3>2. \A v \in Workers : v # w => worker'[v] = worker[v]
        BY <1>1, <1>2
      <3>3. \A v \in Workers : v # w => ~SaveOutcome(v)
        BY <1>1, <3>2 DEF SaveOutcome, Idle
      <3> QED
        BY <3>1, <3>3
    <2>2. client' = client
      BY DEF ClaimJob
    <2>3. \A i \in Jobs : ~Insert(i)
      BY <2>2 DEF Insert, TypeInv, TypeOK
    <2>4. \A i \in Jobs : phase'[i] = phase[i]
      BY <2>1, <2>3, PhaseStep
    <2> QED
      BY <2>4 DEF phase
  <1> QED
    BY <1>2, <1>5, <1>6, <1>7, <1>9, <1>10 DEF Work!Start

(* A save or a death is the end of one.                                    *)
LEMMA EndRefines ==
    ASSUME Operators = {}, MaxOverruns = 0, TypeInv, LeaseInv, OwnInv, OwnInv', [Next]_vars,
           NEW w \in Workers, SaveOutcome(w) \/ Crash(w)
    PROVE  \E j \in Jobs : Work!End(j)
  <1> DEFINE j == worker[w].job
  <1>1. worker \in [Workers -> WorkerState] /\ queue_jobs \in [Jobs -> Row]
    BY DEF TypeInv, TypeOK
  <1>2. Working(w) /\ j \in Jobs
    BY DEF SaveOutcome, Crash, Working, Holding, TypeInv
  <1>3. worker' = [worker EXCEPT ![w] = Idle] /\ client' = client
    BY DEF SaveOutcome, Crash
  <1>4. executor[j] = w /\ w # None
    BY <1>2, ExecutorIff, QueueAssumption
  <1>5. ~Working(w)'
    BY <1>1, <1>3 DEF Working, Holding, Idle
  <1>6. \A v \in Workers : v # w => worker'[v] = worker[v]
    BY <1>1, <1>3
  <1>7. ASSUME NEW i \in Jobs
        PROVE  executor'[i] = IF i = j THEN None ELSE executor[i]
    <2>1. CASE i = j
      <3>1. \A v \in Workers : ~(Working(v)' /\ worker'[v].job = j)
        <4>1. \A v \in Workers : v # w => ~(Working(v) /\ worker[v].job = j)
          BY <1>2, <1>4, ExecutorIff
        <4>2. \A v \in Workers : v # w => ~(Working(v)' /\ worker'[v].job = j)
          BY <1>6, <4>1 DEF Working
        <4> QED
          BY <1>5, <4>2
      <3> QED
        BY <1>2, <2>1, <3>1, ExecutorIffNext
    <2>2. CASE i # j
      <3>1. \A v \in Workers :
              Working(v)' /\ worker'[v].job = i <=> Working(v) /\ worker[v].job = i
        BY <1>5, <1>6, <2>2 DEF Working
      <3> QED
        BY <2>2, <3>1, ExecutorKept
    <2> QED
      BY <2>1, <2>2
  <1>8. executor' = [executor EXCEPT ![j] = None]
    BY <1>7 DEF executor
  <1>9. ASSUME NEW i \in Jobs, i # j
        PROVE  phase'[i] = phase[i]
    <2>1. ~Insert(i)
      BY <1>3 DEF Insert, TypeInv, TypeOK
    <2>2. \A v \in Workers : SaveOutcome(v) => worker[v].job # i
      <3>1. \A v \in Workers : v # w => ~SaveOutcome(v)
        BY <1>1, <1>6 DEF SaveOutcome, Idle
      <3> QED
        BY <1>9, <3>1
    <2> QED
      BY <2>1, <2>2, PhaseStep
  <1>10. phase'[j] \in {"waiting", "settled"}
    <2>1. CASE SaveOutcome(w)
      BY <1>2, <2>1, PhaseStep
    <2>2. CASE Crash(w)
      <3>1. queue_jobs'[j].status = "RUNNING"
        BY <1>2, <2>2 DEF Crash, OwnInv, Owned
      <3> QED
        BY <1>2, <3>1 DEF phase, Final
    <2> QED
      BY <2>1, <2>2
  <1>11. phase' = [phase EXCEPT ![j] = phase'[j]]
    <2>1. phase = [i \in Jobs |-> phase[i]] /\ phase' = [i \in Jobs |-> phase'[i]]
      BY DEF phase
    <2> HIDE DEF j
    <2> QED
      BY <1>9, <2>1
  <1> HIDE DEF j
  <1> QED
    BY <1>2, <1>4, <1>8, <1>10, <1>11 DEF Work!End


(* Every other step is the submission of a job or changes nothing.         *)
LEMMA OtherRefines ==
    ASSUME Operators = {}, MaxOverruns = 0, TypeInv, LeaseInv, OwnInv, OwnInv', [Next]_vars,
           \A w \in Workers : ~ClaimJob(w) /\ ~SaveOutcome(w) /\ ~Crash(w)
    PROVE  (\E j \in Jobs : Work!Submit(j)) \/ UNCHANGED Work!vars
  <1>1. ASSUME NEW i \in Jobs
        PROVE  executor'[i] = executor[i]
    <2>1. \A w \in Workers :
            Working(w)' /\ worker'[w].job = i <=> Working(w) /\ worker[w].job = i
      BY StillWorking, StaysWorking
    <2> QED
      BY <2>1, ExecutorKept
  <1>2. executor' = executor
    BY <1>1 DEF executor
  <1>3. phase = [i \in Jobs |-> phase[i]] /\ phase' = [i \in Jobs |-> phase'[i]]
    BY DEF phase
  <1>4. CASE \A j \in Jobs : ~Insert(j)
    <2>1. \A i \in Jobs : phase'[i] = phase[i]
      BY <1>4, PhaseStep
    <2> QED
      BY <1>2, <1>3, <2>1 DEF Work!vars
  <1>5. ASSUME NEW j \in Jobs, Insert(j)
        PROVE  Work!Submit(j)
    <2>1. ASSUME NEW i \in Jobs, i # j
          PROVE  phase'[i] = phase[i]
      <3>1. queue_jobs'[i] = queue_jobs[i]
        BY <1>5, <2>1 DEF Insert, TypeInv, TypeOK
      <3> QED
        BY <3>1 DEF phase
    <2>2. phase[j] = "absent" /\ phase'[j] = "waiting"
      BY <1>5, PhaseStep
    <2> QED
      BY <1>2, <1>3, <2>1, <2>2 DEF Work!Submit
  <1> QED
    BY <1>4, <1>5

(* Under lease discipline the queue implements ExclusiveWork.              *)
THEOREM QueueImplementsExclusiveWork ==
    ASSUME Operators = {}, MaxOverruns = 0
    PROVE  Spec => ImplementsExclusiveWork
  <1>1. Init => Work!Init
    <2> SUFFICES ASSUME Init PROVE Work!Init
      OBVIOUS
    <2>1. \A j \in Jobs : phase[j] \in {"absent", "waiting"}
      BY DEF Init, phase, FreshRow, AbsentRow, Final
    <2>2. \A w \in Workers : ~Working(w)
      BY DEF Init, Idle, Working, Holding
    <2>3. executor = [j \in Jobs |-> None]
      BY <2>2 DEF executor
    <2>4. phase = [j \in Jobs |-> phase[j]]
      BY DEF phase
    <2> QED
      BY <2>1, <2>3, <2>4 DEF Work!Init
  <1>2. TypeInv /\ LeaseInv /\ OwnInv /\ OwnInv' /\ [Next]_vars => [Work!Next]_(Work!vars)
    BY ClaimRefines, EndRefines, OtherRefines DEF Work!Next
  <1>3. Spec => [](TypeInv /\ LeaseInv /\ OwnInv)
    BY InitTypeInv, NextTypeInv, InitLeaseInv, NextLeaseInv, InitOwnInv, NextOwnInv, PTL
    DEF Spec
  <1> QED
    BY <1>1, <1>2, <1>3, PTL DEF Spec, ImplementsExclusiveWork, Work!Spec

=============================================================================
