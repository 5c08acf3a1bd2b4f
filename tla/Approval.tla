------------------------------ MODULE Approval ------------------------------
(***************************************************************************)
(* Delivery approvals: the table approvals of run_repository.py and the    *)
(* receipt files beside it, the requests and the reviews that write both   *)
(* (manage_approval.py), the policy they evaluate (approval_policy.py) and *)
(* the gate a delivery passes (deliver_run.py, _ensure_delivery_approval). *)
(*                                                                         *)
(* A request or a review is a call of the CLI, of a thread of the HTTP     *)
(* server or of a chat webhook.  A review reads the row in one             *)
(* transaction and builds the whole new receipt from it; _persist_approval *)
(* then writes the file and, in another transaction, replaces the row.     *)
(* Other calls may run between any two of these steps, and a call may die  *)
(* there.  A call that is refused changes nothing and is not a step.       *)
(***************************************************************************)
EXTENDS Integers, FiniteSets

CONSTANTS
    Approvals,     \* the calls that request an approval, each with a fresh id
    Reviews,       \* the calls that review one
    Deliveries,    \* the deliveries that come to the gate
    Actors,
    Work,          \* triples of a succeeded run, execution and verification
    None           \* the JSON null

CONSTANTS          \* what the calls are given
    WorkOf,        \* the triple an approval is requested for
    Delivers,      \* the triple a delivery delivers
    RequestedBy,
    MayRequest,    \* the requests whose requester team the policy admits
    MayReview,     \* who passes the team and assignment rules of each approval
    AllowSelfApproval,
    ExpiresIn      \* expires_in_hours, or None

CONSTANTS          \* the environment
    Policies,      \* what evaluate_delivery finds for each triple, at any time
    Overlapping,   \* the approvals on which reviews may overlap in time
    MaxTime        \* the last hour that is considered

ASSUME ApprovalAssumption ==
    /\ None \notin Nat /\ None \notin Approvals
    /\ Approvals \cap Reviews = {}
    /\ IsFiniteSet(Reviews) /\ IsFiniteSet(Actors)
    /\ WorkOf \in [Approvals -> Work] /\ Delivers \in [Deliveries -> Work]
    /\ RequestedBy \in [Approvals -> Actors]
    /\ MayReview \in [Approvals -> SUBSET Actors]
    /\ AllowSelfApproval \in BOOLEAN
    /\ \A a \in Approvals : ExpiresIn[a] \in (Nat \ {0}) \cup {None}
    /\ \A p \in Policies : p \in [Work -> [required : Nat, blocked : BOOLEAN]]
    /\ MaxTime \in Nat

VARIABLES
    approvals,  \* the table: the row of each approval
    files,      \* the receipt file of each approval
    calls,      \* how far each request and each review has come
    delivery,   \* what each delivery saw when it passed the gate
    policy,     \* the policy in force: configuration and tenant overrides
    now

vars == <<approvals, files, calls, delivery, policy, now>>

-----------------------------------------------------------------------------
(* Receipts: the row, its payload and the file hold the same fields.       *)

Settled == {"APPROVED", "REJECTED"}

Decided == [review : Reviews, actor : Actors, decision : {"APPROVE", "REJECT"}]

Receipt == [status     : {"ABSENT", "PENDING"} \cup Settled,
            required   : Nat,
            created_at : Nat,
            expires_at : Nat \cup {None},
            decisions  : SUBSET Decided]

(* No row, or no file.                                                     *)
AbsentReceipt == [status |-> "ABSENT", required |-> 0, created_at |-> 0,
                  expires_at |-> None, decisions |-> {}]

Approving(decisions) == {d \in decisions : d.decision = "APPROVE"}
ActorsOf(decisions) == {d.actor : d \in decisions}

(* Slip: the hour of expiry still counts.                                  *)
ExpiredLate(receipt) ==
    receipt.expires_at # None /\ now > receipt.expires_at

(* approval_is_expired                                                     *)
Expired(receipt) ==
    receipt.expires_at # None /\ now >= receipt.expires_at

-----------------------------------------------------------------------------
(* Calls.                                                                  *)
(*   idle      not begun                                                   *)
(*   computed  has read what it decides on and built the new receipt       *)
(*   filed     has written the receipt file, not yet the row               *)
(*   saved     has written the row and answered its caller                 *)
(*   dead      its process died before the row was written                 *)
Call == [phase : {"idle", "computed", "filed", "saved", "dead"},
         approval : Approvals \cup {None}, receipt : Receipt]

IdleCall == [phase |-> "idle", approval |-> None, receipt |-> AbsentReceipt]

AtGate == [passed |-> FALSE, approval |-> None, receipt |-> AbsentReceipt, at |-> 0]

TypeOK ==
    /\ approvals \in [Approvals -> Receipt]
    /\ files \in [Approvals -> Receipt]
    /\ calls \in [Approvals \cup Reviews -> Call]
    /\ delivery \in [Deliveries -> [passed : BOOLEAN, approval : Approvals \cup {None},
                                    receipt : Receipt, at : Nat]]
    /\ policy \in Policies
    /\ now \in 0..MaxTime

Underway(c) == calls[c].phase \in {"computed", "filed"}

(* No review of a is between its read and its write.                       *)
Quiet(a) == \A c \in Reviews : Underway(c) => calls[c].approval # a

Init ==
    /\ approvals = [a \in Approvals |-> AbsentReceipt]
    /\ files = [a \in Approvals |-> AbsentReceipt]
    /\ calls = [c \in Approvals \cup Reviews |-> IdleCall]
    /\ delivery = [d \in Deliveries |-> AtGate]
    /\ policy \in Policies
    /\ now = 0

-----------------------------------------------------------------------------
(* The two callers of _persist_approval, up to that call.                  *)

(* Slip: the requester's own approval is taken for granted.                *)
RequestedReceiptOneLess(a) ==
    LET required == policy[WorkOf[a]].required
    IN  [status |-> IF required > 0 THEN "PENDING" ELSE "APPROVED",
         required |-> required - 1, created_at |-> now,
         expires_at |-> None, decisions |-> {}]

(* The receipt request_delivery_approval makes of the evaluation: only a   *)
(* pending one is given an expiry.                                         *)
RequestedReceipt(a) ==
    LET required == policy[WorkOf[a]].required
        blocked == policy[WorkOf[a]].blocked \/ a \notin MayRequest
        status == IF blocked THEN "REJECTED"
                  ELSE IF required > 0 THEN "PENDING" ELSE "APPROVED"
    IN  [status |-> status, required |-> required, created_at |-> now,
         expires_at |-> IF status = "PENDING" /\ ExpiresIn[a] # None
                        THEN now + ExpiresIn[a] ELSE None,
         decisions |-> {}]

Request(a) ==
    /\ calls[a].phase = "idle"
    /\ calls' = [calls EXCEPT ![a] =
         [phase |-> "computed", approval |-> a, receipt |-> RequestedReceipt(a)]]
    /\ UNCHANGED <<approvals, files, delivery, policy, now>>

(* Slip: the decisions already made are not copied.                        *)
ReviewedAlone(receipt, d) ==
    [receipt EXCEPT !.decisions = {d},
                    !.status = IF d.decision = "REJECT" THEN "REJECTED" ELSE @]

(* Slip: one approval less is enough.                                      *)
ReviewedEarly(receipt, d) ==
    LET decisions == receipt.decisions \cup {d}
    IN  [receipt EXCEPT !.decisions = decisions,
            !.status = CASE d.decision = "REJECT" -> "REJECTED"
                         [] OTHER -> IF Cardinality(Approving(decisions)) + 1 >= receipt.required
                                     THEN "APPROVED" ELSE "PENDING"]

(* The receipt decide builds from the one it read: a rejection settles it, *)
(* else the approvals counted, this one included.                          *)
Reviewed(receipt, d) ==
    LET decisions == receipt.decisions \cup {d}
        approved_count == Cardinality(Approving(decisions))
    IN  [receipt EXCEPT
            !.decisions = decisions,
            !.status = CASE d.decision = "REJECT" -> "REJECTED"
                         [] d.decision = "APPROVE" ->
                              IF approved_count >= receipt.required
                              THEN "APPROVED" ELSE "PENDING"]

(* ensure_reviewer_can_decide                                              *)
MayDecide(a, actor) ==
    /\ actor \in MayReview[a]
    /\ AllowSelfApproval \/ actor # RequestedBy[a]

Reviewing(c, a, actor, decision) ==
    /\ calls' = [calls EXCEPT ![c] =
         [phase |-> "computed", approval |-> a,
          receipt |-> Reviewed(approvals[a],
                        [review |-> c, actor |-> actor, decision |-> decision])]]
    /\ UNCHANGED <<approvals, files, delivery, policy, now>>

(* Slip: an actor may review again.                                        *)
BeginReviewAgain(c, a, actor, decision) ==
    /\ calls[c].phase = "idle"
    /\ a \notin Overlapping => Quiet(a)
    /\ approvals[a].status = "PENDING"
    /\ ~Expired(approvals[a])
    /\ MayDecide(a, actor)
    /\ Reviewing(c, a, actor, decision)

(* Slip: only a rejected approval is final.                                *)
BeginReviewSettled(c, a, actor, decision) ==
    /\ calls[c].phase = "idle"
    /\ a \notin Overlapping => Quiet(a)
    /\ approvals[a].status \in {"PENDING", "APPROVED"}
    /\ ~Expired(approvals[a])
    /\ MayDecide(a, actor)
    /\ actor \notin ActorsOf(approvals[a].decisions)
    /\ Reviewing(c, a, actor, decision)

BeginReview(c, a, actor, decision) ==
    /\ calls[c].phase = "idle"
    /\ a \notin Overlapping => Quiet(a)
    /\ approvals[a].status = "PENDING"
    /\ ~Expired(approvals[a])
    /\ MayDecide(a, actor)
    /\ actor \notin ActorsOf(approvals[a].decisions)
    /\ Reviewing(c, a, actor, decision)

-----------------------------------------------------------------------------
(* _persist_approval, and the death of a call inside or before it.         *)

WriteFile(c) ==
    /\ calls[c].phase = "computed"
    /\ files' = [files EXCEPT ![calls[c].approval] = calls[c].receipt]
    /\ calls' = [calls EXCEPT ![c].phase = "filed"]
    /\ UNCHANGED <<approvals, delivery, policy, now>>

(* save_approval: INSERT OR REPLACE                                        *)
SaveRow(c) ==
    /\ calls[c].phase = "filed"
    /\ approvals' = [approvals EXCEPT ![calls[c].approval] = calls[c].receipt]
    /\ calls' = [calls EXCEPT ![c].phase = "saved", ![c].receipt = AbsentReceipt]
    /\ UNCHANGED <<files, delivery, policy, now>>

Die(c) ==
    /\ Underway(c)
    /\ calls' = [calls EXCEPT ![c].phase = "dead", ![c].receipt = AbsentReceipt]
    /\ UNCHANGED <<approvals, files, delivery, policy, now>>

-----------------------------------------------------------------------------
(* The gate of a delivery, which evaluates the policy again.               *)

Passed(d, a, receipt) ==
    /\ delivery' = [delivery EXCEPT ![d] =
         [passed |-> TRUE, approval |-> a, receipt |-> receipt, at |-> now]]
    /\ UNCHANGED <<approvals, files, calls, policy, now>>

PassWithoutApproval(d) ==
    /\ ~delivery[d].passed
    /\ ~policy[Delivers[d]].blocked
    /\ policy[Delivers[d]].required = 0
    /\ Passed(d, None, AbsentReceipt)

(* Slip: anything but a rejection opens the gate.                          *)
PassUnlessRejected(d, a) ==
    /\ ~delivery[d].passed
    /\ ~policy[Delivers[d]].blocked
    /\ approvals[a].status \in {"PENDING", "APPROVED"}
    /\ ~Expired(approvals[a])
    /\ WorkOf[a] = Delivers[d]
    /\ Passed(d, a, approvals[a])

PassWithApproval(d, a) ==
    /\ ~delivery[d].passed
    /\ ~policy[Delivers[d]].blocked
    /\ approvals[a].status = "APPROVED"
    /\ ~Expired(approvals[a])
    /\ WorkOf[a] = Delivers[d]
    /\ Passed(d, a, approvals[a])

-----------------------------------------------------------------------------
(* The environment: an administrator changes the policy, an hour passes.   *)

ChangePolicy ==
    /\ policy' \in Policies \ {policy}
    /\ UNCHANGED <<approvals, files, calls, delivery, now>>

Tick ==
    /\ now < MaxTime
    /\ now' = now + 1
    /\ UNCHANGED <<approvals, files, calls, delivery, policy>>

Persist(c) == WriteFile(c) \/ SaveRow(c) \/ Die(c)

Next ==
    \/ \E a \in Approvals : Request(a)
    \/ \E c \in Reviews, a \in Approvals, actor \in Actors,
          decision \in {"APPROVE", "REJECT"} : BeginReview(c, a, actor, decision)
    \/ \E c \in Approvals \cup Reviews : Persist(c)
    \/ \E d \in Deliveries : PassWithoutApproval(d)
    \/ \E d \in Deliveries, a \in Approvals : PassWithApproval(d, a)
    \/ ChangePolicy
    \/ Tick

Spec == Init /\ [][Next]_vars

-----------------------------------------------------------------------------
(* Properties.                                                             *)

(* However the reviews of an approval overlap, no receipt, in the table,   *)
(* in its file or about to be written, counts an actor twice: decide       *)
(* refuses an actor that the receipt it read already lists.                *)
OneVote(receipt) ==
    \A d, e \in receipt.decisions : d.actor = e.actor => d = e

OneVoteEach ==
    /\ \A a \in Approvals : OneVote(approvals[a]) /\ OneVote(files[a])
    /\ \A c \in Approvals \cup Reviews : OneVote(calls[c].receipt)

(* A delivery that an approval let through rests on an approval for what   *)
(* it delivers, that as many different actors approved as were required    *)
(* when it was requested, all entitled and none of them the requester      *)
(* unless the policy allows it, and that nobody it lists rejected.         *)
Earned(a, receipt) ==
    /\ Cardinality(ActorsOf(Approving(receipt.decisions))) >= receipt.required
    /\ \A d \in receipt.decisions : d.decision = "APPROVE" /\ MayDecide(a, d.actor)

DeliveriesEarned ==
    \A d \in Deliveries : delivery[d].approval # None =>
        /\ WorkOf[delivery[d].approval] = Delivers[d]
        /\ Earned(delivery[d].approval, delivery[d].receipt)

(* No review moves the window of a request: a delivery passes on an        *)
(* approval that had to be given only within expires_in_hours of the       *)
(* request, whenever the reviews came.                                     *)
DeliveriesInWindow ==
    \A d \in Deliveries :
        LET a == delivery[d].approval
            receipt == delivery[d].receipt
        IN  a # None /\ receipt.required > 0 /\ ExpiresIn[a] # None
            => delivery[d].at < receipt.created_at + ExpiresIn[a]

(* The answer a reviewer got holds: while reviews of an approval do not    *)
(* overlap, a decision that was saved stays in the row and in the file,    *)
(* also when a later call dies between the two.                            *)
AnswersKept ==
    \A c \in Reviews :
        LET a == calls[c].approval
        IN  calls[c].phase = "saved" /\ a \notin Overlapping =>
              /\ \E d \in approvals[a].decisions : d.review = c
              /\ \E d \in files[a].decisions : d.review = c

(* Once an approval is approved or rejected and no review that read it     *)
(* before is still to be written, it is settled for good: no step changes  *)
(* its row, and none begins a review of it.                                *)
SettlesForGood ==
    [][\A a \in Approvals : approvals[a].status \in Settled /\ Quiet(a)
            => approvals'[a] = approvals[a] /\ Quiet(a)']_vars

(* What manage_approval.py:169 tells a reviewer: an approval that is       *)
(* approved or rejected is in a final state.  Two overlapping reviews      *)
(* break it.                                                               *)
FinalStays ==
    [][\A a \in Approvals : approvals[a].status \in Settled
            => approvals'[a].status = approvals[a].status]_approvals

-----------------------------------------------------------------------------
(* Approvals whose reviews do not overlap implement Signoff: a request or  *)
(* a vote takes effect when its row is saved.                              *)

Serial == Approvals \ Overlapping

SignoffOutcome(status) ==
    CASE status = "ABSENT" -> "none"     [] status = "PENDING" -> "open"
      [] status = "APPROVED" -> "granted" [] status = "REJECTED" -> "refused"

outcome == [a \in Serial |-> SignoffOutcome(approvals[a].status)]
quota == [a \in Serial |-> approvals[a].required]
voters == [a \in Serial |-> ActorsOf(approvals[a].decisions)]
approvers == [a \in Serial |-> ActorsOf(Approving(approvals[a].decisions))]

MayVote == [a \in Serial |-> {actor \in Actors : MayDecide(a, actor)}]

Votes == INSTANCE Signoff WITH Requests <- Serial, Entitled <- MayVote

ImplementsSignoff == Votes!Spec

=============================================================================
