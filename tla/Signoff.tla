------------------------------- MODULE Signoff -------------------------------
(***************************************************************************)
(* What a delivery approval promises, without receipts, files or races:    *)
(* every entitled actor has one vote, one rejection refuses the request,   *)
(* the quota of distinct approving actors grants it, and a request that is *)
(* granted or refused is so for ever.                                      *)
(***************************************************************************)
EXTENDS Naturals, FiniteSets

CONSTANTS Requests, Actors,
          Entitled  \* Entitled[r]: the actors that may vote on r

VARIABLES
    outcome,    \* of each request: "none", "open", "granted" or "refused"
    quota,      \* how many actors must approve it
    voters,     \* the actors that have voted on it
    approvers   \* those of them that approved

vars == <<outcome, quota, voters, approvers>>

Init ==
    /\ outcome = [r \in Requests |-> "none"]
    /\ quota = [r \in Requests |-> 0]
    /\ voters = [r \in Requests |-> {}]
    /\ approvers = [r \in Requests |-> {}]

(* A request is refused at once, granted at once if nobody need approve,   *)
(* or open.                                                                *)
Ask(r) ==
    /\ outcome[r] = "none"
    /\ quota'[r] \in Nat /\ quota' = [quota EXCEPT ![r] = quota'[r]]
    /\ \E o \in {"open", "granted", "refused"} :
         /\ o = "open" => quota'[r] > 0
         /\ o = "granted" => quota'[r] = 0
         /\ outcome' = [outcome EXCEPT ![r] = o]
    /\ UNCHANGED <<voters, approvers>>

Approve(r, actor) ==
    /\ outcome[r] = "open" /\ actor \in Entitled[r] \ voters[r]
    /\ voters' = [voters EXCEPT ![r] = @ \cup {actor}]
    /\ approvers' = [approvers EXCEPT ![r] = @ \cup {actor}]
    /\ outcome' = [outcome EXCEPT ![r] =
         IF Cardinality(approvers'[r]) >= quota[r] THEN "granted" ELSE "open"]
    /\ UNCHANGED quota

Reject(r, actor) ==
    /\ outcome[r] = "open" /\ actor \in Entitled[r] \ voters[r]
    /\ voters' = [voters EXCEPT ![r] = @ \cup {actor}]
    /\ outcome' = [outcome EXCEPT ![r] = "refused"]
    /\ UNCHANGED <<quota, approvers>>

Next == \E r \in Requests :
    Ask(r) \/ \E actor \in Actors : Approve(r, actor) \/ Reject(r, actor)

Spec == Init /\ [][Next]_vars

=============================================================================
