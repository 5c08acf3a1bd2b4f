------------------------------- MODULE Handoff -------------------------------
(***************************************************************************)
(* What the deliveries of a repository promise to those who review them,   *)
(* without work trees, requests or races: commits that were shared stay    *)
(* shared, a branch is put up for review once and only with commits, and a *)
(* delivery is recorded as a success only when its commit is up for        *)
(* review.                                                                 *)
(***************************************************************************)
CONSTANTS Branches,
          Commits    \* one per delivery

VARIABLES
    shared,     \* the commits on the remote, per branch
    proposed,   \* the branches that are up for review
    recorded    \* the deliveries recorded as successes

vars == <<shared, proposed, recorded>>

Init == shared = [b \in Branches |-> {}] /\ proposed = {} /\ recorded = {}

Share(b) ==
    /\ \E more \in SUBSET Commits :
         shared' = [shared EXCEPT ![b] = @ \cup more]
    /\ UNCHANGED <<proposed, recorded>>

Propose(b) ==
    /\ b \notin proposed /\ shared[b] # {}
    /\ proposed' = proposed \cup {b}
    /\ UNCHANGED <<shared, recorded>>

Record(c) ==
    /\ \E b \in proposed : c \in shared[b]
    /\ recorded' = recorded \cup {c}
    /\ UNCHANGED <<shared, proposed>>

Next ==
    \/ \E b \in Branches : Share(b) \/ Propose(b)
    \/ \E c \in Commits : Record(c)

Spec == Init /\ [][Next]_vars

=============================================================================
