----------------------------- MODULE MCJobQueue -----------------------------
(***************************************************************************)
(* Values for the constants of JobQueue, shared by its TLC runs.           *)
(***************************************************************************)
EXTENDS JobQueue

CONSTANTS w1, w2, t1, k1

(* Three jobs: 1 and 2 share a concurrency key, 1 and 3 a tenant; job 3    *)
(* has the highest priority and needs a tag that only w1 advertises.       *)
TwoJobs == {1, 2}
ThreeJobs == {1, 2, 3}

MCPriority == [j \in Jobs |-> IF j = 3 THEN 5 ELSE 0]
MCCreatedAt == [j \in Jobs |-> j]
MCTenantOf == [j \in Jobs |-> IF j = 2 THEN None ELSE t1]
MCKeyOf == [j \in Jobs |-> IF j = 3 THEN None ELSE k1]
MCRequiredTags == [j \in Jobs |-> IF j = 3 THEN {"gpu"} ELSE {}]
MCWorkerTags == [w \in Workers |-> IF w = w1 THEN {"gpu"} ELSE {}]
MCAllowedJobs == [w \in Workers |-> Jobs]

TwoAttempts == [j \in Jobs |-> 2]
MixedAttempts == [j \in Jobs |-> IF j = 2 THEN 2 ELSE 1]
OneAttempt == [j \in Jobs |-> 1]
(* default_budget_units, but for job 2, which was given a budget of its own. *)
MCBudgetUnits == [j \in Jobs |-> IF j = 2 THEN 1 ELSE MaxAttempts[j] * AttemptCost[j]]
UnitCost == [j \in Jobs |-> 1]

=============================================================================
