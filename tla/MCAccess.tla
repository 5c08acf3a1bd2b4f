------------------------------ MODULE MCAccess ------------------------------
(***************************************************************************)
(* Values for the constants of Access, shared by its TLC runs.             *)
(***************************************************************************)
EXTENDS Access

CONSTANTS c1, c2,            \* commands
          acme, beta,        \* tenants
          app, lib,          \* repositories; lib is no tenant's
          ann, bob, bot,     \* actors
          core,              \* a team
          jobs, reviews, deliveries, k, b1, b2, web

(* The patterns of the two tenants overlap.                                *)
MCOwns == [t \in Tenants |-> {app}]

Ask == [op |-> "open", path |-> jobs, hook |-> FALSE, token |-> TRUE, principal |-> None,
        actor |-> ann, team |-> core, repo |-> app, tenant |-> acme, key |-> k, body |-> b1,
        client |-> web, members |-> <<>>, replace |-> FALSE, policy |-> 0, status |-> "active"]

Robot == [actor |-> bot, service |-> TRUE, teams |-> <<>>,
          scopes |-> {<<acme, "deliver">>, <<None, "manage_membership">>}, tenants |-> {acme}]
Person == [actor |-> bob, service |-> FALSE, teams |-> <<core>>, scopes |-> {}, tenants |-> {}]

Admin == [role |-> "admin", team |-> core]
Observer == [role |-> "observer", team |-> core]

MCRequests == {
    [Ask EXCEPT !.key = None],
    [Ask EXCEPT !.op = "enqueue"],
    [Ask EXCEPT !.op = "enqueue", !.body = b2, !.repo = lib],
    [Ask EXCEPT !.op = "review", !.path = reviews, !.hook = TRUE, !.actor = bob],
    [Ask EXCEPT !.op = "review", !.path = reviews, !.hook = TRUE, !.token = FALSE],
    [Ask EXCEPT !.op = "request", !.key = None, !.principal = Person, !.actor = None, !.team = None],
    [Ask EXCEPT !.op = "deliver", !.path = deliveries, !.principal = Robot, !.actor = bot, !.team = None],
    [Ask EXCEPT !.op = "sync", !.principal = Robot, !.actor = None, !.key = None,
                !.members = <<<<bob, Observer>>, <<bot, Admin>>>>, !.replace = TRUE],
    [Ask EXCEPT !.op = "view", !.key = None, !.token = FALSE]}

MCBefore == [t \in Tenants |-> [a \in Actors |-> IF t = acme /\ a = ann THEN Admin ELSE None]]

Command == [Ask EXCEPT !.client = None, !.key = None]

MCTasks == {
    [Command EXCEPT !.op = "register", !.members = <<<<ann, Admin>>>>, !.policy = 2],
    [Command EXCEPT !.op = "register", !.tenant = beta, !.members = <<<<bob, Admin>>>>],
    [Command EXCEPT !.op = "status", !.status = "suspended"],
    [Command EXCEPT !.op = "status"],
    [Command EXCEPT !.op = "policy", !.policy = 1],
    [Command EXCEPT !.op = "add", !.members = <<<<bob, Admin>>>>],
    [Command EXCEPT !.op = "sync", !.members = <<<<bob, Admin>>>>, !.replace = TRUE]}

CommandSymmetry == Permutations({c1, c2})
=============================================================================
