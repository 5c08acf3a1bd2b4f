---------------------------- MODULE TenantAccess ----------------------------
(***************************************************************************)
(* Who may do what in a tenant: the roles and the decisions of             *)
(* TenantAccessController (application/services/tenant_access.py), and who *)
(* a caller of the API is (interfaces/http/app.py, authentication.py).     *)
(*                                                                         *)
(* A principal is what a signed token says of its bearer; None stands for  *)
(* the shared token, for a webhook and for the command line, where the     *)
(* payload or an argument names the actor.                                 *)
(***************************************************************************)
EXTENDS Integers, FiniteSets, Sequences, SequencesExt, FiniteSetsExt

CONSTANTS Tenants, Repos, Actors, Teams,
          Owns,        \* the repositories that a tenant's patterns match
          None

ASSUME TenantAccessAssumption ==
    Owns \in [Tenants -> SUBSET Repos] /\ None \notin Tenants \cup Repos \cup Actors \cup Teams

Permissions == {"manage_tenant", "manage_policy", "manage_membership", "operate_queue",
                "view_queue", "request_approval", "review_approval", "deliver",
                "view_dashboard", "view_notifications"}
Views == {"view_queue", "view_dashboard", "view_notifications"}
Roles == {"admin", "operator", "reviewer", "observer"}
Statuses == {"active", "suspended"}

(* _ROLE_PERMISSIONS.                                                      *)
Allowed(role) ==
    CASE role = "admin" -> Permissions
      [] role = "operator" -> Views \cup {"operate_queue", "request_approval", "deliver"}
      [] role = "reviewer" -> Views \cup {"review_approval"}
      [] role = "observer" -> Views

Member == [role : Roles, team : Teams]
Tenant == [status : Statuses, policy : Nat]
Principal == [actor : Actors, service : BOOLEAN, teams : Seq(Teams),
              scopes : SUBSET ((Tenants \cup {None}) \X (Permissions \cup {"*"})),
              tenants : SUBSET Tenants]

-----------------------------------------------------------------------------
(* Tenants in the order of their last update decide whose a repository is. *)
OwnerOf(repo, recent) ==
    LET first == SelectInSeq(recent, LAMBDA t : repo \in Owns[t])
    IN  IF first = 0 THEN None ELSE recent[first]

(* Of the names in a request and in its token, the token's prevail; names  *)
(* in the request that do not agree with it are refused.                   *)
ActorOf(call) == IF call.principal = None THEN call.actor ELSE call.principal.actor

TeamOf(call) ==
    IF call.team # None \/ call.principal = None \/ call.principal.teams = <<>>
    THEN call.team ELSE call.principal.teams[1]

Consistent(call) ==
    IF call.principal = None THEN call.actor # None
    ELSE /\ call.actor \in {None, call.principal.actor}
         /\ call.team \in {None} \cup ToSet(call.principal.teams)

-----------------------------------------------------------------------------
(* Memberships, by name.                                                   *)
MemberMay(member, team, permission) ==
    /\ member # None
    /\ team \in {None, member.team}
    /\ permission \in Allowed(member.role)

(* A service needs no membership for what its scopes name, in the tenants  *)
(* that it is bound to.                                                    *)
Scoped(principal, tenant, permission) ==
    principal.scopes \cap {<<None, "*">>, <<None, permission>>, <<tenant, permission>>} # {}

OutOfTenant(principal, tenant) ==
    /\ principal.service /\ principal.scopes # {}
    /\ principal.tenants # {} /\ tenant \notin principal.tenants

PrincipalMay(principal, member, team, tenant, permission) ==
    /\ ~OutOfTenant(principal, tenant)
    /\ \/ principal.service /\ Scoped(principal, tenant, permission)
       \/ /\ MemberMay(member, team, permission)
          /\ principal.teams # <<>> => Contains(principal.teams, member.team)
=============================================================================
