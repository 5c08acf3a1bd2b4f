------------------------------- MODULE Access -------------------------------
(***************************************************************************)
(* Requests to the control plane and commands of administrators: how the   *)
(* API admits, answers, replays and records requests                       *)
(* (interfaces/http/app.py), how tenants, their policies and their members *)
(* are changed (manage_tenant.py, sync_identity.py), and how both decide   *)
(* by the same tables who may do what (tenant_access.py).                  *)
(*                                                                         *)
(* The API serves one request at a time (wsgiref's server in server.py);   *)
(* commands run in processes of their own.  Each transaction on the tables *)
(* is a step.  What the handlers do to runs, approvals and jobs is that of *)
(* JobQueue, Approval and Delivery: here it is work that was done or not.  *)
(***************************************************************************)
EXTENDS TenantAccess, TLC

CONSTANTS
    Api, Commands,      \* the processes
    Requests, Tasks,    \* what clients may send, and administrators run
    Paths, Keys, Bodies, Clients,
    Limit, Window,      \* requests of a client within so many ticks
    Registered, Before, \* tenants and members that there were at the start
    MaxCalls, MaxDeaths \* bounds on the requests and commands, and on deaths

ASSUME AccessAssumption ==
    /\ Registered \in SUBSET Tenants
    /\ IsFiniteSet(Tenants)
    /\ Before \in [Tenants -> [Actors -> {None} \cup Member]]
    /\ Api \notin Commands /\ None \notin Keys \cup Bodies
    /\ MaxCalls \in Nat /\ MaxDeaths \in Nat
    /\ Limit \in Nat \ {0} /\ Window \in Nat \ {0}

VARIABLES
    tenants, members,   \* the tables
    recent,             \* the tenants, latest update first
    stored,             \* the file of each path and key
    admitted,           \* by client, the ages of its requests in the window; in memory
    procs,
    log,                \* the requests that are over, for the properties
    calls, deaths       \* so far

tables == <<tenants, members, recent>>
vars == <<tables, stored, admitted, procs, log, calls, deaths>>

-----------------------------------------------------------------------------
Processes == {Api} \cup Commands
OrNone(S) == S \cup {None}

PermissionFor(op) ==
    CASE op = "request" -> "request_approval" [] op = "review" -> "review_approval"
      [] op = "deliver" -> "deliver"          [] op = "enqueue" -> "operate_queue"
      [] op = "view" -> "view_dashboard"      [] op \in {"sync", "add"} -> "manage_membership"
      [] op = "policy" -> "manage_policy"     [] op = "status" -> "manage_tenant"

OnRepo == {"request", "review", "deliver", "enqueue"}
OnTenant == {"view", "sync", "add", "policy", "status", "register"}

(* What a request or a command says.  Lists of members are never empty.    *)
Ops == OnRepo \cup OnTenant \cup {"open"}
Calls == [op : Ops, path : Paths, hook : BOOLEAN, token : BOOLEAN,
          principal : OrNone(Principal), actor : OrNone(Actors), team : OrNone(Teams),
          repo : Repos, tenant : Tenants, key : OrNone(Keys), body : Bodies,
          client : OrNone(Clients), members : Seq(Actors \X Member), replace : BOOLEAN,
          policy : Nat, status : Statuses]

ASSUME CallsAssumption ==
    /\ Requests \cup Tasks \subseteq Calls
    /\ \A call \in Requests : call.client \in Clients
    /\ \A call \in Requests \cup Tasks :
         call.op \in {"sync", "add", "register"} => call.members # <<>>

Slots == Paths \X Keys
Saved == [body : Bodies, status : {200}, id : 1..MaxCalls]
Torn == [body |-> None, status |-> 400, id |-> 0]
Answers == {200, 400, 403, 409, 429, 500}   \* None when there was none
Entry == [slot : OrNone(Slots), body : Bodies, did : BOOLEAN, status : OrNone(Answers),
          id : 0..MaxCalls]

Phases == {"idle", "start", "resolve", "check", "act", "enroll", "prune", "notify", "end"}
IdleProc == [phase |-> "idle", call |-> None, tenant |-> None, seen |-> None, todo |-> <<>>,
             did |-> FALSE, alone |-> TRUE]

Proc == [phase : Phases, call : OrNone(Requests \cup Tasks), tenant : OrNone(Tenants),
         seen : OrNone(Tenant), todo : Seq(Actors \X Member), did : BOOLEAN,
         alone : BOOLEAN]   \* no other has written to the tables meanwhile

ASSUME NoneAssumption ==
    None \notin Slots \cup Saved \cup {Torn} \cup Answers \cup Tenant \cup Member \cup Calls

TypeOK ==
    /\ tenants \in [Tenants -> OrNone(Tenant)]
    /\ members \in [Tenants -> [Actors -> OrNone(Member)]]
    /\ recent \in Seq(Tenants) /\ IsInjective(recent)
    /\ ToSet(recent) = {t \in Tenants : tenants[t] # None}
    /\ stored \in [Slots -> {None, Torn} \cup Saved]
    /\ admitted \in [Clients -> Seq(0..(Window - 1))]
    /\ \A c \in Clients : Len(admitted[c]) <= Limit
    /\ procs \in [Processes -> Proc]
    /\ log \in Seq(Entry) /\ Len(log) <= MaxCalls
    /\ calls \in 0..MaxCalls /\ deaths \in 0..MaxDeaths

Init ==
    /\ tenants = [t \in Tenants |->
          IF t \in Registered THEN [status |-> "active", policy |-> 0] ELSE None]
    /\ members = Before
    /\ recent = SetToSeq(Registered)
    /\ stored = [s \in Slots |-> None]
    /\ admitted = [c \in Clients |-> <<>>]
    /\ procs = [p \in Processes |-> IdleProc]
    /\ log = <<>> /\ calls = 0 /\ deaths = 0

At(p, phase) == procs[p].phase = phase
Call(p) == procs[p].call
Goes(p, phase) == procs' = [procs EXCEPT ![p].phase = phase]

SlotOf(call) == IF call.key = None THEN None ELSE <<call.path, call.key>>

(* The request of the API is over: answered, or never to be.               *)
Logged(call, did, status, id) ==
    log' = Append(log, [slot |-> SlotOf(call), body |-> call.body, did |-> did,
                        status |-> status, id |-> id])

(* A process is done: the API with an answer, a command with its printout. *)
Leave(p, status, id) ==
    /\ procs' = [procs EXCEPT ![p] = IdleProc]
    /\ IF p = Api THEN Logged(Call(p), procs[p].did, status, id) ELSE UNCHANGED log

(* It writes to the tables and goes on; others that are underway have been *)
(* disturbed.                                                              *)
Writes(p, proc) ==
    procs' = [q \in Processes |-> IF q = p THEN proc ELSE
        [procs[q] EXCEPT !.alone = At(q, "idle")]]

-----------------------------------------------------------------------------
(* A request arrives.                                                      *)

(* A webhook's token is its signature, which its handler looks at.         *)
Authentic(call) == call.hook \/ call.token

(* Slip: one request too many.                                             *)
AtLimitOfMore(client) == Len(admitted[client]) > Limit

AtLimit(client) == Len(admitted[client]) >= Limit

Refuse(call, status) ==
    Logged(call, FALSE, status, 0) /\ UNCHANGED procs

Fresh(call) ==
    /\ procs' = [procs EXCEPT ![Api] = [IdleProc EXCEPT !.phase = "start", !.call = call]]
    /\ UNCHANGED log

Stored(call) == IF SlotOf(call) = None THEN None ELSE stored[SlotOf(call)]

Repeat(call) ==
    Logged(call, FALSE, Stored(call).status, Stored(call).id) /\ UNCHANGED procs

(* Slip: another body under the same key is answered with what is stored.  *)
ReplayAnyBody(call) ==
    IF Stored(call) = None THEN Fresh(call) ELSE Repeat(call)

(* Slip: another body under the same key is another request.               *)
ReplaySameBody(call) ==
    IF Stored(call) # None /\ Stored(call).body = call.body THEN Repeat(call) ELSE Fresh(call)

(* What is stored under the request's key answers it, if its body is the   *)
(* same and the file can be read.                                          *)
Replay(call) ==
    \/ Stored(call) = None /\ Fresh(call)
    \/ Stored(call) = Torn /\ Refuse(call, 400)
    \/ /\ Stored(call) \notin {None, Torn}
       /\ IF Stored(call).body = call.body THEN Repeat(call) ELSE Refuse(call, 409)

Receive(call) ==
    LET c == call.client IN
    /\ At(Api, "idle") /\ calls < MaxCalls
    /\ calls' = calls + 1
    /\ \/ ~Authentic(call) /\ Refuse(call, 403) /\ UNCHANGED admitted
       \/ Authentic(call) /\ AtLimit(c) /\ Refuse(call, 429) /\ UNCHANGED admitted
       \/ /\ Authentic(call) /\ ~AtLimit(c)
          /\ admitted' = [admitted EXCEPT ![c] = Append(@, 0)]
          /\ Replay(call)
    /\ UNCHANGED <<tables, stored, deaths>>

(* Time passes, and requests leave the window: the limiter drops them when *)
(* it next looks.                                                          *)
Aged(ages) ==
    LET first == SelectInSeq(ages, LAMBDA age : age + 1 < Window)
    IN  IF first = 0 THEN <<>>
        ELSE [i \in 1..(Len(ages) - first + 1) |-> ages[first + i - 1] + 1]

Tick ==
    /\ admitted' = [c \in Clients |-> Aged(admitted[c])]
    /\ UNCHANGED <<tables, stored, procs, log, calls, deaths>>

(* An administrator starts a command.                                      *)
Run(p, task) ==
    /\ At(p, "idle") /\ p \in Commands /\ calls < MaxCalls
    /\ calls' = calls + 1
    /\ procs' = [procs EXCEPT ![p] = [IdleProc EXCEPT !.phase = "start", !.call = task]]
    /\ UNCHANGED <<tables, stored, admitted, log, deaths>>

-----------------------------------------------------------------------------
(* Who asks, and for which tenant.                                         *)

(* Signatures of webhooks and the names in the request.                    *)
WellFormed(call) ==
    /\ call.token
    /\ call.op \in OnRepo => Consistent(call)
    /\ call.op # "open" => ActorOf(call) # None
    /\ call.op \in OnRepo \ {"deliver"} => TeamOf(call) # None
    /\ call.op = "sync" /\ call.client # None => call.principal # None

Start(p) ==
    /\ At(p, "start")
    /\ \/ WellFormed(Call(p)) /\ UNCHANGED log
            /\ Goes(p, IF Call(p).op \in {"open", "register"} THEN "act" ELSE "resolve")
       \/ /\ ~WellFormed(Call(p))
          /\ \E status \in {400, 403} : Leave(p, status, 0)
    /\ UNCHANGED <<tables, stored, admitted, calls, deaths>>

(* Slip: suspended tenants are served.                                     *)
EnsuredOfAny(row) == row # None

Ensured(row) == row # None /\ row.status = "active"

(* The tenant's row is read.  A repository of no tenant is open to all.    *)
Resolve(p) ==
    LET call == Call(p)
        owner == IF call.op \in OnRepo THEN OwnerOf(call.repo, recent) ELSE call.tenant
        row == IF owner = None THEN None ELSE tenants[owner]
    IN
    /\ At(p, "resolve")
    /\ \/ /\ owner = None /\ Goes(p, "act") /\ UNCHANGED log
       \/ /\ owner # None /\ Ensured(row) /\ UNCHANGED log
          /\ procs' = [procs EXCEPT ![p].phase = "check", ![p].tenant = owner, ![p].seen = row]
       \/ /\ owner # None /\ ~Ensured(row)
          /\ Leave(p, IF row = None THEN 400 ELSE 403, 0)
    /\ UNCHANGED <<tables, stored, admitted, calls, deaths>>

(* By the queue's routes and by commands a caller is judged by name, even  *)
(* with a principal; the team that a principal is held to is the one that  *)
(* the request names, or for work on a repository its own.                 *)
Permitted(call, tenant, member) ==
    LET team == IF call.op \in OnRepo THEN TeamOf(call) ELSE call.team IN
    IF call.principal = None \/ call.op = "enqueue"
    THEN MemberMay(member, team, PermissionFor(call.op))
    ELSE PrincipalMay(call.principal, member, team, tenant, PermissionFor(call.op))

NextOf(op) == CASE op = "view" -> "end" [] op = "sync" -> "enroll" [] OTHER -> "act"

Check(p) ==
    LET call == Call(p)
        t == procs[p].tenant
    IN
    /\ At(p, "check")
    /\ \/ /\ Permitted(call, t, members[t][ActorOf(call)]) /\ UNCHANGED log
          /\ procs' = [procs EXCEPT ![p].phase = NextOf(call.op), ![p].todo = call.members]
       \/ ~Permitted(call, t, members[t][ActorOf(call)]) /\ Leave(p, 403, 0)
    /\ UNCHANGED <<tables, stored, admitted, calls, deaths>>

-----------------------------------------------------------------------------
(* The work, of which the tenant is told when there is one.                *)

Did(p, phase) ==
    /\ procs' = [procs EXCEPT ![p].did = TRUE, ![p].phase = phase]
    /\ UNCHANGED <<tables, stored, admitted, log, calls, deaths>>

Then(p) == IF procs[p].tenant = None THEN "end" ELSE "notify"

(* Planning, patching, verification, sandboxes: no permission is asked for. *)
Serve(p) == At(p, "act") /\ Call(p).op = "open" /\ Did(p, "end")

EnqueueJob(p) == At(p, "act") /\ Call(p).op = "enqueue" /\ Did(p, "end")

RequestApproval(p) == At(p, "act") /\ Call(p).op = "request" /\ Did(p, Then(p))

ReviewApproval(p) == At(p, "act") /\ Call(p).op = "review" /\ Did(p, Then(p))

(* At the API a delivery ends in an error before its tenant is told: the   *)
(* handler compares the outcome with a name that app.py does not import.   *)
Deliver(p) ==
    At(p, "act") /\ Call(p).op = "deliver" /\ Did(p, IF p = Api THEN "end" ELSE Then(p))

(* The tenant is told of it.                                               *)
Notify(p) ==
    /\ At(p, "notify")
    /\ Goes(p, "end")
    /\ UNCHANGED <<tables, stored, admitted, log, calls, deaths>>

FirstOf(t) == <<t>> \o RemoveFirst(recent, t)

(* The row of a tenant is replaced, by what was read of it and the change. *)
SaveTenant(p, t, row, proc) ==
    /\ tenants' = [tenants EXCEPT ![t] = row] /\ recent' = FirstOf(t)
    /\ Writes(p, proc)

(* A registration overwrites the tenant that has the same id, if any.      *)
Register(p) ==
    LET call == Call(p) IN
    /\ At(p, "act") /\ call.op = "register"
    /\ SaveTenant(p, call.tenant, [status |-> "active", policy |-> call.policy],
         [procs[p] EXCEPT !.phase = "enroll", !.tenant = call.tenant, !.todo = call.members])
    /\ UNCHANGED <<members, stored, admitted, log, calls, deaths>>

SetPolicy(p) ==
    /\ At(p, "act") /\ Call(p).op = "policy"
    /\ SaveTenant(p, procs[p].tenant, [procs[p].seen EXCEPT !.policy = Call(p).policy],
         [procs[p] EXCEPT !.phase = "end"])
    /\ UNCHANGED <<members, stored, admitted, log, calls, deaths>>

SetStatus(p) ==
    /\ At(p, "act") /\ Call(p).op = "status"
    /\ SaveTenant(p, procs[p].tenant, [procs[p].seen EXCEPT !.status = Call(p).status],
         [procs[p] EXCEPT !.phase = "end"])
    /\ UNCHANGED <<members, stored, admitted, log, calls, deaths>>

AddMember(p) ==
    /\ At(p, "act") /\ Call(p).op = "add"
    /\ Goes(p, "enroll")
    /\ UNCHANGED <<tables, stored, admitted, log, calls, deaths>>

(* Members are inserted or replaced one by one.                            *)
Enroll(p) ==
    LET proc == procs[p]
        entry == Head(proc.todo)
    IN
    /\ At(p, "enroll")
    /\ members' = [members EXCEPT ![proc.tenant][entry[1]] = entry[2]]
    /\ Writes(p, [proc EXCEPT !.todo = Tail(@), !.phase =
         IF Tail(proc.todo) # <<>> THEN "enroll" ELSE IF proc.call.replace THEN "prune" ELSE "end"])
    /\ UNCHANGED <<tenants, recent, stored, admitted, log, calls, deaths>>

Wanted(call) == {call.members[i][1] : i \in DOMAIN call.members}

(* Slip: the caller stays a member.                                        *)
KeptButCaller(call) == Wanted(call) \cup {ActorOf(call)}

Kept(call) == Wanted(call)

(* The members that are not on the list are removed.                       *)
Prune(p) ==
    LET proc == procs[p] IN
    /\ At(p, "prune")
    /\ members' = [members EXCEPT ![proc.tenant] =
         [a \in Actors |-> IF a \in Kept(proc.call) THEN @[a] ELSE None]]
    /\ Writes(p, [proc EXCEPT !.phase = "end"])
    /\ UNCHANGED <<tenants, recent, stored, admitted, log, calls, deaths>>

-----------------------------------------------------------------------------
(* The end of a request: its answer is stored under its key, then sent.    *)

Answerable(call) == call.op # "deliver"
Storing(p) == p = Api /\ Answerable(Call(p)) /\ SlotOf(Call(p)) # None

Finish(p) ==
    LET id == IF p = Api THEN Len(log) + 1 ELSE 0 IN
    /\ At(p, "end")
    /\ stored' = IF Storing(p)
         THEN [stored EXCEPT ![SlotOf(Call(p))] = [body |-> Call(p).body, status |-> 200, id |-> id]]
         ELSE stored
    /\ \/ Answerable(Call(p)) /\ Leave(p, 200, id)
       \/ Leave(p, 500, 0)   \* or the trace of the request was not recorded
    /\ UNCHANGED <<tables, admitted, calls, deaths>>

(* The file of an answer is written in place: a write that is cut short    *)
(* leaves a torn one.                                                      *)
MayTear(p) ==
    \/ UNCHANGED stored
    \/ /\ At(p, "end") /\ Storing(p)
       /\ stored' = [stored EXCEPT ![SlotOf(Call(p))] = Torn]

(* An exception on the way: from a handler that refuses, from storage, in  *)
(* the notification of work that was done, in the write of the answer.     *)
Raise(p) ==
    /\ ~At(p, "idle")
    /\ \E status \in {400, 500} : Leave(p, status, 0)
    /\ MayTear(p)
    /\ UNCHANGED <<tables, admitted, calls, deaths>>

(* A process dies, the API perhaps while it writes the file of an answer;  *)
(* it is started again with an empty memory.                               *)
Die(p) ==
    /\ ~At(p, "idle") /\ deaths < MaxDeaths
    /\ deaths' = deaths + 1
    /\ Leave(p, None, 0)
    /\ MayTear(p)
    /\ admitted' = IF p = Api THEN [c \in Clients |-> <<>>] ELSE admitted
    /\ UNCHANGED <<tables, calls>>

-----------------------------------------------------------------------------
Step(p) ==
    \/ Start(p) \/ Resolve(p) \/ Check(p) \/ Serve(p) \/ EnqueueJob(p) \/ RequestApproval(p)
    \/ ReviewApproval(p) \/ Deliver(p) \/ Notify(p) \/ Register(p)
    \/ SetPolicy(p) \/ SetStatus(p) \/ AddMember(p) \/ Enroll(p) \/ Prune(p) \/ Finish(p)

Next ==
    \/ \E call \in Requests : Receive(call)
    \/ \E p \in Commands, task \in Tasks : Run(p, task)
    \/ \E p \in Processes : Step(p) \/ Raise(p) \/ Die(p)
    \/ Tick

Spec == Init /\ [][Next]_vars

-----------------------------------------------------------------------------
(* Properties.                                                             *)

Answered(entry) == entry.status = 200
Keyed(i, j) == i < j /\ log[i].slot # None /\ log[i].slot = log[j].slot

(* Work that was answered with a success is not done again under its key,  *)
(* through restarts, torn files, errors and conflicts; after an error it   *)
(* may be, and after every delivery.                                       *)
RepeatedOnlyAfterError ==
    \A i, j \in DOMAIN log : Keyed(i, j) /\ Answered(log[i]) => ~log[j].did

(* All successes under a key are one answer, to one request.               *)
ReplaysAgree ==
    \A i, j \in DOMAIN log : Keyed(i, j) /\ Answered(log[i]) /\ Answered(log[j]) =>
        log[i].id = log[j].id /\ log[i].body = log[j].body

(* Work on a repository of a tenant is done while the tenant that owns it  *)
(* is active and has the caller as a member with the permission or he is a *)
(* service with the scope, unless someone changed the tables since he      *)
(* asked.                                                                  *)
WorkPermitted ==
    \A p \in Processes :
        procs[p].did /\ procs[p].alone /\ Call(p).op \in OnRepo =>
            LET call == Call(p)
                owner == OwnerOf(call.repo, recent)
            IN  owner # None =>
                  /\ tenants[owner].status = "active"
                  /\ \/ call.principal # None /\ call.principal.service
                          /\ Scoped(call.principal, owner, PermissionFor(call.op))
                     \/ /\ members[owner][ActorOf(call)] # None
                        /\ PermissionFor(call.op) \in Allowed(members[owner][ActorOf(call)].role)

(* When a synchronisation ends that no other writer came across, those it  *)
(* lists are members as listed, and with replacement no one else is.       *)
SyncedExactly ==
    \A p \in Processes :
        At(p, "end") /\ Call(p).op = "sync" /\ procs[p].alone =>
            LET call == Call(p)
                t == procs[p].tenant
            IN  /\ \A a \in Wanted(call) : \E i \in DOMAIN call.members :
                      call.members[i][1] = a /\ members[t][a] = call.members[i][2]
                /\ call.replace => \A a \in Actors : members[t][a] # None => a \in Wanted(call)

(* A suspended tenant is active again only by a new registration, or by a  *)
(* change that was underway when it was suspended and writes back what it  *)
(* had read.                                                               *)
SuspensionHolds ==
    [][\A t \in Tenants :
         tenants[t] # None /\ tenants[t].status = "suspended" /\ tenants'[t].status = "active" =>
           \E p \in Processes : /\ At(p, "act")
              /\ \/ Call(p).op = "register" /\ Call(p).tenant = t
                 \/ procs[p].tenant = t /\ ~procs[p].alone]_vars
=============================================================================
