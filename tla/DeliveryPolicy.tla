--------------------------- MODULE DeliveryPolicy ---------------------------
(***************************************************************************)
(* What decides, before anything is touched, whether a work may be         *)
(* delivered: the records a delivery links, the approval policy            *)
(* (approval_policy.py) and the delivery governance policy                 *)
(* (delivery_governance.py).  A work is a run, an execution of a proposal  *)
(* of it and a verification; all three are finished, so that a work is a   *)
(* constant.                                                               *)
(***************************************************************************)
EXTENDS Integers, FiniteSets, Sequences, SequencesExt, FiniteSetsExt

CONSTANTS
    Works,             \* works, and records that do not belong together
    Paths,             \* the files of the repository
    AbsoluteReceipts,  \* whether receipts name a file by its absolute path
    None

CONSTANTS              \* per work, what its three records say
    Linked,            \* _validate_linked_records finds nothing wrong
    Receipts,          \* the file of each operation that changed one, in order
    Labels,            \* the labels of its issue
    Commands,          \* the commands of its plan
    Decisions,         \* and their assessments
    Attempts,          \* how many commands its verification ran
    Skipped,           \* whether it skipped one
    Providers,         \* planner and patcher, with their models
    RolloutStage       \* the rollout stage it is delivered at, or None

CONSTANTS              \* the layers of both policies
    BuiltIn, FileDefault, TenantDefault, FileRepo, TenantRepo

ASSUME WorkAssumption ==
    /\ AbsoluteReceipts \in BOOLEAN
    /\ IsFiniteSet(Works)
    /\ Linked \in [Works -> BOOLEAN] /\ Receipts \in [Works -> Seq(Paths)]
    /\ Attempts \in [Works -> Nat] /\ Skipped \in [Works -> BOOLEAN]
    /\ \A w \in Works : Decisions[w] \subseteq {"allow", "review", "block"}

-----------------------------------------------------------------------------
(* _merge_dicts, _load_policy and _repo_policy: a layer replaces the keys  *)
(* it has, and of the approvals required the risks it has.  The entry of a *)
(* repository, the tenant's or the file's, goes over both defaults.        *)

Replaced(layer, base) ==
    [k \in DOMAIN layer \cup DOMAIN base |->
        IF k \in DOMAIN layer THEN layer[k] ELSE base[k]]

Over(layer, base) ==
    LET by == "required_approvals_by_risk" IN
    IF by \in DOMAIN layer \cap DOMAIN base
    THEN [Replaced(layer, base) EXCEPT ![by] = Replaced(layer[by], base[by])]
    ELSE Replaced(layer, base)

Policy == Over(TenantRepo, Over(FileRepo, Over(TenantDefault, Over(FileDefault, BuiltIn))))

(* The files that the execution of a work changed, some more than once.    *)
Changed == [w \in Works |-> ToSet(Receipts[w])]

(* A pattern says which files it matches by their relative path and which  *)
(* by their absolute one: a directory or a full path matches the latter    *)
(* nowhere, a glob or (approvals only) a base name may.                    *)
Matching(patterns, w) ==
    {p \in Changed[w] : \E pattern \in patterns :
        p \in IF AbsoluteReceipts THEN pattern.absolute ELSE pattern.relative}

-----------------------------------------------------------------------------
(* ApprovalPolicyEvaluator.evaluate_delivery, which counts the receipts: a *)
(* file that several operations changed counts as often.                   *)

LOW == 0
MEDIUM == 1
HIGH == 2
CRITICAL == 3

Critical(w) ==
    \/ Labels[w] \cap Policy.critical_risk_labels # {}
    \/ Matching(Policy.critical_risk_paths, w) # {}

High(w) ==
    \/ Labels[w] \cap Policy.high_risk_labels # {}
    \/ Matching(Policy.high_risk_paths, w) # {}
    \/ Len(Receipts[w]) > Policy.max_medium_risk_changed_files
    \/ "block" \in Decisions[w]

Medium(w) ==
    \/ Len(Receipts[w]) > Policy.max_low_risk_changed_files
    \/ "review" \in Decisions[w]
    \/ Attempts[w] > 1
    \/ Skipped[w]

(* Slip: a medium finding is not raised any further.                       *)
RiskLevelOfLast(w) ==
    IF Medium(w) THEN MEDIUM ELSE IF Critical(w) THEN CRITICAL
    ELSE IF High(w) THEN HIGH ELSE LOW

(* The highest risk that anything found about the work raises.             *)
RiskLevel(w) ==
    LET Raised(r) == CASE r = LOW -> TRUE        [] r = MEDIUM -> Medium(w)
                       [] r = HIGH -> High(w)    [] r = CRITICAL -> Critical(w)
    IN  Max({r \in LOW..CRITICAL : Raised(r)})

RequiredApprovals(w) == Policy.required_approvals_by_risk[RiskLevel(w)]

ApprovalBlocks(w) == Labels[w] \cap Policy.blocked_labels # {}

ApprovalRequired(w) == RequiredApprovals(w) > 0 /\ ~ApprovalBlocks(w)

-----------------------------------------------------------------------------
(* DeliveryGovernancePolicyEvaluator.evaluate_delivery: the reasons found  *)
(* against a delivery to a base branch that is protected or not.           *)

Disallowed(allowed, value) == allowed # {} /\ value # None /\ value \notin allowed

GovernanceBlocks(w, protected) ==
    \/ ~Policy.repo_allowed
    \/ Matching(Policy.blocked_paths, w) # {}
    \/ Matching(Policy.rollout_stage_paths, w) # {} /\ RolloutStage[w] = None
    \/ Disallowed(Policy.allowed_rollout_stages, RolloutStage[w])
    \/ Matching(Policy.production_paths, w) # {} /\ RolloutStage[w] # "production"
    \/ Disallowed(Policy.allowed_planners, Providers[w].planner)
    \/ Disallowed(Policy.allowed_patchers, Providers[w].patcher)
    \/ Commands[w] \cap Policy.blocked_commands # {}
    \/ Decisions[w] \cap Policy.blocked_command_decisions # {}
    \/ Policy.require_base_branch_protection /\ ~protected

=============================================================================
