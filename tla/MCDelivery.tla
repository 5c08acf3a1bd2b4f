----------------------------- MODULE MCDelivery -----------------------------
(***************************************************************************)
(* Values for the constants of Delivery, shared by its TLC runs.           *)
(***************************************************************************)
EXTENDS Delivery

CONSTANTS plain, risky, rival,            \* works
          app, deploy, fresh, note,       \* files
          main, b1, b2, b3,               \* branches
          k

(* plain changes a file and adds one; risky, whose label asks for several  *)
(* approvals, changes this file and an artifact; rival changes those, one  *)
(* of them twice, and a deployment file, and its jobs have no concurrency  *)
(* key.                                                                    *)
OfWork(p, r, v) == [w \in Works |-> CASE w = plain -> p [] w = risky -> r [] w = rival -> v]

MCLinked == OfWork(TRUE, TRUE, TRUE)
MCReceipts == OfWork(<<app, fresh>>, <<app, note>>, <<app, deploy, note, app>>)
MCLabels == OfWork({}, {"security-critical"}, {"security-critical"})
MCCommands == OfWork({}, {}, {})
MCDecisions == OfWork({"allow"}, {"allow"}, {"allow", "review"})
MCAttempts == OfWork(1, 1, 2)
MCSkipped == OfWork(FALSE, FALSE, FALSE)
MCProviders == OfWork([planner |-> "openai", patcher |-> None],
                      [planner |-> "heuristic", patcher |-> "openai"],
                      [planner |-> "heuristic", patcher |-> "openai"])
MCRolloutStage == OfWork(None, None, "production")
MCBranchOf == OfWork(b1, b2, b3)
MCKeyOf == OfWork(k, k, None)

Directory(files) == [relative |-> files, absolute |-> {}]
BaseName(files) == [relative |-> files, absolute |-> files]

(* The built-in policies, of which a tenant replaces two entries.          *)
MCBuiltIn == [
    required_approvals_by_risk |->
        [r \in LOW..CRITICAL |-> CASE r = LOW -> 0 [] r = CRITICAL -> 2 [] OTHER -> 1],
    blocked_labels |-> {"wip"}, high_risk_labels |-> {"security"},
    critical_risk_labels |-> {"security-critical"},
    high_risk_paths |-> {BaseName({deploy})}, critical_risk_paths |-> {Directory({deploy})},
    max_low_risk_changed_files |-> 2, max_medium_risk_changed_files |-> 6,
    repo_allowed |-> TRUE, blocked_paths |-> {}, rollout_stage_paths |-> {Directory({deploy})},
    production_paths |-> {Directory({deploy})},
    allowed_rollout_stages |-> {"dev", "staging", "production"},
    allowed_planners |-> {"heuristic", "openai"}, allowed_patchers |-> {},
    blocked_commands |-> {}, blocked_command_decisions |-> {"block"},
    require_base_branch_protection |-> TRUE]
Nothing == [key \in {} |-> 0]
MCTenantDefault == [allowed_patchers |-> {"openai"},
                    required_approvals_by_risk |-> [r \in {CRITICAL} |-> 3]]
=============================================================================
