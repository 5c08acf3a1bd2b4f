SPECIFICATION Spec
CONSTANTS
    plain = plain  risky = risky  rival = rival
    app = app  deploy = deploy  fresh = fresh  note = note
    main = main  b1 = b1  b2 = b2  b3 = b3  k = k
    None = None  Original = Original
    Works = {plain, risky, rival}
    Paths = {app, deploy, fresh, note}
    AbsoluteReceipts = FALSE
    Linked <- MCLinked
    Receipts <- MCReceipts
    Labels <- MCLabels
    Commands <- MCCommands
    Decisions <- MCDecisions
    Attempts <- MCAttempts
    Skipped <- MCSkipped
    Providers <- MCProviders
    RolloutStage <- MCRolloutStage
    BuiltIn <- MCBuiltIn
    FileDefault <- Nothing
    TenantDefault <- MCTenantDefault
    FileRepo <- Nothing
    TenantRepo <- Nothing
    Deliveries = {d1, d2}
    Branches = {main, b1, b2, b3}
    Base = main
    BranchOf <- MCBranchOf
    KeyOf <- MCKeyOf
    Planned = {plain}
    Visited = {main, b1}
    NewDir = {fresh}
    Artifacts = {note}
INVARIANTS
    TypeOK CommitsReceiptsOnly OneCommitPerWork BaseUntouched RowsTellCommits NoRiskWaved
PROPERTIES
    EveryDeliveryEnds ImplementsHandoff
CHECK_DEADLOCK FALSE
