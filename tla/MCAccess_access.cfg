SPECIFICATION Spec
CONSTANTS
    acme = acme  beta = beta  app = app  lib = lib
    ann = ann  bob = bob  bot = bot  core = core
    jobs = jobs  reviews = reviews  deliveries = deliveries
    k = k  b1 = b1  b2 = b2  web = web
    None = None  c1 = c1  c2 = c2
    Tenants = {acme, beta}
    Repos = {app, lib}
    Actors = {ann, bob, bot}
    Teams = {core}
    Owns <- MCOwns
    Api = api
    Commands = {c1, c2}
    Requests <- MCRequests
    Tasks <- MCTasks
    Paths = {jobs, reviews, deliveries}
    Keys = {k}
    Bodies = {b1, b2}
    Clients = {web}
    Limit = 2
    Window = 1
    Registered = {acme}
    Before <- MCBefore
    MaxCalls = 3
    MaxDeaths = 1
SYMMETRY CommandSymmetry
INVARIANTS
    TypeOK RepeatedOnlyAfterError ReplaysAgree WorkPermitted SyncedExactly
PROPERTIES
    SuspensionHolds
CHECK_DEADLOCK FALSE
