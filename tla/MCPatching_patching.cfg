SPECIFICATION Spec
CONSTANTS
    app = app  util = util  case = case  blob = blob
    root = root  src = src  tests = tests
    bug = bug  fix = fix  more = more
    pytest = pytest  unittest = unittest  make = make  rm = rm
    loop = loop  hand = hand
    mend = mend  spread = spread  smash = smash
    Repo = Repo  Absent = Absent  None = None
    Listing <- MCListing
    Briefer <- MCBriefer
    Traits <- MCTraits
    DirOf <- MCDirOf
    TopDir = root
    TestsDir = tests
    NestedTests = {tests}
    PytestMarks = {}
    Pytest = pytest
    Unittest = unittest
    Dangerous = {rm}
    Approved = {pytest, unittest}
    MaxSnapshot = 3
    MaxRanked = 2
    MaxInspect = 2
    MaxTests = 2
    Calls = {loop, hand}
    KindsOf <- MCKindsOf
    Sandboxed = {loop}
    Runs = {r1}
    Drafts <- MCDrafts
    PatchesOf <- MCPatchesOf
    Texts = {bug, fix, more}
    BaseFiles <- MCBaseFiles
    Large = {blob}
    Uncopied = {blob}
    Needs <- MCNeeds
    MaxAttempts = 2
    VerifyMaxAttempts = 2
INVARIANTS
    TypeOK VerifiedAsLeft ReceiptsTellChanges AttemptsAddUp ScopeKept
PROPERTIES
    EveryCallEnds
CHECK_DEADLOCK FALSE
