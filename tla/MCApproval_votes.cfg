SPECIFICATION Spec
CONSTANTS
    a1 = a1  a2 = a2  bob = bob  minor = minor  major = major
    None = None
    Approvals = {a1, a2}
    Reviews = {r1, r2, r3}
    Deliveries = {d1}
    Actors = {bob, ann, eve}
    Work = {minor, major}
    WorkOf <- MCWorkOf
    Delivers <- MCDelivers
    RequestedBy <- MCRequestedBy
    MayRequest = {a1, a2}
    MayReview <- MCMayReview
    AllowSelfApproval = FALSE
    ExpiresIn <- MCExpiresIn
    Policies <- TwoPolicies
    Overlapping = {a2}
    MaxTime = 1
SYMMETRY ReviewSymmetry
INVARIANTS
    TypeOK OneVoteEach DeliveriesEarned DeliveriesInWindow AnswersKept
PROPERTIES
    SettlesForGood ImplementsSignoff
