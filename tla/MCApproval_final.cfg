SPECIFICATION Spec
CONSTANTS
    a1 = a1  a2 = a2  bob = bob  minor = minor  major = major
    None = None
    Approvals = {a2}
    Reviews = {r1, r2}
    Deliveries = {d1}
    Actors = {bob, ann, eve}
    Work = {minor, major}
    WorkOf <- MCWorkOf
    Delivers <- MCDelivers
    RequestedBy <- MCRequestedBy
    MayRequest = {a2}
    MayReview <- MCMayReview
    AllowSelfApproval = FALSE
    ExpiresIn <- MCExpiresIn
    Policies <- OnePolicy
    Overlapping = {a2}
    MaxTime = 1
CHECK_DEADLOCK FALSE
PROPERTIES
    FinalStays
