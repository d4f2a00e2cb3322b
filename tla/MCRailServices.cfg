SPECIFICATION RailServicesSpec
CONSTANTS
    u1 = u1
    u2 = u2
    d1 = d1
    i1 = i1
    i2 = i2
    i3 = i3
    h1 = h1
    h2 = h2
    p1 = p1
    p2 = p2
    p3 = p3
    c1 = c1
    c2 = c2
    NoUser = NoUser
    NoRef = NoRef
    NoEvent = NoEvent
    Users <- OneUser
    Deals <- MCDeals
    Fee <- MCFee
    Amounts = {1}
    MaxFunding = 1
    MaxDeposit = 2
    Scopes = {}
    Verdicts <- MayOnlyAllow
    Intents <- MCIntents
    Terms <- MCTerms
    Refs <- MCRefs
    MaxDeliveries = 3
    Requests = {p1, p2, p3}
    RailWorkers = {h1, h2}
    MaxAttempts = 2
    BatchLimit = 2
    People = {p1, p2, p3}
    ReferralDeals = {d1}
    Claims = {h1, h2}
    Depth = 3
    None = None
    SessionRows = {p1, p2, p3}
    Credentials = {c1, c2}
    Visits = {h1, h2}
    MaxFactor = 2
    MaxVersions = 2
    Absent = Absent
    VerificationCases = {p1, p2, p3}
    Members = {h1, h2}
    NoMember = NoMember
    Messages = {p1, p2, p3}
    Readers = {i1}
    PageSize = 1
    MaxSeq = 4
SYMMETRY RailServicesSymmetry
INVARIANTS
    RailServicesTypeOK
    DepositsAreConfirmed
    PostedIsConfirmed
    OneMovementOnePayment
    RailOutcomeIsTrue
    ReferralsAreReal
    NobodyOutlivesAChange
    AnsweredTheFactorInForce
    OneSessionPerCredential
    BadgeFollowsApproval
    PagesAreWhole
PROPERTIES
    OutcomeIsFinal
    RailsKeepLedger
CHECK_DEADLOCK FALSE
