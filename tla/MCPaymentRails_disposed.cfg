SPECIFICATION RailsSpec
CONSTANTS
    u1 = u1
    u2 = u2
    d1 = d1
    i1 = i1
    i2 = i2
    i3 = i3
    h1 = h1
    h2 = h2
    NoUser = NoUser
    NoRef = NoRef
    NoEvent = NoEvent
    Users <- TwoUsers
    Deals <- MCDeals
    Fee <- MCFee
    Amounts = {1}
    MaxFunding = 1
    MaxDeposit = 2
    Scopes = {}
    Verdicts <- MayOnlyAllow
    Intents <- MCIntents
    Terms <- MCTerms
    Refs <- MCRefs
    MaxDeliveries = 3
SYMMETRY RailSymmetry
INVARIANT SettledMeansDisposed
CHECK_DEADLOCK FALSE
