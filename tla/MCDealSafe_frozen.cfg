SPECIFICATION DealSpec
CONSTANTS
    u1 = u1
    u2 = u2
    u3 = u3
    d1 = d1
    d2 = d2
    o1 = o1
    o2 = o2
    NoUser = NoUser
    NoUtr = NoUtr
    NoOperator = NoOperator
    Users <- MCUsers
    Operators <- MCOperators
    Deals <- OneDeal
    DealAmount <- OneAmount
    Fee <- OneFee
    Verdicts <- MayHoldJoin
    Amounts = {2}
    MaxFunding = 2
    MaxDeposit = 0
    Scopes = {"SETTLEMENT"}
    Utrs = {"r1"}
    MaxProposals = 1
    Exposed = {"VALUE_RELEASE", "VALUE_REFUND"}
PROPERTIES
    FrozenMeansFrozen
CHECK_DEADLOCK FALSE
