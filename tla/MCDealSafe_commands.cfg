SPECIFICATION DealSpec
CONSTANTS
    u1 = u1
    u2 = u2
    u3 = u3
    d1 = d1
    d2 = d2
    o1 = o1
    o2 = o2
    NoUser = NoUser
    NoUtr = NoUtr
    NoOperator = NoOperator
    Users <- MCUsers
    Operators <- MCOperators
    Deals <- OneDeal
    DealAmount <- OneAmount
    Fee <- OneFee
    Verdicts <- MayHold
    Amounts = {1, 2}
    MaxFunding = 3
    MaxDeposit = 0
    Scopes = {"SETTLEMENT"}
    Utrs = {"r1"}
    MaxProposals = 2
    Exposed = {"VALUE_LOCK", "VALUE_RELEASE", "VALUE_REFUND", "VALUE_REVERSE", "DISPUTE_CASE_OPEN"}
SYMMETRY People
INVARIANTS
    CaseFreezesDeal
    RulingCarriedOut
    LiveProposalIsCurrent
PROPERTIES
    TerminalIsFinal
CHECK_DEADLOCK FALSE
