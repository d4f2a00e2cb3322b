SPECIFICATION DealLocksSpec
CONSTANTS
    u1 = u1
    u2 = u2
    u3 = u3
    d1 = d1
    d2 = d2
    o1 = o1
    o2 = o2
    NoUser = NoUser
    NoUtr = NoUtr
    NoOperator = NoOperator
    Users <- ThreeUsers
    Operators <- MCOperators
    Deals <- TwoDeals
    DealAmount <- TwoAmounts
    Fee <- NoFee
    Verdicts <- MayHoldJoin
    Amounts = {1}
    MaxFunding = 2
    MaxDeposit = 0
    Scopes = {"SETTLEMENT"}
    Utrs = {"r1", "r2"}
    MaxProposals = 1
    Exposed = {}
    t1 = t1
    t2 = t2
    v1 = v1
    v2 = v2
    Transactions = {t1, t2}
    Trades = {d1, d2}
    Supplier <- MCSupplier
    Payee <- MCPayee
    Ranks <- MCRanks
    Charged = {d1}
    NotBegun = NotBegun
SYMMETRY DealLocksSymmetry
INVARIANTS
    DealLocksTypeOK
    JoinIsWhole
    DisputeIsResolvable
    PaidOnlyOnAgreementOrRuling
    CirclesAreKnown
PROPERTIES
    FrozenMeansFrozen
CHECK_DEADLOCK FALSE
