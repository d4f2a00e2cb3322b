SPECIFICATION ServicesSpec
CONSTANTS
    u1 = u1
    u2 = u2
    d1 = d1
    d2 = d2
    v1 = v1
    v2 = v2
    t1 = t1
    t2 = t2
    i1 = i1
    p1 = p1
    p2 = p2
    p3 = p3
    k1 = k1
    k2 = k2
    h1 = h1
    c1 = c1
    x1 = x1
    x2 = x2
    f1 = f1
    f2 = f2
    NoUser = NoUser
    Users <- MCUsers
    Deals <- MCDeals
    Fee <- MCFee
    Amounts = {1, 2}
    MaxFunding = 3
    MaxDeposit = 2
    Scopes = {"SETTLEMENT"}
    Verdicts <- MCVerdicts
    Tabs = {t1, t2}
    Forms = {t2}
    Callers = {v1, v2}
    TabUser <- MCTabUser
    Ids = {i1}
    Drafts = {x1, x2}
    Slots = {u1, u2}
    Nothing = Nothing
    RewardDeals = {p1, p2, p3}
    Workers = {u1, u2}
    Volumes = {2}
    MaxCount = 1
    PerTxn = 3
    Daily = 4
    Day = 2
    LastTick = 3
    Idle = Idle
    Schedules = {p1, p2, p3, c1}
    Operators = {v1, v2}
    Approvals = {u1, u2}
    Opening = p1
    Enabled = {p1, p2, p3, c1}
    NoOne = NoOne
    Pauses = {k1, k2}
    Holds = {h1}
    Cases = {c1}
    Staff = {u1, u2}
    MaxApprovals = 2
    MaxVersion = 2
    Nobody = Nobody
    Objects = {p1}
    Files = {x1, x2, c1}
    Clean = {x1}
    Unfit = {c1}
    Viewers = {v1, v2}
    Jobs = {u1, u2}
    Tokens = {k1, k2}
    Blank = Blank
    Customers = {v1, v2}
    Rewards = {h1}
    OwnerOf <- MCOwnerOf
    Benefit <- MCBenefit
    Tariffs <- MCTariffs
    Sums = {19}
    PremiumRates = {7}
    ReferralRate = 1
    Den = 10
    Quotings = {u1, u2}
    Quotes = {f1, f2}
    Naught = Naught
    Challenges = {t1, t2}
    Presentations = {k1, k2}
    RequestLimit = 1
    VerifyLimit = 1
    WindowTicks = 2
    MaxTick = 4
SYMMETRY ServicesSymmetry
INVARIANTS
    ServicesTypeOK
    EscrowBacksLock
    Conservation
    
    LimitsHold
    OneApprovedSchedule
    TwoPeopleEndIt
    ServedIsWhatWasJudged
    QuotesAreFair
    GuessesAreBounded
PROPERTIES
    PromiseKept
    CommandPromiseKept
    ClosedAsSeen
CHECK_DEADLOCK FALSE
