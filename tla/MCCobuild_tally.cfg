CONSTANTS
    i = i
    p = p
    q = q
    None = None
    Addrs <- MCAddrs
    Initiator = i
    InitShares = 1
    RaiseShares = 2
    Shares = {1}
    ValidPeriod = 1
    MaxShares = 3
    MaxReward = 1
    MaxBalance = 3
    MaxTime = 2
CONSTRAINT OfferBound
SYMMETRY MCSymmetry
SPECIFICATION Spec
INVARIANTS
    TallyWithinPledged
