CONSTANTS
    Seller = Seller
    h1 = h1
    s1 = s1
    T0 = T0
    tA = tA
    a1 = a1
    r1 = r1
    None = None
    Omitted = Omitted
    Holders <- MCHolders
    Skus = {s1}
    Tranches = {T0}
    AcpIds = {a1}
    Periods = {1}
    SpuArgs = {Omitted}
    SpuIds = {}
    Amounts = {1}
    MaxSupply = 1
    PageCap = 2
    MaxPages = 1
    RepnIds = {r1}
    MaxTime = 2
    PeriodLimit = 1
CONSTRAINT RedemptionBound
VIEW MCView
SPECIFICATION Spec
INVARIANT
    RedemptionEscrowed
