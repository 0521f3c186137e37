CONSTANTS
    Seller = Seller
    h1 = h1
    s1 = s1
    T0 = T0
    tA = tA
    a1 = a1
    u1 = u1
    None = None
    Omitted = Omitted
    Holders <- MCHolders
    Skus = {s1}
    Tranches <- MCTranches
    AcpIds = {a1}
    Periods = {1}
    SpuArgs = {u1}
    SpuIds = {u1}
    Amounts <- MCAmounts
    MaxSupply = 2
    PageCap = 3
    MaxPages = 2
CONSTRAINT RecordBound
VIEW MCView
INIT TokenInit
NEXT TokenNext
INVARIANT ConservationPerTranche
