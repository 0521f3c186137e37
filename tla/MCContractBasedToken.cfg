CONSTANTS
    o = o
    a = a
    b = b
    None = None
    Addrs <- MCAddrs
    Owner = o
    TotalSupply = 2
    Amounts = {1, 2}
CONSTRAINT AllowanceBound
VIEW MCView
SPECIFICATION Spec
INVARIANTS
    TypeOK
    SupplyConserved
PROPERTY
    SpendingIsAuthorized
