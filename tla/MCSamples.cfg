CONSTANTS
    k1 = k1
    k2 = k2
    v1 = v1
    a1 = a1
    a2 = a2
    c1 = c1
    This = This
    None = None
SPECIFICATION Spec
INVARIANTS
    SamplesTypeOK
PROPERTY
    DemoImplementsContractBasedToken
