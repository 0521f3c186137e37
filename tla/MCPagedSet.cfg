CONSTANTS
    a1 = a1
    a2 = a2
    a3 = a3
    d1 = d1
    d2 = d2
    d3 = d3
    Ids <- MCIds
    DocIds <- MCDocIds
    PageCap = 2
    MaxPages = 2
SPECIFICATION Spec
SYMMETRY MCSymmetry
INVARIANTS
    TypeOK
    CountMatchesListing
    NothingHiddenPastPageCount
    WithinCeiling
