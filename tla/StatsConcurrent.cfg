SPECIFICATION Spec
CONSTANTS
    r1 = r1
    r2 = r2
    k1 = k1
    k2 = k2
    k3 = k3
    Requests = {r1, r2}
    Chunks = {k1, k2, k3}
    Categories <- MCCategories
    CategoryOf <- MCCategoryOf
    Faults <- AllFaults
SYMMETRY Symmetry
INVARIANTS
    TypeOK
    CountedOnce
    NothingForgotten
