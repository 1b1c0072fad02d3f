SPECIFICATION Spec
CONSTANTS
    r1 = r1
    r2 = r2
    t1 = t1
    t2 = t2
    a1 = a1
    a2 = a2
    b1 = b1
    p1 = p1
    Requests = {r1, r2}
    Tags = {t1, t2}
    Uuids = {a1, b1, p1}
    UserOf <- MCUserOfOnce
    Movable <- MCMovable
    InitialPanel <- PatInFirst
    MaxUsers = 2
    Rpc = FALSE
SYMMETRY Symmetry
INVARIANTS
    TypeOK
    CoreServesPanel
    RegistryKnowsCore
