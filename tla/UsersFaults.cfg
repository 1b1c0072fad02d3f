SPECIFICATION Spec
CONSTANTS
    r1 = r1
    r2 = r2
    t1 = t1
    t2 = t2
    a1 = a1
    a2 = a2
    b1 = b1
    p1 = p1
    Requests = {r1}
    Tags = {t1, t2}
    Uuids = {a1, a2, p1}
    UserOf <- MCUserOfTwice
    Movable <- AnnMovable
    InitialPanel <- PatInFirst
    MaxUsers = 1
    Rpc = TRUE
INVARIANTS
    HashedUsersServed
    AddedUsersServed
