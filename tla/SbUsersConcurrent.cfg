SPECIFICATION Spec
CONSTANTS
    r1 = r1
    r2 = r2
    a1 = a1
    b1 = b1
    b2 = b2
    None = None
    Requests = {r1, r2}
    Accounts = {a1, b1, b2}
    UserOf <- MCUserOf
    Unhandled <- UnhandledAccounts
    Unknown <- UnknownAccounts
    Faults <- AllFaults
SYMMETRY Symmetry
INVARIANTS
    TypeOK
    ServesPanel
    InstalledIsServed
    RunsInstalled
