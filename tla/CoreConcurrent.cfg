SPECIFICATION Spec
CONSTANTS
    Requests = {r1, r2}
    XrayConfigs = {x1, x2}
    SingBoxConfigs = {s1, s2}
    None = None
    Down = Down
    Booting = Booting
    Faults <- OutsideFaults
    HashCheckDisabled = FALSE
SYMMETRY Symmetry
INVARIANTS
    TypeOK
    BusyFlagsExact
    XrayTracked
    SingBoxTracked
PROPERTIES
    XrayUpToDateIsTrue
    SingBoxUpToDateIsTrue
