SPECIFICATION Spec
CONSTANTS
    Requests = {r1, r2}
    XrayConfigs = {x1}
    SingBoxConfigs = {s1}
    None = None
    Down = Down
    Booting = Booting
    Faults <- FaultKinds
    HashCheckDisabled = FALSE
PROPERTIES
    XrayStartsSingleFlight
    SingBoxStartsSingleFlight
    RequestsAnswered
