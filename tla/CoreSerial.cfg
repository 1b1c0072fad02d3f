SPECIFICATION Spec
CONSTANTS
    Requests = {r1}
    XrayConfigs = {x1, x2}
    SingBoxConfigs = {s1, s2}
    None = None
    Down = Down
    Booting = Booting
    Faults <- IntegrationFaults
    HashCheckDisabled = FALSE
INVARIANTS
    HealthReportExact
