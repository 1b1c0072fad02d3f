SPECIFICATION Spec
CONSTANTS
    r1 = r1
    r2 = r2
    in1 = in1
    out1 = out1
    eth0 = eth0
    Requests = {r1, r2}
    Inbounds = {in1}
    Outbounds = {out1}
    Accounts = {}
    Interfaces = {eth0}
    MaxTraffic = 2
    MaxTime = 3
CONSTRAINT OneHalf
INVARIANTS
    TypeOK
    TrafficReportedOnce
PROPERTIES
    RatesNeverExaggerate
    GeocheckOnce
