SPECIFICATION Spec
CONSTANTS
    u1 = u1
    i1 = i1
    i2 = i2
    d1 = d1
    d2 = d2
    k1 = k1
    r1 = r1
    Requests = {r1}
    Blocks = {k1}
    Drops = {d1, d2}
    Users = {u1}
    Ips = {i1, i2}
    MaxTorrents = 1
    Whitelists <- MCWhitelists
SYMMETRY Symmetry
INVARIANTS
    TypeOK
    RemovedUsersCutOff
    BlockedIpsCutOff
    EveryTorrentReported
