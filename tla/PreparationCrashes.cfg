SPECIFICATION Spec
CONSTANTS
    c1 = c1
    c2 = c2
    new = new
    geo1 = geo1
    geo2 = geo2
    site = site
    NoFile = NoFile
    Hole = Hole
    Stock = Stock
    Slots = {new, geo1, geo2, site}
    PathOf <- MCPathOf
    Bodies = {c1, c2}
    Chunks = 2
    Cores = {c1, c2}
    CoreSlot = new
    AssetSlots = {geo1, geo2, site}
    Concurrency = 2
    Integrations = 2
    Panels <- MCPanels
    Sockets = {"a.sock", "b.sock"}
    MaxMatches = 1
INVARIANTS
    TypeOK
    PreparedRunsWanted
    UnsharedAssetWhole
PROPERTIES
    CoreReplacedAtOnce
    StartsPrepared
