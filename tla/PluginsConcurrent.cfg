SPECIFICATION Spec
CONSTANTS
    i1 = i1
    r1 = r1
    r2 = r2
    None = None
    NoTags = NoTags
    Requests = {r1, r2}
    Ips = {i1}
    Configs <- MCConfigs
    RuleLists <- MCRuleLists
SYMMETRY Symmetry
INVARIANTS
    TypeOK
    HashDescribesSettings
    XrayHasBlocker
    RulesGenerated
