SPECIFICATION Spec
CONSTANTS
    n = n
    m = m
    ip1 = ip1
    ip2 = ip2
    Ids = {1, 2, 3}
    Names = {n, m}
    Specs <- MCSpecs
    MaxPort = 20
    AutoPorts <- MCAuto
    Four = {ip1, ip2}
    Six = {}
    Drafts <- MCDrafts
    MaxVersions = 3
    NoRow = NoRow
SYMMETRY Symmetry
INVARIANT StoreInv
INVARIANT ConfigurationBinds
PROPERTY NothingLost
