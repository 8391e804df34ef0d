CONSTANTS
    c = c
    s = s
    m1 = m1
    m2 = m2
    r1 = r1
    r2 = r2
    None = None
    NumSlots = 2
    Timeout = 1
    MaxTries = 5
    NumPackets = 1
    IPs <- MCIPs
    MACs <- MCMACs
    Claims <- MCClaims
    NextHop <- MCNextHop
    BackHop <- MCBackHop
    Reqs <- MCReqs
SPECIFICATION Spec
INVARIANTS
    RetryLimit
