CONSTANTS
    c = c
    s = s
    m1 = m1
    m2 = m2
    r1 = r1
    r2 = r2
    None = None
    NumSlots = 1
    Timeout = 1
    MaxTries = 2
    NumPackets = 3
    IPs <- MCIPs
    MACs <- MCMACs
    Claims <- MCOneClaimEach
    NextHop <- MCNextHop
    BackHop <- MCBackHop
    Reqs <- MCReqs
SPECIFICATION FairSpec
PROPERTIES
    EveryPacketSettled
    EveryRequestFreed
    EveryEntryExpires
    ImplementsResolution
