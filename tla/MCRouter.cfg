SPECIFICATION Spec
CONSTANTS
    eth1 = eth1
    eth2 = eth2
    r1 = r1
    r2 = r2
    h1 = h1
    h2 = h2
    x = x
    None = None
    Ifaces = {eth1, eth2}
    IPs = {r1, r2, h1, h2, x}
    IfIP <- MCIfIP
    Route <- MCRoute
    InitTTL = 3
    MaxTTL = 2
    MaxWaiting = 2
INVARIANTS
    TypeOK
    FramesAccepted
    TtlDecreases
    ErrorChainEnds
