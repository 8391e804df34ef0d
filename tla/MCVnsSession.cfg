SPECIFICATION FairSpec
CONSTANTS
    a = a
    b = b
    eth1 = eth1
    eth2 = eth2
    eth9 = eth9
    m1 = m1
    m2 = m2
    m3 = m3
    ip1 = ip1
    ip2 = ip2
    None = None
    Conns = {a, b}
    Options <- MCOptions
    Switches <- MCSwitches
    Served <- MCServed
    MaxPackets = 1
    MaxUp = 1
INVARIANTS
    TypeOK
    ReadyConsistent
    InterfacesAnnounced
    PacketOutKnown
    HandshakeToken
PROPERTY ReadyOrGone
CHECK_DEADLOCK FALSE
