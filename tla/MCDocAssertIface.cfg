SPECIFICATION Spec
CONSTANTS
    a = a
    b = b
    eth1 = eth1
    eth2 = eth2
    eth9 = eth9
    m1 = m1
    m2 = m2
    m3 = m3
    ip1 = ip1
    ip2 = ip2
    None = None
    Conns = {a}
    Options <- MCOptions
    Switches <- MCSwitches
    Served <- MCServed
    MaxPackets = 2
    MaxUp = 1
INVARIANT AssertIface
CHECK_DEADLOCK FALSE
