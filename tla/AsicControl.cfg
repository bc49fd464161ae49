SPECIFICATION Spec
CONSTANTS
    PortIds = {1, 2}
    Vlans = {1, 2}
    PortConfigs <- ControlConfigs
    PortMac <- MCPortMac
    RouterMacs = {10}
    Mtu = 20
    QueueCapacity = 1
    MacCapacity = 2
    Prefixes = {}
    PrefixAddresses <- MCPrefixAddresses
    PrefixLength <- MCPrefixLength
    NextHops = {0}
    HostIps = {}
    NeighborMacs = {}
    ArpLifetime = 1
    FaultConfigs <- OnlyNoFaults
    Frames <- ControlFrames
    Now = {0}
    MaxProcessed = 1
INVARIANTS TablesConsistent
PROPERTIES Isolation
CHECK_DEADLOCK FALSE
