SPECIFICATION SwitchSpec
CONSTANTS
    PortIds = {1, 2, 3}
    Vlans = {1, 2}
    PortConfigs <- DataConfigs
    PortMac <- MCPortMac
    RouterMacs = {10}
    Mtu = 20
    QueueCapacity = 1
    MacCapacity = 2
    Prefixes = {}
    PrefixAddresses <- MCPrefixAddresses
    PrefixLength <- MCPrefixLength
    NextHops = {0}
    HostIps = {}
    NeighborMacs = {}
    ArpLifetime = 1
    FaultConfigs <- OnlyNoFaults
    Frames <- SwitchFrames
    Now = {0}
    MaxProcessed = 5
INVARIANTS CongestionMeansFull
CHECK_DEADLOCK FALSE
