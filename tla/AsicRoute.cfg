SPECIFICATION RouteSpec
CONSTANTS
    PortIds = {1, 2, 3}
    Vlans = {1, 2}
    PortConfigs <- DataConfigs
    PortMac <- MCPortMac
    RouterMacs = {10}
    Mtu = 20
    QueueCapacity = 1
    MacCapacity = 2
    Prefixes = {"net", "host"}
    PrefixAddresses <- MCPrefixAddresses
    PrefixLength <- MCPrefixLength
    NextHops = {0, 1}
    HostIps = {1}
    NeighborMacs = {4}
    ArpLifetime = 1
    FaultConfigs <- OnlyNoFaults
    Frames <- RouteFrames
    Now = {0, 1}
    MaxProcessed = 2
PROPERTIES RoutedByBestRoute
CHECK_DEADLOCK FALSE
