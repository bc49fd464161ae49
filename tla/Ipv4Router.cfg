SPECIFICATION Spec
CONSTANTS
    AddressBits = 4
    WordBits = 4
    ArpLifetime = 2
    MacLifetime = 2
    MacCapacity = 1
    RouteOffers <- MCRouteOffers
    NeighborOffers <- MCNeighborOffers
    ArpMessages <- MCArpMessages
    StationKeys <- MCStationKeys
    StationPorts = {1, 2}
    Times = {0, 1, 2}
    Packets <- MCPackets
    Flips <- MCFlips
    MaximumFrame = 12
INVARIANTS
    TablesSound
    LookupIsBest
    PinnedStay
    HeaderKept
    OneBitIsNoticed
PROPERTY ExpiryIsInvisible
