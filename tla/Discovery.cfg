SPECIFICATION FairSpec
CONSTANTS
    Hosts = {"h1", "h2"}
    Adverts <- MCAdverts
    Prepared <- MCPrepared
    Foreign = {"garbage", "query"}
    ForeignRequest = 9
    RequestIds = {1, 2}
    MaximumResults = 2
    MaxRuns = 2
    MaxFaults = 1
INVARIANTS
    FoundAnsweredThisCall
    HeardNodesListedOnce
    ConfigurationSound
PROPERTY CallReturns
