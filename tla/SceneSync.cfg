SPECIFICATION FairSpec
CONSTANTS
    ObserverCount = 1
    SnapshotInterval = 4
    MaximumElements = 2
    ElementsOf <- MCElementsOf
    MaxSessions = 2
    MaxTicks = 4
    MaxClock = 1
INVARIANTS
    TypeOK
    SceneFaithful
    NeverTorn
    NoRevisionMismatch
PROPERTIES
    InSessionProgress
    SnapshotRecovers
