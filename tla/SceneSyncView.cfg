SPECIFICATION Spec
CONSTANTS
    ObserverCount = 2
    SnapshotInterval = 3
    MaximumElements = 2
    ElementsOf <- MCElementsTooMany
    MaxSessions = 2
    MaxTicks = 4
    MaxClock = 1
PROPERTY ImplementsReplicatedView
