SPECIFICATION Spec
CONSTANTS
    ObserverCount = 1
    SnapshotInterval = 2
    MaximumElements = 2
    ElementsOf <- MCElementsOf
    MaxSessions = 2
    MaxTicks = 2
    MaxClock = 0
PROPERTY StaleNeverDrawn
