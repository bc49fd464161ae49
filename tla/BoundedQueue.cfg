SPECIFICATION FairSpec
CONSTANTS
    Capacity = 3
    Consumers = {c1, c2, c3, c4, c5}
    MaxItems = 8
INVARIANTS
    WithinCapacity
    Fifo
    NoLostWakeup
    NulloptMeansDrained
PROPERTIES
    CloseReleases
    FrontIsTaken
