SPECIFICATION FairSpec
CONSTANTS
    Elements = {switch, link}
    MaxApplied = 4
    MaxRevision = 2
    MaxResyncs = 2
INVARIANTS
    FrameWhole
    ExitTotals
PROPERTIES
    FramesAdvance
    ShutdownCompletes
    AppliedIsShown
