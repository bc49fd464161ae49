SPECIFICATION FairSpec
CONSTANTS
    MaxRequestId = 2
    LengthUnits = 2
    BodyUnits = 1
    MaximumFrame = 2
    GarbageLengths = {0, 2, 3}
    MaxRequests = 3
    Specs = {"server", "observer", "view"}
    Commands = {"server", "observer"}
    Plans <- MCPlans
    MaxStarts = 2
    MaxInterrupts = 1
    ServerName = "server"
INVARIANTS
    AnswerIsOwn
    FramingInStep
    ForgottenIsReleased
    NothingIsLeft
    TalksToOwnServer
PROPERTY CallsReturn
