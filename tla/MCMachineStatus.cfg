SPECIFICATION FairSpec
CONSTANTS
    Callbacks = {c1, c2}
    Requests = {r1}
    MaxFaults = 1
INVARIANTS
    TypeOK
    FlushHasOwner
PROPERTIES
    FlushEnds
    SilenceNoticed
    AwakeShown
