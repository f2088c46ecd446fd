SPECIFICATION StatusSpec
CONSTANTS
    Starts = {h1, h2}
    MaxReaders = 2
    LockTries = 2
    MaxCrashes = 0
    NoPid = NoPid
INVARIANT SlotsDistinct
CHECK_DEADLOCK FALSE
