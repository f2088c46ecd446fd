SPECIFICATION FairSpec
CONSTANTS
    Nonce = {n1, n2}
    FreshNonce = FALSE
    SlowLink = FALSE
    MaxFaults = 2
    MaxLate = 3
    Ops = {"status", "deactivate", "reset", "recv"}
    MaxCmdTries = 3
    MaxResync = 3
    MaxGarbage = 4
    MaxChunks = 1
PROPERTIES CallReturns Recovers
INVARIANT InSync
