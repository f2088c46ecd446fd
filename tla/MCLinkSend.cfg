SPECIFICATION Spec
CONSTANTS
    Nonce = {n1}
    FreshNonce = TRUE
    SlowLink = FALSE
    MaxFaults = 5
    MaxLate = 0
    Ops = {"send"}
    MaxCmdTries = 3
    MaxResync = 4
    MaxGarbage = 16
    MaxChunks = 0
INVARIANT SendReportsFailure
