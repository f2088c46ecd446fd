SPECIFICATION Spec
CONSTANTS
    Nonce = {n1, n2, n3}
    FreshNonce = TRUE
    SlowLink = TRUE
    MaxFaults = 2
    MaxLate = 3
    Ops = {"status", "deactivate", "reset", "send"}
    MaxCmdTries = 2
    MaxResync = 2
    MaxGarbage = 3
    MaxChunks = 1
INVARIANTS TypeOK HandshakeSound InSync ReportIsTrue AtrFits SendCommitted
SYMMETRY NonceSymmetry
