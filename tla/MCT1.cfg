SPECIFICATION FairSpec
CONSTANTS
    MaxFaults = 3
    Retries = 2
    Resyncs = 2
    RetryMod = 8
    Ifsc = 2
    MaxSnd = 3
    RcvLens = {2, 6}
    CardReqs = {"wtx", "ifs", "abort"}
    MaxReqs = 1
    CardIfsc = {0, 1, 3}
    Ifsd = 1
INVARIANTS TypeOK ResponseIntact SeqAgree ExactlyOnce BlocksFit
PROPERTY CallEnds
