SPECIFICATION FairSpec
CONSTANTS
    Sock = {s1, s2}
    Uid = {alice, bob}
    NSlots = 1
    HandleMod = 1
    MaxGrants = 2
    None = None
INVARIANTS TypeOK LocksCompatible LocksOwned
PROPERTIES NoForeignRelease DeadReleased
