SPECIFICATION Spec
CONSTANTS
    Sock = {s1, s2}
    Uid = {alice, bob}
    NSlots = 1
    HandleMod = 4
    MaxGrants = 2
    None = None
INVARIANT ApduExclusion
