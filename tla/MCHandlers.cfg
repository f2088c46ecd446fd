SPECIFICATION HandlersSpec
CONSTANTS
    Starts = {h1, h2, h3}
    MaxReaders = 2
    LockTries = 2
    MaxCrashes = 2
    NoPid = NoPid
    NSlots = 1
    MaxCards = 2
    SeqMod = 16
    MaxGarbage = 2
    Known = {"T0"}
INVARIANTS StatusTypeOK SharedByRaceOnly RunningListed SlotsSound
PROPERTIES StartEnds ChangeNoticed
CHECK_DEADLOCK FALSE
