CONSTANTS
    PoolSize = 1
    K = 2
    MaxPages = 2
    Values <- MCValues
    NoPage = NoPage
    NoFrame = NoFrame
    Threads = {t1, t2}
    Slots = {"b", "r", "w1", "w2"}
    SlotType <- MCSlotType
    ReassignLive = FALSE
    DropTwice = FALSE
    PoolMayRunOut = FALSE
    NoSlot = NoSlot
    NoWait = NoWait
SPECIFICATION Spec
SYMMETRY MCSymmetry
INVARIANTS
    TypeOK
    PinsMatchGuards
    LatchesMatchGuards
    NoUndefinedGuardUse
