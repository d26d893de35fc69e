CONSTANTS
    PoolSize = 1
    K = 2
    MaxPages = 2
    Values <- MCValues
    NoPage = NoPage
    NoFrame = NoFrame
    Threads = {t1, t2}
    Slots = {"b", "r", "w1", "w2"}
    SlotType <- MCSlotType
    ReassignLive = TRUE
    DropTwice = TRUE
    PoolMayRunOut = TRUE
    NoSlot = NoSlot
    NoWait = NoWait
SPECIFICATION Spec
SYMMETRY MCSymmetry
INVARIANT
    NoUndefinedGuardUse
