CONSTANTS
    PoolSize = 1
    K = 2
    MaxPages = 2
    Values <- MCValues
    NoPage = NoPage
    NoFrame = NoFrame
    NoGuard = NoGuard
    Threads = {t1, t2}
SPECIFICATION Spec
INVARIANTS
    TypeOK
    PinsMatchGuards
    GuardsKeepTheirPage
    FrameAccounting
    ReplacerMatchesPins
PROPERTIES
    FlushReturns
