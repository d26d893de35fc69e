CONSTANTS
    PoolSize = 1
    K = 2
    MaxPages = 3
    Values <- MCValues
    NoPage = NoPage
    NoFrame = NoFrame
    NoGuard = NoGuard
    Threads = {t1}
SPECIFICATION Spec
PROPERTIES
    FramesLoadStoredPages
