CONSTANTS
    PageCapacity = 2
    MaxHeapPages = 4
    InvalidPage = InvalidPage
    Threads = {"ins", "upd", "del", "idx"}
    Vals = {1, 2}
    Query <- MCQuery
    SetTo <- MCSetTo
SPECIFICATION Spec
INVARIANTS
    TypeOK
    ChainComplete
    NoRescanOfOwnInserts
    IndexMatchesHeap
PROPERTIES
    QueriesFinish
