CONSTANTS
    FrameIds <- MCFrameIds
    K = 2
    NoFrame = NoFrame
SPECIFICATION Spec
INVARIANTS
    TypeOK
    EvictFollowsLRUK
    EvictSucceedsIffEvictable
