CONSTANTS
    FrameIds <- MCFrameIds
    K = 1
    NoFrame = NoFrame
SPECIFICATION Spec
INVARIANTS
    EvictSucceedsIffEvictable
