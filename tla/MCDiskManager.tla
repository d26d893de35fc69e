--------------------------- MODULE MCDiskManager ---------------------------
EXTENDS DiskManager

CONSTANTS b1, b2

\* Two log buffers, as a LogManager swapping its log and flush buffers.
MCBuffers == {b1, b2}
=============================================================================
