\* Three pages of two bytes each under a 4-bit int offset: page 2's offset,
\* 4, stays positive.  Two log bytes, writes of up to two bytes into a
\* log of at most three, reads of up to two.  I/O errors may occur.
CONSTANTS
    Values = {0, 1}
    LogBytes = {0, 1}
    b1 = b1
    b2 = b2
    Buffers <- MCBuffers
    MaxPageId = 2
    PageSize = 2
    IntWidth = 4
    MaxLogWrite = 2
    MaxLogRead = 2
    MaxLogLen = 3
    MaxCalls = 2
    IOErrors = TRUE
    NoBuffer = NoBuffer
    NoRead = NoRead
SPECIFICATION Spec
INVARIANT TypeOK
PROPERTIES PageReadBack LogReadBack
