---------------------------- MODULE DiskManager ----------------------------
(***************************************************************************)
(* DiskManager (disk_manager.cpp, stored in                                *)
(* src/src/storage/table/table_heap.cpp lines 144-357): the page file and *)
(* the log file behind their two std::fstreams, driven by any sequence of *)
(* calls.  The page calls run under db_io_latch_ and the log calls on the *)
(* log-flushing thread, so every call is one step.                        *)
(*                                                                         *)
(* The page file is a partial function from written block to contents, as *)
(* in BufferPoolManager; the log file is a sequence of bytes.  A stream's *)
(* badbit is sticky: nothing in the class clears it once a write or read  *)
(* has failed, so an I/O error is a nondeterministic failure that stays.  *)
(* ReadPage's offset is an int of IntWidth bits and PageSize bytes per    *)
(* page (32 and 4096 in the build), so it wraps as the build's does.      *)
(***************************************************************************)
EXTENDS Integers, Sequences, FiniteSetsExt, TLC

CONSTANTS
    Values,         \* page contents; 0 is a zeroed page
    LogBytes,       \* log bytes; 0 is a zero byte
    Buffers,        \* the log buffers the caller swaps between
    MaxPageId,      \* page ids 0 .. MaxPageId
    PageSize,       \* BUSTUB_PAGE_SIZE
    IntWidth,       \* bits of ReadPage's int offset
    MaxLogWrite,    \* WriteLog sizes 0 .. MaxLogWrite
    MaxLogRead,     \* ReadLog sizes 1 .. MaxLogRead, the caller's buffer
    MaxLogLen,      \* bound on the log file's length
    MaxCalls,       \* bound on num_writes_ and num_flushes_
    IOErrors,       \* whether a stream operation may fail
    NoBuffer,       \* model value: buffer_used == nullptr
    NoRead          \* model value: no read has returned yet

VARIABLES
    opened,         \* the constructor found a '.' and opened both streams
    db,             \* the page file: block -> contents
    db_bad,         \* db_io_.bad()
    log,            \* the log file's bytes
    log_bad,        \* log_io_.bad()
    buffer_used,    \* the static buffer_used
    flush_log,      \* flush_log_
    num_flushes,    \* num_flushes_
    num_writes,     \* num_writes_
    shut,           \* ShutDown has closed the streams
    page_read,      \* [page, buf]: the last ReadPage and the buffer it left
    log_read        \* [ret, buf]: the last ReadLog's result and buffer

vars == <<opened, db, db_bad, log, log_bad, buffer_used, flush_log, num_flushes,
          num_writes, shut, page_read, log_read>>

PageIds == 0 .. MaxPageId

\* The page file's length in blocks, and the bytes of block b.
FileEnd(d) == IF DOMAIN d = {} THEN 0 ELSE Max(DOMAIN d) + 1
DiskValue(d, b) == IF b \in DOMAIN d THEN d[b] ELSE 0

\* GetFileSize: stat's st_size, or -1 when the file does not exist (the
\* constructor returned before creating it).
GetFileSize(len) == IF opened THEN len ELSE -1

\* A value of a signed IntWidth-bit int, two's complement.
IntOf(x) == LET m == 2^IntWidth
                r == x % m
            IN  IF r >= m \div 2 THEN r - m ELSE r

\* int offset = page_id * BUSTUB_PAGE_SIZE (line 247).
ReadOffset(p) == IntOf(p * PageSize)

\* The members' initialisers in disk_manager.h (lines 91-94); flush_log_f_
\* stays nullptr, as nothing in the repository sets it.
MemberDefaults == num_flushes = 0 /\ num_writes = 0 /\ flush_log = FALSE

\* The constructor (lines 177-207).  A name without '.' logs and returns
\* with neither stream open and no file created; otherwise the log and the
\* db file are opened, or created empty, and the static buffer_used (line
\* 170) is reset.  An
\* existing db file may already hold blocks.
Init ==
    /\ opened \in BOOLEAN
    /\ db \in IF opened THEN {[b \in {} |-> 0]} \cup {(0 :> v) : v \in Values}
                        ELSE {[b \in {} |-> 0]}
    /\ log = <<>>
    /\ db_bad = FALSE /\ log_bad = FALSE
    /\ buffer_used = NoBuffer
    /\ MemberDefaults
    /\ shut = FALSE
    /\ page_read \in {[page |-> NoRead, buf |-> v] : v \in Values}
    /\ log_read \in {[ret |-> NoRead, buf |-> b] : b \in [1 .. MaxLogRead -> LogBytes]}

\* Whether a stream operation on a good, open stream fails now.
Errors == IF IOErrors THEN BOOLEAN ELSE {FALSE}

\* Mutant: the offset is one page too far, (page_id + 1) * BUSTUB_PAGE_SIZE.
WritePageOffByOne(p, v) ==
    /\ ~shut
    /\ num_writes < MaxCalls
    /\ num_writes' = num_writes + 1
    /\ \/ ~opened /\ UNCHANGED <<db, db_bad>>
       \/ opened /\ db_bad /\ UNCHANGED <<db, db_bad>>
       \/ opened /\ ~db_bad /\ \E fail \in Errors :
             IF fail THEN db_bad' = TRUE /\ UNCHANGED db
                     ELSE db' = (p + 1 :> v) @@ db /\ UNCHANGED db_bad
    /\ UNCHANGED <<opened, log, log_bad, buffer_used, flush_log, num_flushes, shut,
                   page_read, log_read>>

\* WritePage (lines 225-239): num_writes_ counts the call; the write and
\* flush extend or overwrite block page_id.  On a bad stream, or one that
\* fails now, badbit is (or stays) set and the call returns before the
\* flush.  On a stream never opened seekp sets failbit and write and flush
\* do nothing.
WritePage(p, v) ==
    /\ ~shut
    /\ num_writes < MaxCalls
    /\ num_writes' = num_writes + 1
    /\ \/ ~opened /\ UNCHANGED <<db, db_bad>>
       \/ opened /\ db_bad /\ UNCHANGED <<db, db_bad>>
       \/ opened /\ ~db_bad /\ \E fail \in Errors :
             IF fail THEN db_bad' = TRUE /\ UNCHANGED db
                     ELSE db' = (p :> v) @@ db /\ UNCHANGED db_bad
    /\ UNCHANGED <<opened, log, log_bad, buffer_used, flush_log, num_flushes, shut,
                   page_read, log_read>>

\* Mutant: the end-of-file check is >=, so a read of the block just past
\* the end leaves the buffer untouched instead of zero-filling it.
ReadResultAtEnd(p, buf, bad) ==
    LET off == ReadOffset(p) IN
    IF off >= GetFileSize(FileEnd(db) * PageSize) THEN buf
    ELSE IF bad THEN buf
    ELSE IF off < 0 \/ ~opened THEN 0
    ELSE DiskValue(db, off \div PageSize)

\* The buffer ReadPage leaves (lines 245-269).  Past GetFileSize the
\* buffer is untouched; on a bad stream read extracts nothing and the call
\* returns with it untouched; a negative offset or a closed file makes
\* seekp and read fail without badbit, and the short read is zero-filled;
\* otherwise the block at offset is read, zero-filled past the file's end.
ReadResult(p, buf, bad) ==
    LET off == ReadOffset(p) IN
    IF off > GetFileSize(FileEnd(db) * PageSize) THEN buf
    ELSE IF bad THEN buf
    ELSE IF off < 0 \/ ~opened THEN 0
    ELSE DiskValue(db, off \div PageSize)

ReadPage(p) ==
    /\ ~shut
    /\ \E fail \in IF opened /\ ~db_bad THEN Errors ELSE {FALSE} :
          /\ db_bad' = (db_bad \/ fail)
          /\ page_read' = [page |-> p, buf |-> ReadResult(p, page_read.buf, db_bad')]
    /\ UNCHANGED <<opened, db, log, log_bad, buffer_used, flush_log, num_flushes,
                   num_writes, shut, log_read>>

\* WriteLog (lines 275-303), called with a buffer other than the last one
\* (the assert of line 278) and size bytes of it.  buffer_used is taken
\* first; an empty buffer returns there.  flush_log_ is set, num_flushes_
\* counts the call, and the bytes are appended (the stream is opened with
\* ios::app).  A write to a stream never opened, a bad one or one that
\* fails now sets badbit and returns with flush_log_ still set; otherwise
\* the flush completes and flush_log_ is cleared.  flush_log_f_ is never
\* set in this repository, so the wait of line 288 does not happen.
WriteLog(b, data) ==
    /\ ~shut
    /\ b # buffer_used
    /\ buffer_used' = b
    /\ IF data = <<>>
       THEN UNCHANGED <<log, log_bad, flush_log, num_flushes>>
       ELSE /\ num_flushes < MaxCalls
            /\ Len(log) + Len(data) <= MaxLogLen
            /\ num_flushes' = num_flushes + 1
            /\ \E fail \in IF opened /\ ~log_bad THEN Errors ELSE {TRUE} :
                  IF fail THEN /\ log_bad' = TRUE /\ flush_log' = TRUE
                               /\ UNCHANGED log
                          ELSE /\ log' = log \o data /\ flush_log' = FALSE
                               /\ UNCHANGED log_bad
    /\ UNCHANGED <<opened, db, db_bad, num_writes, shut, page_read, log_read>>

\* Mutant: the end-of-log check is >, so a read at offset == file size
\* returns true with a zero-filled buffer.
ReadLogResultPastEnd(o, s, buf, bad) ==
    IF o > GetFileSize(Len(log)) \/ bad
    THEN [ret |-> FALSE, buf |-> buf]
    ELSE [ret |-> TRUE,
          buf |-> [i \in DOMAIN buf |->
                     IF i > s THEN buf[i]
                     ELSE IF o + i <= Len(log) THEN log[o + i] ELSE 0]]

\* The buffer ReadLog leaves and what it returns (lines 310-331): offset
\* at or past GetFileSize returns false; a bad stream returns false; else
\* size bytes from offset, zero-filled past the end, and true.  Bytes of
\* the caller's buffer past size are untouched.
ReadLogResult(o, s, buf, bad) ==
    IF o >= GetFileSize(Len(log)) \/ bad
    THEN [ret |-> FALSE, buf |-> buf]
    ELSE [ret |-> TRUE,
          buf |-> [i \in DOMAIN buf |->
                     IF i > s THEN buf[i]
                     ELSE IF o + i <= Len(log) THEN log[o + i] ELSE 0]]

ReadLog(o, s) ==
    /\ ~shut
    /\ \E fail \in IF opened /\ ~log_bad /\ o < Len(log) THEN Errors ELSE {FALSE} :
          LET r == ReadLogResult(o, s, log_read.buf, log_bad \/ fail) IN
          /\ log_bad' = (log_bad \/ fail)
          /\ log_read' = r
    /\ UNCHANGED <<opened, db, db_bad, log, buffer_used, flush_log, num_flushes,
                   num_writes, shut, page_read>>

\* ShutDown (lines 213-219) closes both streams; nothing calls the
\* manager afterwards, so every call requires ~shut.
ShutDown ==
    /\ ~shut
    /\ shut' = TRUE
    /\ UNCHANGED <<opened, db, db_bad, log, log_bad, buffer_used, flush_log,
                   num_flushes, num_writes, page_read, log_read>>

\* GetNumFlushes, GetNumWrites and GetFlushState (lines 336-346).
GetNumFlushes == num_flushes
GetNumWrites == num_writes
GetFlushState == flush_log

\* The buffers WriteLog may be handed, of sizes 0 .. MaxLogWrite.
LogWrites == UNION {[1 .. n -> LogBytes] : n \in 0 .. MaxLogWrite}

Closed == shut /\ UNCHANGED vars

Next ==
    \/ \E p \in PageIds, v \in Values : WritePage(p, v)
    \/ \E p \in PageIds : ReadPage(p)
    \/ \E b \in Buffers, data \in LogWrites : WriteLog(b, data)
    \/ \E o \in 0 .. MaxLogLen, s \in 1 .. MaxLogRead : ReadLog(o, s)
    \/ ShutDown
    \/ Closed

Spec == Init /\ [][Next]_vars

-----------------------------------------------------------------------------

TypeOK ==
    /\ opened \in BOOLEAN /\ shut \in BOOLEAN
    /\ db \in UNION {[B -> Values] : B \in SUBSET PageIds}
    /\ log \in Seq(LogBytes) /\ Len(log) <= MaxLogLen
    /\ {db_bad, log_bad, flush_log} \subseteq BOOLEAN
    /\ buffer_used \in Buffers \cup {NoBuffer}
    /\ num_flushes \in 0 .. MaxCalls /\ num_writes \in 0 .. MaxCalls
    /\ page_read.buf \in Values
    /\ log_read.ret \in BOOLEAN \cup {NoRead}

\* ReadPage of page p gives the bytes the last successful WritePage of p
\* wrote, or zeros for a page never written (a hole, or the block just
\* past the end), unless the stream has gone bad (lines 225-269).  A page
\* further past the end keeps the buffer's old bytes, the stale read that
\* guards_stale_read shows through the buffer pool.
PageReadBack ==
    [][\A p \in PageIds :
         ReadPage(p) /\ opened /\ ~db_bad' /\ p <= FileEnd(db) =>
            page_read'.buf = DiskValue(db, p)]_vars

\* ReadLog returns true exactly when offset lies inside the log and the
\* stream is good, and then the first size bytes of the buffer are the
\* log's bytes from offset, zero-filled past its end (lines 275-331).
LogReadBack ==
    [][\A o \in 0 .. MaxLogLen, s \in 1 .. MaxLogRead :
         ReadLog(o, s) =>
            /\ log_read'.ret = (opened /\ ~log_bad' /\ o < Len(log))
            /\ log_read'.ret =>
                  \A i \in 1 .. s :
                     log_read'.buf[i] = IF o + i <= Len(log) THEN log[o + i] ELSE 0]_vars

=============================================================================
