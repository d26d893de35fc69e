------------------------- MODULE BufferPoolManager -------------------------
(***************************************************************************)
(* The buffer pool manager of src/buffer/buffer_pool_manager.cpp (the      *)
(* file is stored in src/src/binder/CMakeLists.txt, lines 20-256), with    *)
(* the disk scheduler's request queue and the page file it writes to.      *)
(*                                                                         *)
(* Every method that takes latch_ is one atomic action: the lock is held   *)
(* across its replacer calls and across its waits on disk I/O, so no other *)
(* locked method can interleave with it.  FlushPage, when a client calls   *)
(* it, takes no lock: it is split at the point where it hands a request to *)
(* the disk scheduler, and the scheduler's worker (DiskWorker) performs    *)
(* the write later, reading the frame's buffer at that moment.             *)
(*                                                                         *)
(* A locked method that does I/O waits for its own request, which the     *)
(* FIFO worker serves after every request queued before it: such a method  *)
(* therefore first applies the whole pending queue (Drained), then its own *)
(* read or write.                                                          *)
(*                                                                         *)
(* Actions here take their results as parameters (the frame NewPage        *)
(* returns, the caller a request belongs to); client modules conjoin them  *)
(* with their own variables.  A page's bytes are abstracted to one value   *)
(* of Values; 0 is the zeroed buffer.                                      *)
(***************************************************************************)
EXTENDS Naturals, Sequences, SequencesExt, TLC

CONSTANTS
    PoolSize,       \* pool_size_
    K,              \* replacer_k
    MaxPages,       \* model bound: AllocatePage never goes past MaxPages - 1
    Values,         \* page contents; 0 is ResetMemory's zeroed buffer
    NoPage,         \* INVALID_PAGE_ID
    NoFrame         \* "no frame": Evict returned false

FrameIds == 0 .. PoolSize - 1
PageIds == 0 .. MaxPages - 1

ASSUME 0 \in Values /\ NoPage \notin PageIds

VARIABLES
    page_table,     \* page_table_: page id -> frame id, domain = resident pages
    free_list,      \* free_list_: frames holding no page, front first
    pages,          \* pages_[f]: page_id_, pin_count_, is_dirty_ and the buffer
    next_page_id,   \* next_page_id_
    replacer,       \* replacer_ (LRUKReplacer state record)
    request_queue,  \* the DiskScheduler's request_queue_: pending write requests
    disk            \* the page file: written block -> contents; the file ends
                    \* after its highest block, and holes read as zeros

bpm_vars == <<page_table, free_list, pages, next_page_id, replacer, request_queue, disk>>

Replacer == INSTANCE LRUKReplacer WITH FrameIds <- FrameIds

-----------------------------------------------------------------------------
(* Disk scheduler and disk manager.                                        *)

\* DiskManager::WritePage: the block is written, extending the file.
WritePage(d, p, data) == (p :> data) @@ d

\* The file's length in pages (GetFileSize / BUSTUB_PAGE_SIZE).
FileEnd(d) == IF DOMAIN d = {} THEN 0 ELSE Max(DOMAIN d) + 1

\* The bytes of block p in the file: zeros in a hole or at the end.
DiskValue(d, p) == IF p \in DOMAIN d THEN d[p] ELSE 0

\* DiskManager::ReadPage into a buffer holding buf: a block starting past
\* the end of the file (offset > file size) only logs, and the buffer keeps
\* its old bytes; otherwise the block, zero-filled where the file is short.
ReadPage(d, p, buf) == IF p > FileEnd(d) THEN buf ELSE DiskValue(d, p)

\* DiskScheduler::StartWorkerThread serving one write request: WritePage
\* copies the frame's buffer, as it is when served, to the page's block.
ApplyRequest(d, req) == WritePage(d, req.page_id, pages[req.frame].data)

\* The page file once the worker has served every pending request, in FIFO
\* order: what a locked method that waits on its own I/O sees.
Drained == FoldLeft(ApplyRequest, disk, request_queue)

\* BufferPoolManager::FlushPage called with latch_ held (from NewPage,
\* FetchPage, DeletePage): the page file after the write of frame f as page
\* p, queued behind the pending requests.
FlushedDisk(p, f) == WritePage(Drained, p, pages[f].data)

Erase(pt, p) == [x \in DOMAIN pt \ {p} |-> pt[x]]

-----------------------------------------------------------------------------
(* Choosing a frame for a page, shared by NewPage and FetchPage: the front *)
(* of the free list, otherwise a victim of the replacer, whose page is     *)
(* flushed if dirty and whose mapping is erased.                           *)

FromFreeList == free_list # <<>>

\* The frames the choice may yield; empty when both sources fail (nullptr).
CandidateFrames ==
    IF FromFreeList THEN {Head(free_list)}
    ELSE Replacer!EvictChoices(replacer) \ {NoFrame}

\* Both sources can fail: the free list is empty and Evict returns false,
\* so NewPage and FetchPage return nullptr.
NoFrameAvailable == ~FromFreeList /\ NoFrame \in Replacer!EvictChoices(replacer)

FlushesVictim(f) == ~FromFreeList /\ pages[f].is_dirty

FreeListAfterTake == IF FromFreeList THEN Tail(free_list) ELSE free_list
ReplacerAfterTake(f) == IF FromFreeList THEN replacer ELSE Replacer!Evict(replacer, f)
\* Mutation of TableAfterTake: the victim's page_table_ entry is not erased.
TableAfterTakeNoErase(f) == page_table
TableAfterTake(f) == IF FromFreeList THEN page_table ELSE Erase(page_table, pages[f].page_id)

\* The frame becomes the newest access and is pinned in the replacer.
Admit(r, f) == Replacer!SetEvictable(Replacer!RecordAccess(r, f), f, FALSE)

-----------------------------------------------------------------------------
(* The methods.                                                            *)

\* Mutation of NewPage: AllocatePage pre-increments (++next_page_id_), so
\* the frame and the page table get the id after the one counted.
NewPagePreIncrement(f) ==
    /\ next_page_id < MaxPages
    /\ f \in CandidateFrames
    /\ free_list' = FreeListAfterTake
    /\ disk' = IF FlushesVictim(f) THEN FlushedDisk(pages[f].page_id, f) ELSE disk
    /\ request_queue' = IF FlushesVictim(f) THEN <<>> ELSE request_queue
    /\ next_page_id' = next_page_id + 1
    /\ replacer' = Admit(ReplacerAfterTake(f), f)
    /\ page_table' = ((next_page_id + 1) :> f) @@ TableAfterTake(f)
    /\ pages' = [pages EXCEPT ![f] = [page_id |-> next_page_id + 1, pin_count |-> 1,
                                      is_dirty |-> FALSE, data |-> 0]]

\* BufferPoolManager::NewPage returning page next_page_id_ in frame f.
NewPage(f) ==
    /\ next_page_id < MaxPages
    /\ f \in CandidateFrames
    /\ free_list' = FreeListAfterTake
    /\ disk' = IF FlushesVictim(f) THEN FlushedDisk(pages[f].page_id, f) ELSE disk
    /\ request_queue' = IF FlushesVictim(f) THEN <<>> ELSE request_queue
    /\ next_page_id' = next_page_id + 1
    /\ replacer' = Admit(ReplacerAfterTake(f), f)
    /\ page_table' = (next_page_id :> f) @@ TableAfterTake(f)
    /\ pages' = [pages EXCEPT ![f] = [page_id |-> next_page_id, pin_count |-> 1,
                                      is_dirty |-> FALSE, data |-> 0]]

\* Mutation of FetchPageHit: the pin count is not raised.
FetchPageHitNoPin(p) ==
    /\ p \in DOMAIN page_table
    /\ pages' = [pages EXCEPT ![page_table[p]].is_dirty = TRUE]
    /\ replacer' = Admit(replacer, page_table[p])
    /\ UNCHANGED <<page_table, free_list, next_page_id, request_queue, disk>>

\* BufferPoolManager::FetchPage of a resident page: one more pin, and the
\* dirty bit is SET (line 112), then access recorded and frame pinned.
FetchPageHit(p) ==
    /\ p \in DOMAIN page_table
    /\ pages' = [pages EXCEPT ![page_table[p]].pin_count = @ + 1,
                              ![page_table[p]].is_dirty = TRUE]
    /\ replacer' = Admit(replacer, page_table[p])
    /\ UNCHANGED <<page_table, free_list, next_page_id, request_queue, disk>>

\* BufferPoolManager::FetchPage of a page not resident, read into frame f.
\* The read waits behind every pending request, so the queue is drained.
FetchPageMiss(p, f) ==
    /\ p \notin DOMAIN page_table
    /\ f \in CandidateFrames
    /\ LET d == IF FlushesVictim(f) THEN FlushedDisk(pages[f].page_id, f) ELSE Drained
       IN  /\ disk' = d
           /\ pages' = [pages EXCEPT ![f] = [page_id |-> p, pin_count |-> 1,
                                             is_dirty |-> FALSE,
                                             data |-> ReadPage(d, p, pages[f].data)]]
    /\ request_queue' = <<>>
    /\ free_list' = FreeListAfterTake
    /\ replacer' = Admit(ReplacerAfterTake(f), f)
    /\ page_table' = (p :> f) @@ TableAfterTake(f)
    /\ UNCHANGED next_page_id

\* Mutation of UnpinPage: the frame is made evictable on every unpin, not
\* only when the pin count reaches zero.
UnpinPageAlwaysEvictable(p, is_dirty) ==
    IF p \notin DOMAIN page_table \/ pages[page_table[p]].pin_count <= 0
    THEN UNCHANGED bpm_vars
    ELSE LET f == page_table[p]
         IN  /\ pages' = [pages EXCEPT ![f].pin_count = @ - 1, ![f].is_dirty = is_dirty]
             /\ replacer' = Replacer!SetEvictable(replacer, f, TRUE)
             /\ UNCHANGED <<page_table, free_list, next_page_id, request_queue, disk>>

\* BufferPoolManager::UnpinPage(page_id, is_dirty).  It fails on a page
\* that is not resident or not pinned; otherwise the pin drops, the frame
\* becomes evictable at zero, and the dirty bit is ASSIGNED is_dirty.
UnpinPage(p, is_dirty) ==
    IF p \notin DOMAIN page_table \/ pages[page_table[p]].pin_count <= 0
    THEN UNCHANGED bpm_vars
    ELSE LET f == page_table[p]
         IN  /\ pages' = [pages EXCEPT ![f].pin_count = @ - 1, ![f].is_dirty = is_dirty]
             /\ replacer' = Replacer!SetEvictable(replacer, f, pages[f].pin_count - 1 = 0)
             /\ UNCHANGED <<page_table, free_list, next_page_id, request_queue, disk>>

\* DiskScheduler::Schedule: the request joins the back of request_queue_.
Schedule(q, r) == Append(q, r)

\* BufferPoolManager::FlushPage called by a client, without latch_: look
\* up the frame, clear the dirty bit, schedule the write.  The caller then
\* waits on the request's promise.  A page that is not resident: false.
FlushPageSchedule(p, caller) ==
    /\ p \in DOMAIN page_table
    /\ pages' = [pages EXCEPT ![page_table[p]].is_dirty = FALSE]
    /\ request_queue' = Schedule(request_queue,
                                 [page_id |-> p, frame |-> page_table[p], caller |-> caller])
    /\ UNCHANGED <<page_table, free_list, next_page_id, replacer, disk>>

\* A caller's scheduled request has been served: its promise is set.
RequestDone(caller) == \A i \in 1..Len(request_queue) : request_queue[i].caller # caller

\* Mutation of DiskWorker: the request is served but never taken off the
\* queue, so its promise is never seen as set.
DiskWorkerNoPop ==
    /\ request_queue # <<>>
    /\ disk' = ApplyRequest(disk, Head(request_queue))
    /\ UNCHANGED <<page_table, free_list, pages, next_page_id, replacer, request_queue>>

\* DiskScheduler::StartWorkerThread: serve the front request.
DiskWorker ==
    /\ request_queue # <<>>
    /\ disk' = ApplyRequest(disk, Head(request_queue))
    /\ request_queue' = Tail(request_queue)
    /\ UNCHANGED <<page_table, free_list, pages, next_page_id, replacer>>

\* Mutation of DeletePage: replacer_->Remove(frame_id) is left out.
DeletePageNoRemove(p) ==
    /\ p \in DOMAIN page_table
    /\ pages[page_table[p]].pin_count = 0
    /\ LET f == page_table[p]
       IN  /\ disk' = IF pages[f].is_dirty THEN FlushedDisk(p, f) ELSE disk
           /\ request_queue' = IF pages[f].is_dirty THEN <<>> ELSE request_queue
           /\ pages' = [pages EXCEPT ![f].data = 0, ![f].is_dirty = FALSE]
           /\ page_table' = Erase(page_table, p)
           /\ replacer' = replacer
           /\ free_list' = Append(free_list, f)
    /\ UNCHANGED next_page_id

\* BufferPoolManager::DeletePage of a resident, unpinned page: flush if
\* dirty, zero the buffer, erase the mapping, remove the frame from the
\* replacer and append it to the free list.  (Not resident: true, pinned:
\* false, both without a change.)
DeletePage(p) ==
    /\ p \in DOMAIN page_table
    /\ pages[page_table[p]].pin_count = 0
    /\ LET f == page_table[p]
       IN  /\ disk' = IF pages[f].is_dirty THEN FlushedDisk(p, f) ELSE disk
           /\ request_queue' = IF pages[f].is_dirty THEN <<>> ELSE request_queue
           /\ pages' = [pages EXCEPT ![f].data = 0, ![f].is_dirty = FALSE]
           /\ page_table' = Erase(page_table, p)
           /\ replacer' = Replacer!Remove(replacer, f)
           /\ free_list' = Append(free_list, f)
    /\ UNCHANGED next_page_id

\* BufferPoolManager(pool_size, ...): every frame free, in order.
InitBPM ==
    /\ page_table = [p \in {} |-> 0]
    /\ free_list = [i \in 1..PoolSize |-> i - 1]
    /\ pages = [f \in FrameIds |-> [page_id |-> NoPage, pin_count |-> 0,
                                    is_dirty |-> FALSE, data |-> 0]]
    /\ next_page_id = 0
    /\ replacer = Replacer!InitReplacer
    /\ request_queue = <<>>
    /\ disk = [p \in {} |-> 0]

=============================================================================
