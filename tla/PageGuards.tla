----------------------------- MODULE PageGuards -----------------------------
(***************************************************************************)
(* Client threads using the buffer pool through page guards               *)
(* (src/include/storage/page/page_guard.h, page_guard.cpp stored in        *)
(* src/src/storage/disk/disk_scheduler.cpp lines 39-154) and the guarded   *)
(* fetch/new wrappers of BufferPoolManager, plus the unguarded client      *)
(* calls FlushPage and DeletePage.                                         *)
(*                                                                         *)
(* Each thread holds at most one guard.  A Read or Write guard is made in  *)
(* two steps, as in FetchPageRead/FetchPageWrite and UpgradeRead/Write:    *)
(* the page is pinned under latch_, then, with latch_ released, the page's *)
(* reader/writer latch is acquired, which may block.  The page latch is    *)
(* the Page object's, i.e. the frame's, and it is derived from the guards: *)
(* a thread in "hold" with a read or write guard holds it.                 *)
(***************************************************************************)
EXTENDS BufferPoolManager

CONSTANTS
    Threads,        \* client threads
    NoGuard         \* model value: the thread holds no guard

VARIABLES
    guard,          \* guard[t]: [page, frame, mode, is_dirty] or NoGuard
    pc,             \* "idle", "latch" (waiting for the page latch), "hold",
                    \* "flush", "flush_all" (inside FlushAllPages' loop)
    flush_all,      \* flush_all[t]: pages FlushAllPages has still to flush
    sentinel,       \* std::nullopt is in request_queue_, behind every request
    scheduler       \* "running", "joining" (destructor in join()), "exited"

vars == <<bpm_vars, guard, pc, flush_all, sentinel, scheduler>>

Modes == {"basic", "read", "write"}

Guard == [page : PageIds, frame : FrameIds, mode : Modes, is_dirty : BOOLEAN]

\* Threads holding frame f's page latch, in the given modes.
Latched(f, modes) ==
    {t \in Threads : pc[t] = "hold" /\ guard[t] # NoGuard
                     /\ guard[t].frame = f /\ guard[t].mode \in modes}

\* std::shared_mutex: a reader waits for writers, a writer for everyone.
LatchFree(t) ==
    IF guard[t].mode = "read"
    THEN Latched(guard[t].frame, {"write"}) = {}
    ELSE Latched(guard[t].frame, {"read", "write"}) = {}

Init ==
    /\ InitBPM
    /\ guard = [t \in Threads |-> NoGuard]
    /\ pc = [t \in Threads |-> "idle"]
    /\ flush_all = [t \in Threads |-> {}]
    /\ sentinel = FALSE
    /\ scheduler = "running"

-----------------------------------------------------------------------------
\* A call is only made while the buffer pool, and so its scheduler, exists;
\* the destructor runs once every client is idle, so no call is midway.
Running == scheduler = "running"

\* State only the flush loop and the scheduler's shutdown change.
aux_vars == <<flush_all, sentinel, scheduler>>

\* BufferPoolManager::NewPageGuarded: a basic guard on the new page.
NewPageGuarded(t) ==
    /\ pc[t] = "idle"
    /\ Running
    /\ \E f \in FrameIds :
          /\ NewPage(f)
          /\ guard' = [guard EXCEPT ![t] = [page |-> next_page_id, frame |-> f,
                                            mode |-> "basic", is_dirty |-> FALSE]]
    /\ pc' = [pc EXCEPT ![t] = "hold"]
    /\ UNCHANGED aux_vars

\* FetchPageBasic / FetchPageRead / FetchPageWrite of an allocated page:
\* FetchPage pins it; the Read and Write variants then wait for the latch.
FetchPageGuarded(t) ==
    /\ pc[t] = "idle"
    /\ Running
    /\ \E p \in 0 .. next_page_id - 1, mode \in Modes :
          /\ \/ /\ FetchPageHit(p)
                /\ guard' = [guard EXCEPT ![t] = [page |-> p, frame |-> page_table[p],
                                                  mode |-> mode, is_dirty |-> FALSE]]
             \/ \E f \in FrameIds :
                   /\ FetchPageMiss(p, f)
                   /\ guard' = [guard EXCEPT ![t] = [page |-> p, frame |-> f,
                                                     mode |-> mode, is_dirty |-> FALSE]]
          /\ pc' = [pc EXCEPT ![t] = IF mode = "basic" THEN "hold" ELSE "latch"]
    /\ UNCHANGED aux_vars

\* page_->RLatch() / WLatch() returns.
AcquireLatch(t) ==
    /\ pc[t] = "latch"
    /\ LatchFree(t)
    /\ pc' = [pc EXCEPT ![t] = "hold"]
    /\ UNCHANGED <<bpm_vars, guard, aux_vars>>

\* BasicPageGuard::UpgradeRead / UpgradeWrite: the pin moves to a new
\* guard built from (bpm_, page_), whose is_dirty_ starts false; then the
\* latch is taken.
Upgrade(t) ==
    /\ pc[t] = "hold"
    /\ guard[t] # NoGuard
    /\ guard[t].mode = "basic"
    /\ \E mode \in {"read", "write"} :
          guard' = [guard EXCEPT ![t].mode = mode, ![t].is_dirty = FALSE]
    /\ pc' = [pc EXCEPT ![t] = "latch"]
    /\ UNCHANGED <<bpm_vars, aux_vars>>

\* AsMut / GetDataMut through a basic or write guard, then a write.
WriteData(t) ==
    /\ pc[t] = "hold"
    /\ guard[t] # NoGuard
    /\ guard[t].mode \in {"basic", "write"}
    /\ \E v \in Values :
          pages' = [pages EXCEPT ![guard[t].frame].data = v]
    /\ guard' = [guard EXCEPT ![t].is_dirty = TRUE]
    /\ UNCHANGED <<page_table, free_list, next_page_id, replacer, request_queue, disk, pc,
                   aux_vars>>

\* Drop (or the destructor): release the page latch, then
\* BasicPageGuard::Drop, which unpins page_->GetPageId() with the guard's
\* dirty flag unless the frame's pin count is already zero.
DropGuard(t) ==
    /\ pc[t] = "hold"
    /\ guard[t] # NoGuard
    /\ LET f == guard[t].frame
       IN  IF pages[f].pin_count <= 0
           THEN UNCHANGED bpm_vars
           ELSE UnpinPage(pages[f].page_id, guard[t].is_dirty)
    /\ guard' = [guard EXCEPT ![t] = NoGuard]
    /\ pc' = [pc EXCEPT ![t] = "idle"]
    /\ UNCHANGED aux_vars

\* A client's BufferPoolManager::FlushPage of a resident page: the request
\* is scheduled and the thread waits on its future.
FlushPageCall(t) ==
    /\ pc[t] = "idle"
    /\ Running
    /\ \E p \in 0 .. next_page_id - 1 : FlushPageSchedule(p, t)
    /\ pc' = [pc EXCEPT ![t] = "flush"]
    /\ UNCHANGED <<guard, aux_vars>>

\* future.get() returns once the worker served the request; inside
\* FlushAllPages the loop goes on with the next page.
FlushPageReturn(t) ==
    /\ pc[t] = "flush"
    /\ RequestDone(t)
    /\ pc' = [pc EXCEPT ![t] = IF flush_all[t] = {} THEN "idle" ELSE "flush_all"]
    /\ UNCHANGED <<bpm_vars, guard, aux_vars>>

\* BufferPoolManager::FlushAllPages (lines 199-203): FlushPage for each
\* key of page_table_, read without latch_.  The iteration is modelled as
\* visiting, in any order, the pages resident when it began.
FlushAllPagesCall(t) ==
    /\ pc[t] = "idle"
    /\ Running
    /\ DOMAIN page_table # {}
    /\ flush_all' = [flush_all EXCEPT ![t] = DOMAIN page_table]
    /\ pc' = [pc EXCEPT ![t] = "flush_all"]
    /\ UNCHANGED <<bpm_vars, guard, sentinel, scheduler>>

\* One iteration: FlushPage(p) schedules and waits, or returns false when
\* p has left the page table since; after the last key the call returns.
FlushAllPagesNext(t) ==
    /\ pc[t] = "flush_all"
    /\ \E p \in flush_all[t] :
          /\ flush_all' = [flush_all EXCEPT ![t] = @ \ {p}]
          /\ IF p \in DOMAIN page_table
             THEN FlushPageSchedule(p, t) /\ pc' = [pc EXCEPT ![t] = "flush"]
             ELSE /\ pc' = [pc EXCEPT ![t] = IF flush_all'[t] = {} THEN "idle" ELSE "flush_all"]
                  /\ UNCHANGED bpm_vars
    /\ UNCHANGED <<guard, sentinel, scheduler>>

\* A client's BufferPoolManager::DeletePage of an unpinned resident page.
DeletePageCall(t) ==
    /\ pc[t] = "idle"
    /\ Running
    /\ \E p \in 0 .. next_page_id - 1 : DeletePage(p)
    /\ UNCHANGED <<guard, pc, aux_vars>>

\* DiskScheduler::~DiskScheduler (disk_scheduler.cpp lines 12-18), run
\* when the buffer pool is destroyed after its clients have returned:
\* Put(std::nullopt) behind the pending requests, then join the worker.
DestroyScheduler ==
    /\ Running
    /\ \A t \in Threads : pc[t] = "idle"
    /\ sentinel' = TRUE
    /\ scheduler' = "joining"
    /\ UNCHANGED <<bpm_vars, guard, pc, flush_all>>

\* The worker's Get() returns std::nullopt once every earlier request has
\* been served, and StartWorkerThread returns (lines 24-27).
WorkerExit ==
    /\ sentinel /\ request_queue = <<>>
    /\ sentinel' = FALSE
    /\ scheduler' = "exited"
    /\ UNCHANGED <<bpm_vars, guard, pc, flush_all>>

\* The worker thread: serve the front request, or exit on the sentinel.
Worker ==
    \/ DiskWorker /\ UNCHANGED <<guard, pc, aux_vars>>
    \/ WorkerExit

\* After the join returns nothing runs any more.
Exited == scheduler = "exited" /\ UNCHANGED vars

Next ==
    \/ \E t \in Threads :
          \/ NewPageGuarded(t)
          \/ FetchPageGuarded(t)
          \/ AcquireLatch(t)
          \/ Upgrade(t)
          \/ WriteData(t)
          \/ DropGuard(t)
          \/ FlushPageCall(t)
          \/ FlushPageReturn(t)
          \/ FlushAllPagesCall(t)
          \/ FlushAllPagesNext(t)
          \/ DeletePageCall(t)
    \/ Worker
    \/ DestroyScheduler
    \/ Exited

\* The worker thread loops for the scheduler's lifetime, a thread blocked
\* in future.get() wakes once its promise is set, and FlushAllPages' loop
\* runs on.  The destructor itself is not forced: the owner may keep the
\* buffer pool for ever.
Fairness ==
    /\ WF_vars(Worker)
    /\ \A t \in Threads : WF_vars(FlushPageReturn(t)) /\ WF_vars(FlushAllPagesNext(t))

Spec == Init /\ [][Next]_vars /\ Fairness

-----------------------------------------------------------------------------
(***************************************************************************)
(* Properties.                                                             *)
(***************************************************************************)
Holders(f) == {t \in Threads : guard[t] # NoGuard /\ guard[t].frame = f}

TypeOK ==
    /\ DOMAIN page_table \subseteq PageIds
    /\ \A p \in DOMAIN page_table : page_table[p] \in FrameIds
    /\ free_list \in Seq(FrameIds)
    /\ pages \in [FrameIds -> [page_id : PageIds \cup {NoPage}, pin_count : Nat,
                               is_dirty : BOOLEAN, data : Values]]
    /\ next_page_id \in 0 .. MaxPages
    /\ request_queue \in Seq([page_id : PageIds, frame : FrameIds, caller : Threads])
    /\ DOMAIN disk \subseteq PageIds /\ \A p \in DOMAIN disk : disk[p] \in Values
    /\ guard \in [Threads -> Guard \cup {NoGuard}]
    /\ pc \in [Threads -> {"idle", "latch", "hold", "flush", "flush_all"}]
    /\ flush_all \in [Threads -> SUBSET PageIds]
    /\ scheduler \in {"running", "joining", "exited"}

\* The pin count of every frame (kept by FetchPage, NewPage and UnpinPage
\* under latch_) equals the number of live guards on it (made and dropped
\* by the guard classes outside latch_): no guard's unpin is lost or doubled,
\* whatever the interleaving of fetches, upgrades and drops.
PinsMatchGuards ==
    \A f \in FrameIds : pages[f].pin_count = Cardinality(Holders(f))

\* A guard's frame still holds the guard's page, and the page table still
\* maps that page to it: a pinned page is never evicted or deleted under a
\* guard, so no thread reads or writes another page through a stale Page*.
GuardsKeepTheirPage ==
    \A t \in Threads :
        guard[t] # NoGuard =>
            /\ pages[guard[t].frame].page_id = guard[t].page
            /\ guard[t].page \in DOMAIN page_table
            /\ page_table[guard[t].page] = guard[t].frame

\* Every frame is either on the free list (once) or holds exactly the page
\* the page table maps to it, never both: NewPage, FetchPage and DeletePage
\* move frames between the two without losing or duplicating one.
FrameAccounting ==
    /\ \A i, j \in 1..Len(free_list) : free_list[i] = free_list[j] => i = j
    /\ \A p \in DOMAIN page_table : pages[page_table[p]].page_id = p
    /\ \A f \in FrameIds :
          (\E i \in 1..Len(free_list) : free_list[i] = f)
              # (\E p \in DOMAIN page_table : page_table[p] = f)

\* The replacer knows exactly the resident frames, marks evictable exactly
\* those with pin count 0, and its Size() counter agrees: Evict can never
\* hand out a pinned frame, and DeletePage's Remove never asserts.
ReplacerMatchesPins ==
    LET ns == replacer.node_store
        resident == {page_table[p] : p \in DOMAIN page_table}
    IN  /\ DOMAIN ns = resident
        /\ \A f \in resident : ns[f].is_evictable <=> pages[f].pin_count = 0
        /\ replacer.evictable_size = Cardinality({f \in resident : ns[f].is_evictable})

\* A client's FlushPage and FlushAllPages return: the scheduler's worker
\* serves every request it is handed and sets its promise, and the loop
\* over the page table ends although other threads change it meanwhile.
FlushReturns ==
    \A t \in Threads : pc[t] \in {"flush", "flush_all"} ~> pc[t] = "idle"

\* A write request waiting in the scheduler's queue is for the page its
\* frame holds: the worker, when it copies the frame, copies that page.
QueuedWritesMatchFrames ==
    \A i \in 1..Len(request_queue) :
        pages[request_queue[i].frame].page_id = request_queue[i].page_id

\* Whenever a frame takes a page (NewPage, or FetchPage's read through the
\* scheduler and DiskManager::ReadPage), its buffer holds what the page file
\* holds for that page, zeros where nothing was written (spec.md 4.1: reads
\* past end-of-file return zeros).
FramesLoadStoredPages ==
    [][\A f \in FrameIds :
          LET p == pages'[f].page_id
          IN  p # pages[f].page_id /\ p # NoPage => pages'[f].data = DiskValue(disk', p)
      ]_<<pages, disk>>

\* The page store the buffer pool presents: a resident page reads as its
\* frame, any other page as the page file once pending writes are done.
PageValue(p) ==
    IF p \in DOMAIN page_table THEN pages[page_table[p]].data ELSE DiskValue(Drained, p)

Store == INSTANCE PageStore WITH
    store <- [p \in 0 .. next_page_id - 1 |-> PageValue(p)],
    allocated <- next_page_id

\* The buffer pool implements a page store: every page reads back the last
\* value written to it, across evictions, re-reads and flushes.
RefinesPageStore == Store!Spec

=============================================================================
