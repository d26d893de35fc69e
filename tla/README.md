# TLA+ models of MiniBusTub's storage core

This directory holds TLA+ models of the buffer pool and what it uses in
MiniBusTub: the LRU-K replacer, the buffer pool manager, the disk scheduler and
the page guards, the disk extendible hash table, and the table heap with the executors that change it. It also holds the TLC configurations that check them. Source
paths below are the repository's. Several sources are stored under unexpected
names:
- `buffer_pool_manager.cpp` is in `src/src/binder/CMakeLists.txt`, lines 20-256.
- `page_guard.cpp` follows the disk scheduler in `src/src/storage/disk/disk_scheduler.cpp`, lines 39-154.
- The replacer, buffer pool and scheduler headers are in `src/unnamed/part_003`.
- `disk_extendible_hash_table.cpp` is `src/unnamed/part_010`.
- `extendible_htable_header_page.cpp` follows the directory page in `src/src/storage/page/extendible_htable_directory_page.cpp`, lines 92-121.
- `disk_manager.cpp` follows the table heap in `src/src/storage/table/table_heap.cpp`, lines 144-357.
- `seq_scan_executor.cpp` and `delete_executor.cpp` are in `src/unnamed/part_002`, lines 18-59 and 183-242.

## The system

| Part | Source | What it does |
|---|---|---|
| Disk manager | `storage/table/table_heap.cpp` 144-357 | Reads and writes page-sized blocks of one file. A read that starts past the end of the file only logs. |
| Disk scheduler | `storage/disk/disk_scheduler.cpp` 1-38 | One worker thread takes `DiskRequest`s from a FIFO `Channel` and completes each one's promise. The destructor queues `std::nullopt` and joins it. |
| LRU-K replacer | `buffer/lru_k_replacer.cpp` | Per-frame access histories and evictable flags. `Evict` picks the largest backward k-distance. |
| Buffer pool manager | `binder/CMakeLists.txt` 20-256 | Frames, page table, free list and pin counts, all under one `latch_`. It is the only user of the replacer and the scheduler. |
| Page guards | `disk_scheduler.cpp` 39-154, `page_guard.h` | RAII pins, plus the page's reader/writer latch for the read and write variants. |
| Extendible hash table | `unnamed/part_010`, `storage/page/extendible_htable_*` | Header, directory and bucket pages, accessed only through guards. |
| Table heap | `storage/table/table_heap.cpp` 1-143 | A chain of table pages from `first_page_id_` to `last_page_id_`. `InsertTuple` appends to the last page or chains a new one. |
| Executors | `execution/*.cpp`, `unnamed/part_002` and others | Volcano iterators. Insert, update and delete change the table heap; update and delete read it through a sequential scan. |
| Catalog, shell | the rest | Table metadata; terminal I/O. |

How the parts interact:
- A client (the hash table, an executor, a test) asks the pool for a page and gets a guard.
- On a miss, the pool takes a free frame or a replacer victim. It flushes the victim if dirty, then reads the page.
- Both the flush and the read go through the scheduler, and the caller waits on the request's future.
- Every pool method except `FlushPage` and `FlushAllPages` holds `latch_` throughout, including across those waits.
- A client calling `FlushPage` holds no lock.

## Modules

- **`LRUKReplacer`** models `lru_k_replacer.cpp`.
  - The state `node_store_`, `current_timestamp_` and `evictable_size_` is one record.
  - Each method is an operator from record to record: `RecordAccess`, `SetEvictable`, `Remove` (with `RemoveAllowed`, its assert), `EvictChoices` and `Evict`. This lets the pool compose several calls in one atomic step, as the code does under `latch_`.
  - A standalone spec (`RecordAccessStep`, and so on) lets any caller make any call.
  - *Data abstraction:* `Evict` only compares timestamps with each other and with the current time, and reads only the k-th and the last element of a history. So the model keeps the k most recent accesses and the oldest (`Trim`), and renumbers all timestamps by rank after each access (`Renumber`). This keeps every comparison and makes the state finite with no bound on the counter.
  - *Undefined behaviour:* `early_timestamp` (line 29) is read before it is set when the first evictable node has k-distance 0. `EvictChoices` then allows both outcomes.
- **`BufferPoolManager`** models the pool's variables, the scheduler's queue and the page file (`disk`).
  - Each locked method is one action: `NewPage`, `FetchPageHit`, `FetchPageMiss`, `UnpinPage`, `DeletePage`.
  - A locked method doing I/O waits behind the FIFO queue, so it first applies the whole pending queue (`Drained`), then its own I/O (`FlushedDisk`).
  - A client's `FlushPage` is split at the `Schedule` call. `FlushPageSchedule` clears the dirty bit and queues `[page, frame, caller]`.
  - `DiskWorker` serves the head of the queue. It copies the frame's buffer as it is *then*, as `WritePage(page_id_, data_)` does.
  - Contents are one value of `Values`; 0 is a zeroed buffer.
  - `disk` is the page file as a partial function from written block to contents. `WritePage` adds or replaces a block, and the file ends after the highest one (`FileEnd`). `ReadPage` follows `DiskManager::ReadPage`: a block at or before the end reads its contents, or zeros for a hole or for the block at the end. A block past the end leaves the buffer as it was, and `FetchPageMiss` reads into the victim frame's buffer.
- **`PageGuards`** adds client threads, each with `pc` and at most one `guard`.
  - Fetch and new pin the page under `latch_`. A read or write guard then waits for the page latch (`AcquireLatch`). The latch is derived from the guards, with `std::shared_mutex` rules (`LatchFree`).
  - `Upgrade` mirrors `UpgradeRead/Write`: the new guard's `is_dirty_` is false. `WriteData` is `GetDataMut`/`AsMut`, and `DropGuard` is `Drop`.
  - `FlushPageCall` / `FlushPageReturn` are a client's `FlushPage` and its `future.get()`. `DeletePageCall` is a client's `DeletePage`, and `Worker` is the scheduler thread.
  - `FlushAllPagesCall` / `FlushAllPagesNext` are `FlushAllPages` (lines 199-203). The call takes the keys of `page_table_` (`flush_all[t]`), and each step flushes one of them in any order. A key whose page has been deleted or evicted since makes `FlushPage` return false.
  - `DestroyScheduler` is `~DiskScheduler` (lines 12-18), run once every client is idle. It queues the `std::nullopt` sentinel behind the pending requests and joins. `WorkerExit` is the worker popping the sentinel (lines 24-27). After that nothing runs (`Exited`).
- **`GuardLifecycle`** models the guard objects themselves. Each thread has four guard variables, one basic, one read and two write (`Slots`, `SlotType`). A variable holds `[bpm, frame, page, is_dirty]`, and the page latches are explicit (`rlatch`, `wlatch`), because a guard can lose its latch.
  - `NewPageGuarded`, `FetchPageBasic` and `FetchPageLatched` are the wrappers, including the null page when the pool has no frame (`FetchFails`, `NoFrameAvailable`). A read or write fetch blocks (`wait`) until `AcquireLatch`.
  - `Upgrade`, `WriteData`, `MoveConstruct`, `MoveAssign`, `Drop` and `Destroy` are the guard methods, the destructor running at the end of a variable's scope.
  - `fault` records the first undefined act: a dereference of a null `Page*`, or an unlock of a latch that is not held.
  - Three constants switch on uses that no caller in the repository makes: move-assigning onto a guard that still holds a page (`ReassignLive`), dropping a read or write guard twice (`DropTwice`), and fetching from a pool whose frames are all pinned (`PoolMayRunOut`).
- **`PageStore`** is what the pool promises (spec.md 4.4): consecutive page ids, each page zeroed at allocation and reading back the last value written. `PageGuards` maps to it with `store[p] = PageValue(p)`: the frame's contents if `p` is resident, otherwise `Drained[p]`.
- **`ExtendibleHTablePages`** models the header, directory and bucket pages as records with pure operators, one per method that changes or computes something. A hash is `HashBits` wide instead of 32, so "the top `max_depth_` bits" (header) and "the low `global_depth_` bits" (directory) keep their meaning.
  - `GetLocalDepthMask` reads `bucket_page_ids_[i]` as the depth, as line 85 does.
  - A bucket's `array_[0 .. size_-1]` is a sequence, and `Remove` swaps the entry with the last one and drops it.
- **`DiskExtendibleHashTable`** models `part_010`. Its state is `pages` (page id -> header, directory or bucket record), the pool's `next_page_id` and `last` (the last call and its result).
  - `Init` is the constructor: page 0 becomes the header.
  - `GetValue`, `Insert` and `Remove` are each one atomic step. Every method holds its page latches from the first fetch to the return, so for one caller at a time the method is atomic.
  - `Insert` translates the whole method: `InsertToNewDirectory` and `InsertToNewBucket` for an empty header slot, and for a full bucket the split (`SplitInsert`, `SplitDirectory`, `UpdateDirectoryMapping`) with the split image and the mask taken before the increments.
  - `MigrateEntries` is a recursive operator with the code's `i++` / `tmp_size--` loop.
  - Every `NewPageGuarded` consumes a page id, including the one leaked when the directory is full. `MaxPages` names the bound, and an `Insert` needing more pages is disabled.
  - `Hash()` is declared but has no body in the repository, so it is the constant function `HashOf`.
  - The pages' getters (`GetDirectoryPageId`, `GetGlobalDepth`, `GetLocalDepth`, `GetBucketPageId`, `BucketSize`, `KeyAt`, `ValueAt`) are operators too. `DiskExtendibleHashTable` reads the pages only through them, as `part_010` does.
- **`KVMap`** is what the table promises (spec.md 4.9): a map with unique keys. `Insert` of an absent key returns true and adds it; `Insert` may also return false and change nothing; `Remove` and `GetValue` report presence. `DiskExtendibleHashTable` maps to it with `kv[k]` = what `GetValue(k)` would find.
- **`TableHeap`** models `table_heap.cpp` lines 1-143 as `tpages` (page id -> next page id and tuples in slot order), `last_page_id` and the next page id `NewPage` will hand out.
  - `InsertTupleOutcome` is the whole `InsertTuple`: append to the last page if `HasRoom`, otherwise chain a new page, make it last and append there. `InsertTuple` holds `latch_` throughout, so an insert is one step.
  - `UpdateTupleMeta` and `GetTuple` each latch one page and are one step.
  - `TablePage` and `TableIterator` have no code in the repository. A page holds `PageCapacity` tuples. The iterator (`IterStart`, `IterNext`, `IterEnd`) walks the slots from `{first_page_id_, 0}` along the next page ids and ends at the stop RID or at a page with no next page.
- **`HeapExecutors`** runs one query per thread over one `TableHeap`. `pc` follows each executor through its loop:
  - `MakeIteratorLast` and `MakeIteratorStop` are the two halves of `MakeIterator` (`SeqScanExecutor::Init`). The first reads `last_page_id_` under `latch_`; the second reads that page's tuple count later, under the page latch only.
  - `ScanNext` is one iteration of `SeqScanExecutor::Next`'s loop: it stops at the end, skips a deleted or filtered tuple, or returns the tuple to the parent.
  - `MarkDeleted` is the delete and update executors' `GetTupleMeta`, `is_deleted_ = true` and `UpdateTupleMeta`. `UpdateInsert` inserts the updated tuple; `InsertNext` inserts the next value of the insert's child.
  - Tuples carry a ghost field `by`, the thread that inserted them. Only properties read it.
  - The table has one index on its value, `index` (key -> RID). `HashTableIndexForTwoIntegerColumn` has no code in the repository, so it is modelled from its use (`InsertEntry` keeps a key already present, `DeleteEntry` removes the key whatever the RID, `ScanKey` finds at most one RID).
  - Each executor's index loop is a step of its own after its heap call, as in the code: `InsertIndex` after `InsertNext`, `UpdateIndexDelete` and `UpdateIndexInsert` after `UpdateInsert`, and `DeleteIndex` after `MarkDeleted`. `insert_rid` is the RID `InsertTuple` returned.
  - `IndexScanInit` and `IndexScanNext` are `IndexScanExecutor`: `Init` takes the RIDs `ScanKey` finds once, and `Next` returns `GetTuple` of each without reading its meta.
  - The insert's child is a `ValuesExecutor`. Its `cursor_` (`values_cursor`) starts at 0 in `Init`, and `Next` returns the row at the cursor and advances it until the plan's rows run out (`ValuesExhausted`, `ValuesRow`).
- **`DiskManager`** models `disk_manager.cpp` (stored in `table_heap.cpp`, lines 144-357) as the database file `db` (block -> contents), the log file `log` (a sequence of bytes), each stream's badbit, `opened`, the counters and `flush_log_`.
  - `Init` is the constructor: `opened` is either value, because a name without `.` makes it return with no file open. An opened database may already hold a block.
  - `WritePage` writes `p * PageSize` and may fail with `IOErrors`, setting the badbit. Every later write and read on that stream then does nothing.
  - `ReadPage` follows the code's order of tests: an offset past the file size leaves the buffer, a bad stream leaves it, and a short read fills the rest with zeros. The offset is computed in an `IntWidth`-bit `int` (`IntOf`), as line 247 does.
  - `WriteLog` swaps `buffer_used`, counts the flush and appends; on failure `flush_log_` stays true. `ReadLog` reads `size` bytes at `offset` and pads a short read with zeros.
  - `ShutDown` closes both files; nothing runs after it.
  - `page_read` and `log_read` record each read's buffer, so that the properties can talk about what a read returned.
- **`MCLRUKReplacer`**, **`MCPageGuards`**, **`MCGuardLifecycle`**, **`MCDiskExtendibleHashTable`** and **`MCHeapExecutors`** give the constants values for TLC. In `MCDiskExtendibleHashTable`, a key is its own 3-bit hash. `MCHeapExecutors` runs `INSERT` of 1, 2 and 1, `UPDATE` of every row swapping 1 and 2, `DELETE` of the rows holding 2, and an index scan of key 2. `MCDiskManager` has two log buffers as model values.

## Runs

| Run | cfg | Expect | Shows |
|---|---|---|---|
| replacer | `MCLRUKReplacer.cfg` | pass | 3 frames, k = 2, any call sequence (103,726 states). `EvictFollowsLRUK`: every frame `Evict` may return is one the reference LRU-K definition (over sets of access times) selects. `EvictSucceedsIffEvictable`: `Evict` fails exactly when `Size()` is 0. |
| replacer_k1 | `MCLRUKReplacerK1.cfg` | violation | With k = 1, a frame is accessed and made evictable, and `Evict` may return false. This is the uninitialised `early_timestamp` at line 45. |
| guards | `MCPageGuards.cfg` | pass | 2 threads, 1 frame, 2 pages, values {0,1} (21,956 states). See the list below. |
| guard_lifecycle | `MCGuardLifecycle.cfg` | pass | 2 threads with four guard variables each, 1 frame, 2 pages, under the repository's client discipline (312,619 states). `PinsMatchGuards`: every pin belongs to exactly one live guard. `LatchesMatchGuards`: every shared and exclusive page latch is held by exactly the live read and write guards on that page. `NoUndefinedGuardUse`: no guard operation dereferences null or unlocks an unheld latch. |
| guards_null_page | `MCGuardLifecycleNullPage.cfg` | violation | `NoUndefinedGuardUse` fails. t1 pins the only frame with `NewPageGuarded`. t2's `NewPageGuarded` gets `nullptr` from `NewPage` and wraps it, and `AsMut` writes through the null page. Run with `PoolMayRunOut FALSE`, the same cfg shows the second finding: `NewPageGuarded`, `UpgradeRead`, `Drop`, `Drop` dereferences the null `page_` at line 123, although spec.md 4.5 says repeated drops are safe. |
| guards_refine | `MCPageGuardsRefine.cfg` | violation | `RefinesPageStore` fails with a single thread. The thread writes through a basic guard, upgrades (so `is_dirty_` is false) and drops. Allocating the next page then evicts the frame with no flush, and page 0 reads back 0. Removing the upgrade reset exposes the second cause, `UnpinPage` assigning the dirty bit: write, dirty unpin, re-fetch, clean unpin, eviction. |
| guards_flush_race | `MCPageGuardsFlushRace.cfg` | violation | `QueuedWritesMatchFrames` fails. A client's `FlushPage` of page 0 is queued, another thread's `NewPage` reuses the frame for page 1, and the worker will write page 1's buffer into page 0's block. |
| guards_stale_read | `MCPageGuardsStaleRead.cfg` | violation | `FramesLoadStoredPages` fails: a fetch that loads a page leaves its frame holding something other than that page's stored contents. Page 0 is written and flushed, so the file is one block long. Pages 1 and 2 are created and evicted clean, and page 0 is read back in. Fetching page 2 then reads past the end of the file, which leaves the frame with page 0's bytes. The violation remains with the `Upgrade` bug removed. |
| hash_table | `MCDiskExtendibleHashTable.cfg` | pass | Keys 0-4, two-entry buckets, header depth 1, directory depth 2, 7 pages (22,899 states). `DirectoryIntegrity`: in every linked directory, local depths are at most the global depth, and slots sharing a bucket agree on its depth and low bits, with exactly 2^(gd-ld) of them. `BucketsWellFormed`: no linked bucket overflows or holds a key twice. |
| hash_table_refine | `MCDiskExtendibleHashTableRefine.cfg` | violation | `RefinesKVMap` fails with the hash table run's bounds (two-entry buckets). Four findings, each exposed once the earlier ones are corrected in a copy of the model. First, `Insert` returns true for a duplicate key that the bucket rejected (line 185). Then the split's mask comes from `GetLocalDepthMask`, which reads a page id as the depth, so 3 lands where `GetValue` does not look. Then `MigrateEntries` skips the entry `Remove` swapped in (line 255). Last, the line-157 test that never holds splits a bucket without touching the directory, and the moved entries disappear. |
| heap_executors | `MCHeapExecutors.cfg` | pass | `INSERT`, `UPDATE`, `DELETE` and an index scan run concurrently on pages of two tuples, with up to four pages and an index on the value (116,010 states). `ChainComplete`: the chain from the first page holds every allocated page in order and ends at `last_page_id_`. `NoRescanOfOwnInserts` (the Halloween problem): the scan never hands the update a tuple the update inserted itself. `IndexMatchesHeap`: every index entry names an existing slot whose tuple holds the entry's key, even with the index steps interleaved. `QueriesFinish`: every query returns. |
| disk_manager | `MCDiskManager.cfg` | pass | Blocks 0-2 of two bytes in a 4-bit `int`, values {0,1}, two log buffers, writes of up to 2 bytes, a 3-byte log, two calls of each kind and I/O errors allowed (886,480 states). `PageReadBack`: a successful read of a block at or before the end of the file returns what was last written there, or zeros. `LogReadBack`: `ReadLog` returns true exactly when the file is open, the stream is good and the offset is inside the log, and then returns the log's bytes padded with zeros. |

What the `guards` run checks:
- pin counts equal live guards (`PinsMatchGuards`);
- a guard's frame still holds its page and the page table maps it there (`GuardsKeepTheirPage`);
- each frame is either free (exactly once) or mapped by the one page it holds (`FrameAccounting`);
- the replacer knows exactly the resident frames, and flags as evictable exactly those with pin 0, with a matching counter (`ReplacerMatchesPins`);
- every client `FlushPage` and `FlushAllPages` returns (`FlushReturns`), although pages are evicted and deleted during the loop.

The scheduler's shutdown is modelled and fires in this run, but no property is checked on it. In the model the worker exits only on an empty queue, so "join returns after every pending write" would hold by the model's shape.

The move assignment of a read or write guard onto a guard that still holds a page is not a run: no caller does it. With `ReassignLive TRUE` in `MCGuardLifecycle.cfg`, `LatchesMatchGuards` fails in 7 steps, because `BasicPageGuard::operator=` unpins the old page but leaves it latched (hazard at `disk_scheduler.cpp:118` in `PROJECT.json`).

Each property of a passing run has a mutant in `PROJECT.json`: a plausible code slip that TLC shows breaks it. The slips are:
- `++next_page_id_` for `next_page_id_++`;
- a fetch hit that does not pin;
- an unpin that makes the frame evictable at any count;
- eviction that keeps the old mapping;
- `DeletePage` without `Remove`;
- a worker that never pops;
- `Remove` without its lookup;
- k-distance off by one;
- `SetEvictable` without its decrement;
- `IncrGlobalDepth` copying the bucket ids but not the local depths;
- a bucket `Insert` without the duplicate scan;
- `InsertToNewDirectory` counting its two pages as one;
- a `GetNextTupleOffset` test that lets one tuple too many into a page;
- `InsertTuple` chaining the new page without making it `last_page_id_`;
- the scan built with `MakeEagerIterator` (stop RID at the end of the chain);
- the scan skipping a deleted tuple without `++(*itr_)`;
- `NewPageGuarded` recording `next_page_id_` after the increment;
- a move constructor that does not reset its source;
- a destructor that skips the unlatch;
- an update whose new index entry takes the old tuple's RID;
- `WritePage` writing the next block;
- `ReadPage` treating an offset at the file size as past the end;
- `ReadLog` accepting an offset at the end of the log;
- a `ReadPageGuard::Drop` without its null test.

## Bounds

- **One frame and two pages** make every fetch of the other page an eviction. Two threads can then both pin a page, contend for its latch, and race a pending flush against reuse.
- **The guard lifecycle run** has the same frame and pages, with four guard variables per thread. That is enough for two write guards on one page to contend, and for every move between variables of the same type. Thread symmetry is sound there because no liveness property is checked. With two frames it does not finish within minutes. `Evict`'s choice among frames is covered by the replacer run.
- **`PageGuards` has no symmetry:** with it, TLC reports a spurious `FlushReturns` counterexample, so the thread permutations are explored in full.
- **Values {0,1}** are enough to tell a lost write from a kept one.
- **k = 2 and three frames** for the replacer reach histories of length 1, k and k+1 with ties among +inf frames. k = 1 is run separately because it is where the undefined comparison bites.
- **The hash table run** has five keys with 3-bit hashes. Four share the top bit, so one directory grows to its full four slots and the max-depth `return false` happens. Key 4 takes the second header slot. Two-entry buckets make migration move and keep entries; one-entry buckets (the refine run) reach the failed re-insert in two steps. Seven pages allow two directories and four splits.
- **The heap run** uses two-tuple pages. The insert's three tuples and the update's new versions chain up to three pages while the other scans are still walking the chain. A scan's stop RID can be taken before, between or after the other queries' inserts, and each tuple can be updated, deleted, both or neither. `MaxHeapPages = 4` is never the limit: at most six tuples are inserted.
- **The index** sees the duplicate key 1 (the second insert of 1 is not indexed), updates that delete and re-insert keys, and deletes racing the insert's index step. The index scan of key 2 can run before, during or after all of these.
- **The disk manager run** has three blocks, so a write can leave a hole before it, and two calls of each kind. A 4-bit `int` holds every modelled offset (at most 4). With 3 bits the offset of block 2 wraps to -4, and `PageReadBack` fails (the numeric hazard in `PROJECT.json`).
- `MaxPages` bounds `next_page_id_`: `NewPage` is disabled at the bound, and nothing else stops.
- Deadlock is checked in every passing run.

## Fairness

- **`WF` on `Worker`:** the scheduler's thread loops for its lifetime, blocked only on an empty channel.
- **`WF` on each thread's `FlushPageReturn` and `FlushAllPagesNext`:** a thread in `future.get()` wakes once its promise is set, and `FlushAllPages`' loop runs on its own thread without waiting for anything else.
- `DestroyScheduler` has no fairness: the owner may keep the pool forever. Once it runs, `WF` on `Worker` makes the worker reach the sentinel.
- **`WF` on each executor thread's `Step`:** a query runs its loop to the end on its own thread. No executor step waits for another thread except on a latch that its holder releases within the same step.
- `HeapExecutors`' `Next` stutters once every query is done (`Finished`), which is where the program stops. Deadlock checking would otherwise report it.
- Nothing else is assumed. The `PageGuards` client threads may stop at any time.

## Not modelled, and why

- **What happens to `FlushAllPages`' iterator** when another thread rehashes `page_table_` is undefined behaviour. The model assumes the loop visits the keys resident when it began.
- **The window inside `FetchPage` and `NewPage`:** both set `page_table_[page_id]` (lines 141 and 89) before the frame holds the page, under `latch_` only. `FetchPageMiss` and `NewPage` are each one step, so a client `FlushPage` (no `latch_`) cannot run in between. In the code it can, and it can queue the frame's old bytes for the new page's block ahead of the read (hazard in `PROJECT.json`).
- **Torn page writes:** contents are atomic values in the model.
- **Who calls the disk manager's log:** `WriteLog` and `ReadLog` are called only by a log manager that is not in the repository. `DiskManager` models them, but nothing states what a caller needs from a flush that failed.
- **The disk manager under the pool:** `BufferPoolManager` keeps its own `disk`, which follows `ReadPage`'s rules with no I/O errors. The two are not composed.
- **Headers that only declare:** `table_heap.h`, `page_guard.h`'s accessors, `disk_extendible_hash_table.h` and `table_generator.h` add no behaviour beyond the modelled `.cpp` code.
- **`TablePage`'s byte layout:** it has no code in the repository. A page is modelled as a capacity in tuples.
- **The index's own code:** `HashTableIndexForTwoIntegerColumn` is not in the repository, so the index is a map and not a `DiskExtendibleHashTable` over the pool.
- **Other executors, optimizer, catalog, table generator, `BustubInstance`, shell and formatting:** aggregation, projection, and the `OptimizeSeqScanAsIndexScan` rule are single-threaded transformations of tuples and plans. The rest is I/O.
- **Concurrent access to one tuple:** the code has no lock manager, so an update and a delete can both act on the same tuple. Nothing in the code or spec promises isolation, so no property states it.
- **Concurrent hash table callers:** each method is atomic in `DiskExtendibleHashTable`. Remove's unlatched header read and the latch order matter only once methods interleave through `PageGuards`.
- **Directory shrinking:** `DecrGlobalDepth`, `DecrLocalDepth` and `CanShrink` are never called, and `Remove` never merges. Bucket `RemoveAt` and header `MaxSize` are never called either.

`PROJECT.json` lists every component, the hazards of this code with the properties that cover them, and the findings.

## Plan

1. **DiskScheduler** as its own module: read requests, and the caller-side promise, refining an atomic disk.
2. **Latch-order deadlock** between threads holding several read and write guards, with `GuardLifecycle`'s waits.
3. **Concurrent hash table:** run `DiskExtendibleHashTable`'s methods as threads over `PageGuards`, for `Remove`'s unlatched header read, latch order and pool exhaustion.
4. **The index as the hash table:** replace `HeapExecutors`' map by `DiskExtendibleHashTable`, once the hash table's methods run as threads.
5. **Disk manager under the pool:** drive `DiskManager` from the scheduler's worker, with I/O errors.
