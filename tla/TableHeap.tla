------------------------------ MODULE TableHeap ------------------------------
(***************************************************************************)
(* TableHeap (src/src/storage/table/table_heap.cpp, lines 1-143): a chain *)
(* of table pages linked by next page ids, from first_page_id_ to          *)
(* last_page_id_.  InsertTuple holds the heap's latch_ for the whole call  *)
(* and the last page's write latch; every other method latches one page.   *)
(* Each method is therefore one atomic step, except MakeIterator, which    *)
(* reads last_page_id_ under latch_, unlocks, and only then reads that     *)
(* page's tuple count.                                                     *)
(*                                                                         *)
(* TablePage has no code in the repository: a page is modelled as its     *)
(* next page id and its tuples in slot order, and GetNextTupleOffset fails *)
(* when the page holds PageCapacity tuples.  A tuple is its is_deleted_   *)
(* flag, a value, and (ghost) the thread that inserted it.                 *)
(***************************************************************************)
EXTENDS Naturals, Sequences, TLC

CONSTANTS
    PageCapacity,   \* tuples a table page holds
    MaxHeapPages,   \* bound on the pages NewPage hands the heap
    InvalidPage     \* INVALID_PAGE_ID

HeapPageIds == 0 .. MaxHeapPages - 1

VARIABLES
    tpages,         \* page id -> [next_page_id, tuples] for the heap's pages
    last_page_id,   \* last_page_id_
    next_heap_page  \* the next page id NewPage returns to the heap

heap_vars == <<tpages, last_page_id, next_heap_page>>

\* The constructor took the first page from NewPageGuarded and Init'ed it.
FirstPageId == 0

TablePageInit == [next_page_id |-> InvalidPage, tuples |-> <<>>]

\* A slip: the offset test lets one tuple past the page's end.
HasRoomOffByOne(pg) == Len(pg.tuples) <= PageCapacity

\* GetNextTupleOffset(meta, tuple) # nullopt.
HasRoom(pg) == Len(pg.tuples) < PageCapacity

HeapInit ==
    /\ tpages = (FirstPageId :> TablePageInit)
    /\ last_page_id = FirstPageId
    /\ next_heap_page = FirstPageId + 1

\* A slip: the new page is chained but last_page_id_ is not moved to it.
InsertTupleKeepLast(tup) ==
    LET lp == tpages[last_page_id]
    IN  IF HasRoom(lp)
        THEN [tpages |-> [tpages EXCEPT ![last_page_id].tuples = Append(@, tup)],
              last |-> last_page_id, next |-> next_heap_page,
              rid |-> <<last_page_id, Len(lp.tuples)>>]
        ELSE LET np == next_heap_page
             IN  [tpages |-> (np :> [next_page_id |-> InvalidPage, tuples |-> <<tup>>]) @@
                             [tpages EXCEPT ![last_page_id].next_page_id = np],
                  last |-> last_page_id, next |-> np + 1, rid |-> <<np, 0>>]

\* InsertTuple (lines 46-96): the tuple goes into the last page if it has
\* room; otherwise a new page is chained after it (SetNextPageId, Init),
\* becomes last_page_id_, and takes the tuple.  The result is the new heap
\* state and the RID <<page, slot>>.  A page is never empty when it is found
\* full, so BUSTUB_ENSURE(GetNumTuples() != 0) cannot fire.
InsertTupleOutcome(tup) ==
    LET lp == tpages[last_page_id]
    IN  IF HasRoom(lp)
        THEN [tpages |-> [tpages EXCEPT ![last_page_id].tuples = Append(@, tup)],
              last |-> last_page_id, next |-> next_heap_page,
              rid |-> <<last_page_id, Len(lp.tuples)>>]
        ELSE LET np == next_heap_page
             IN  [tpages |-> (np :> [next_page_id |-> InvalidPage, tuples |-> <<tup>>]) @@
                             [tpages EXCEPT ![last_page_id].next_page_id = np],
                  last |-> np, next |-> np + 1, rid |-> <<np, 0>>]

\* The call is enabled while the page it may need is within the bound;
\* BUSTUB_ENSURE(next_page_id != INVALID_PAGE_ID) on a full pool is not
\* modelled.
CanInsert == HasRoom(tpages[last_page_id]) \/ next_heap_page < MaxHeapPages

\* UpdateTupleMeta (lines 98-102): the slot's meta is replaced.
UpdateTupleMeta(tp, deleted, rid) ==
    [tp EXCEPT ![rid[1]].tuples[rid[2] + 1].deleted = deleted]

\* GetTuple / GetTupleMeta (lines 104-116).
GetTuple(rid) == tpages[rid[1]].tuples[rid[2] + 1]

-----------------------------------------------------------------------------
(* TableIterator has no code in the repository.  MakeIterator gives it     *)
(* the range {first_page_id_, 0} .. {last_page_id, GetNumTuples()}: it     *)
(* starts at the first slot, follows next page ids, and ends on reaching   *)
(* the stop RID or a page with no next page, where the RID becomes        *)
(* {INVALID_PAGE_ID, 0}.                                                   *)

IterEnd == <<InvalidPage, 0>>

IterStart(stop) ==
    IF Len(tpages[FirstPageId].tuples) = 0 THEN IterEnd
    ELSE <<FirstPageId, 0>>

IterNext(rid, stop) ==
    LET pg == tpages[rid[1]]
        nx == <<rid[1], rid[2] + 1>>
    IN  IF nx = stop THEN IterEnd
        ELSE IF rid[2] + 1 < Len(pg.tuples) THEN nx
        ELSE IF pg.next_page_id = InvalidPage THEN IterEnd
        ELSE <<pg.next_page_id, 0>>

-----------------------------------------------------------------------------
(* The chain from first_page_id_, as a sequence of page ids.               *)

RECURSIVE ChainFrom(_, _)
ChainFrom(p, n) ==
    IF p = InvalidPage \/ n = 0 THEN <<>>
    ELSE <<p>> \o ChainFrom(tpages[p].next_page_id, n - 1)

Chain == ChainFrom(FirstPageId, next_heap_page)

=============================================================================
