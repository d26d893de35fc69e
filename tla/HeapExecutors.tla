---------------------------- MODULE HeapExecutors ----------------------------
(***************************************************************************)
(* The executors that change a table heap, each query on its own thread:   *)
(*   InsertExecutor  src/src/execution/insert_executor.cpp                 *)
(*   DeleteExecutor  src/unnamed/part_002 lines 183-242                    *)
(*   UpdateExecutor  src/src/execution/update_executor.cpp                 *)
(* with a SeqScanExecutor child (part_002 lines 18-59) for delete and      *)
(* update, and a ValuesExecutor child for insert.  Each heap call is one   *)
(* step; SeqScanExecutor::Next is one step per loop iteration.  The table *)
(* has one index on its value column, and each index call of the loops    *)
(* over GetTableIndexes is a step of its own; an IndexScanExecutor         *)
(* (index_scan_executor.cpp) reads the table through it.                   *)
(*                                                                         *)
(* Query[t] is the thread's statement: an insert of a sequence of values,  *)
(* a delete or update of the tuples whose value is in a filter set, the    *)
(* update replacing value v by SetTo[v], or an index scan for one key.     *)
(***************************************************************************)
EXTENDS TableHeap

CONSTANTS Threads, Vals, Query, SetTo

VARIABLES
    pc,         \* per thread: where its executor is (see TypeOK)
    snap_last,  \* MakeIterator's copy of last_page_id_
    stop,       \* the iterator's stop RID
    cursor,     \* the iterator's RID
    scanned,    \* the RID and tuple SeqScanExecutor::Next last returned
    values_cursor, \* the insert's ValuesExecutor: cursor_, the next row
    insert_rid, \* the RID the executor's last InsertTuple returned
    index,      \* the index: key -> RID
    ret_rids,   \* IndexScanExecutor's ret_rids_
    index_cursor \* IndexScanExecutor's cursor_

\* The state only the index calls and the index scan change.
idx_vars == <<insert_rid, index, ret_rids, index_cursor>>

vars == <<heap_vars, pc, snap_last, stop, cursor, scanned, values_cursor, idx_vars>>

NoRid == IterEnd

Init ==
    /\ HeapInit
    /\ pc = [t \in Threads |-> "init"]
    /\ snap_last = [t \in Threads |-> InvalidPage]
    /\ stop = [t \in Threads |-> NoRid]
    /\ cursor = [t \in Threads |-> IterEnd]
    /\ scanned = [t \in Threads |-> [rid |-> NoRid, val |-> CHOOSE v \in Vals : TRUE]]
    /\ values_cursor = [t \in Threads |-> 0]
    /\ insert_rid = [t \in Threads |-> NoRid]
    /\ index = [k \in {} |-> NoRid]
    /\ ret_rids = [t \in Threads |-> <<>>]
    /\ index_cursor = [t \in Threads |-> 0]

-----------------------------------------------------------------------------
(* The index, HashTableIndexForTwoIntegerColumn, has no code in the        *)
(* repository: it wraps a DiskExtendibleHashTable from key to RID, with    *)
(* InsertEntry as Insert (a key already present is kept), DeleteEntry as   *)
(* Remove of the key, whatever the RID, and ScanKey as GetValue.  It is    *)
(* taken here as the map KVMap says the table implements.                  *)

InsertEntry(ix, k, rid) == IF k \in DOMAIN ix THEN ix ELSE (k :> rid) @@ ix

DeleteEntry(ix, k) == [x \in DOMAIN ix \ {k} |-> ix[x]]

ScanKey(ix, k) == IF k \in DOMAIN ix THEN <<ix[k]>> ELSE <<>>

-----------------------------------------------------------------------------
(* Executor Init.  InsertExecutor::Init calls ValuesExecutor::Init, which  *)
(* only sets cursor_ = 0 (Init above); delete and update call              *)
(* SeqScanExecutor::Init, that is TableHeap::MakeIterator.                 *)

\* MakeIterator, first half (lines 119-121): last_page_id_ under latch_.
MakeIteratorLast(t) ==
    /\ pc[t] = "init"
    /\ Query[t].kind \in {"delete", "update"}
    /\ snap_last' = [snap_last EXCEPT ![t] = last_page_id]
    /\ pc' = [pc EXCEPT ![t] = "stop"]
    /\ UNCHANGED <<heap_vars, stop, cursor, scanned, values_cursor, idx_vars>>

\* A slip: SeqScanExecutor::Init uses MakeEagerIterator (line 128), whose
\* stop RID is {INVALID_PAGE_ID, 0}.
MakeIteratorStopEager(t) ==
    /\ pc[t] = "stop"
    /\ stop' = [stop EXCEPT ![t] = IterEnd]
    /\ cursor' = [cursor EXCEPT ![t] = IterStart(IterEnd)]
    /\ pc' = [pc EXCEPT ![t] = "scan"]
    /\ UNCHANGED <<heap_vars, snap_last, scanned, values_cursor, idx_vars>>

\* MakeIterator, second half (lines 123-125): the stop RID is that page's
\* tuple count now, and the iterator is built while the page is latched.
MakeIteratorStop(t) ==
    LET st == <<snap_last[t], Len(tpages[snap_last[t]].tuples)>>
    IN  /\ pc[t] = "stop"
        /\ stop' = [stop EXCEPT ![t] = st]
        /\ cursor' = [cursor EXCEPT ![t] = IterStart(st)]
        /\ pc' = [pc EXCEPT ![t] = "scan"]
        /\ UNCHANGED <<heap_vars, snap_last, scanned, values_cursor, idx_vars>>

-----------------------------------------------------------------------------
(* SeqScanExecutor::Next, one iteration of its loop (part_002 lines 29-59): *)
(* at the end it returns false and the parent returns its count; a deleted  *)
(* tuple, or one the filter rejects, is skipped; otherwise the tuple is     *)
(* returned to the parent and the iterator advanced.                        *)

Matches(t, tup) == tup.val \in Query[t].filter

\* A slip: a deleted tuple is skipped with continue but no ++(*itr_).
ScanNextNoAdvance(t) ==
    /\ pc[t] = "scan"
    /\ IF cursor[t] = IterEnd
       THEN /\ pc' = [pc EXCEPT ![t] = "done"]
            /\ UNCHANGED <<cursor, scanned>>
       ELSE LET tup == GetTuple(cursor[t])
            IN  IF tup.deleted THEN UNCHANGED <<pc, cursor, scanned>>
                ELSE IF ~Matches(t, tup)
                THEN /\ cursor' = [cursor EXCEPT ![t] = IterNext(cursor[t], stop[t])]
                     /\ UNCHANGED <<pc, scanned>>
                ELSE /\ scanned' = [scanned EXCEPT ![t] = [rid |-> cursor[t], val |-> tup.val]]
                     /\ cursor' = [cursor EXCEPT ![t] = IterNext(cursor[t], stop[t])]
                     /\ pc' = [pc EXCEPT ![t] = "child"]
    /\ UNCHANGED <<heap_vars, snap_last, stop, values_cursor, idx_vars>>

ScanNext(t) ==
    /\ pc[t] = "scan"
    /\ IF cursor[t] = IterEnd
       THEN /\ pc' = [pc EXCEPT ![t] = "done"]
            /\ UNCHANGED <<cursor, scanned>>
       ELSE LET tup == GetTuple(cursor[t])
            IN  IF tup.deleted \/ ~Matches(t, tup)
                THEN /\ cursor' = [cursor EXCEPT ![t] = IterNext(cursor[t], stop[t])]
                     /\ UNCHANGED <<pc, scanned>>
                ELSE /\ scanned' = [scanned EXCEPT ![t] = [rid |-> cursor[t], val |-> tup.val]]
                     /\ cursor' = [cursor EXCEPT ![t] = IterNext(cursor[t], stop[t])]
                     /\ pc' = [pc EXCEPT ![t] = "child"]
    /\ UNCHANGED <<heap_vars, snap_last, stop, values_cursor, idx_vars>>

\* DeleteExecutor and UpdateExecutor, for the tuple the scan returned:
\* GetTupleMeta, is_deleted_ = true, UpdateTupleMeta (each a page-latched
\* call; the meta holds nothing another executor changes otherwise).
\* Delete then asks the scan for the next tuple; update inserts the new one.
MarkDeleted(t) ==
    /\ pc[t] = "child"
    /\ tpages' = UpdateTupleMeta(tpages, TRUE, scanned[t].rid)
    /\ pc' = [pc EXCEPT ![t] = IF Query[t].kind = "update" THEN "insert" ELSE "del_index"]
    /\ UNCHANGED <<last_page_id, next_heap_page, snap_last, stop, cursor, scanned, values_cursor,
                   idx_vars>>

\* DeleteExecutor's index loop (part_002 lines 213-225): DeleteEntry of the
\* old tuple's key; then the scan is asked for the next tuple.
DeleteIndex(t) ==
    /\ pc[t] = "del_index"
    /\ index' = DeleteEntry(index, scanned[t].val)
    /\ pc' = [pc EXCEPT ![t] = "scan"]
    /\ UNCHANGED <<heap_vars, snap_last, stop, cursor, scanned, values_cursor, insert_rid,
                   ret_rids, index_cursor>>

\* TableHeap::InsertTuple of tup from executor t, which keeps the RID.
HeapInsert(t, tup) ==
    LET o == InsertTupleOutcome(tup)
    IN  /\ CanInsert
        /\ tpages' = o.tpages
        /\ last_page_id' = o.last
        /\ next_heap_page' = o.next
        /\ insert_rid' = [insert_rid EXCEPT ![t] = o.rid]

\* UpdateExecutor (update_executor.cpp lines 52-63): the new tuple, built
\* from the old one by the plan's expressions, is inserted.
UpdateInsert(t) ==
    /\ pc[t] = "insert"
    /\ HeapInsert(t, [deleted |-> FALSE, val |-> SetTo[scanned[t].val], by |-> t])
    /\ pc' = [pc EXCEPT ![t] = "upd_index_del"]
    /\ UNCHANGED <<snap_last, stop, cursor, scanned, values_cursor, index, ret_rids,
                   index_cursor>>

\* UpdateExecutor's first index loop (lines 66-80): DeleteEntry of the old
\* tuple's key.
UpdateIndexDelete(t) ==
    /\ pc[t] = "upd_index_del"
    /\ index' = DeleteEntry(index, scanned[t].val)
    /\ pc' = [pc EXCEPT ![t] = "upd_index_ins"]
    /\ UNCHANGED <<heap_vars, snap_last, stop, cursor, scanned, values_cursor, insert_rid,
                   ret_rids, index_cursor>>

\* Mutant: the new entry takes the old tuple's RID.
UpdateIndexInsertOldRid(t) ==
    /\ pc[t] = "upd_index_ins"
    /\ index' = InsertEntry(index, SetTo[scanned[t].val], scanned[t].rid)
    /\ pc' = [pc EXCEPT ![t] = "scan"]
    /\ UNCHANGED <<heap_vars, snap_last, stop, cursor, scanned, values_cursor, insert_rid,
                   ret_rids, index_cursor>>

\* UpdateExecutor's second index loop (lines 82-94): InsertEntry of the new
\* tuple's key with the RID InsertTuple returned; then the next tuple.
UpdateIndexInsert(t) ==
    /\ pc[t] = "upd_index_ins"
    /\ index' = InsertEntry(index, SetTo[scanned[t].val], insert_rid[t])
    /\ pc' = [pc EXCEPT ![t] = "scan"]
    /\ UNCHANGED <<heap_vars, snap_last, stop, cursor, scanned, values_cursor, insert_rid,
                   ret_rids, index_cursor>>

\* ValuesExecutor::Next (values_executor.cpp lines 10-30): false once
\* cursor_ reaches the number of rows; otherwise the row at cursor_, and
\* cursor_ advances.
ValuesExhausted(t) == values_cursor[t] >= Len(Query[t].vals)

ValuesRow(t) == Query[t].vals[values_cursor[t] + 1]

\* InsertExecutor::Next (insert_executor.cpp lines 25-67), one child tuple
\* per step; when the child is exhausted the count is returned.
InsertNext(t) ==
    /\ pc[t] = "init"
    /\ Query[t].kind = "insert"
    /\ IF ValuesExhausted(t)
       THEN /\ pc' = [pc EXCEPT ![t] = "done"]
            /\ UNCHANGED <<heap_vars, values_cursor, insert_rid>>
       ELSE /\ HeapInsert(t, [deleted |-> FALSE, val |-> ValuesRow(t), by |-> t])
            /\ values_cursor' = [values_cursor EXCEPT ![t] = @ + 1]
            /\ pc' = [pc EXCEPT ![t] = "ins_index"]
    /\ UNCHANGED <<snap_last, stop, cursor, scanned, index, ret_rids, index_cursor>>

\* InsertExecutor's index loop (lines 49-53): InsertEntry of the row just
\* inserted (the one before cursor_) with its RID.
InsertIndex(t) ==
    /\ pc[t] = "ins_index"
    /\ index' = InsertEntry(index, Query[t].vals[values_cursor[t]], insert_rid[t])
    /\ pc' = [pc EXCEPT ![t] = "init"]
    /\ UNCHANGED <<heap_vars, snap_last, stop, cursor, scanned, values_cursor, insert_rid,
                   ret_rids, index_cursor>>

-----------------------------------------------------------------------------
(* IndexScanExecutor (index_scan_executor.cpp).  Init looks the key up     *)
(* once; Next returns the tuple at each RID found, read by GetTuple        *)
(* without looking at its meta.                                            *)

\* Init (lines 18-30): ScanKey of the plan's key into ret_rids_.
IndexScanInit(t) ==
    /\ pc[t] = "init"
    /\ Query[t].kind = "index"
    /\ ret_rids' = [ret_rids EXCEPT ![t] = ScanKey(index, Query[t].key)]
    /\ pc' = [pc EXCEPT ![t] = "iscan"]
    /\ UNCHANGED <<heap_vars, snap_last, stop, cursor, scanned, values_cursor, insert_rid,
                   index, index_cursor>>

\* Next (lines 32-51): false once cursor_ reaches ret_rids_.size();
\* otherwise the tuple at ret_rids_[cursor_], and cursor_ advances.
IndexScanNext(t) ==
    /\ pc[t] = "iscan"
    /\ IF index_cursor[t] >= Len(ret_rids[t])
       THEN /\ pc' = [pc EXCEPT ![t] = "done"]
            /\ UNCHANGED <<scanned, index_cursor>>
       ELSE LET rid == ret_rids[t][index_cursor[t] + 1]
            IN  /\ scanned' = [scanned EXCEPT ![t] = [rid |-> rid, val |-> GetTuple(rid).val]]
                /\ index_cursor' = [index_cursor EXCEPT ![t] = @ + 1]
                /\ UNCHANGED pc
    /\ UNCHANGED <<heap_vars, snap_last, stop, cursor, values_cursor, insert_rid, index,
                   ret_rids>>

\* Every query has returned.
Finished == \A t \in Threads : pc[t] = "done"

Step(t) ==
    \/ MakeIteratorLast(t) \/ MakeIteratorStop(t) \/ ScanNext(t)
    \/ MarkDeleted(t) \/ DeleteIndex(t) \/ UpdateInsert(t) \/ UpdateIndexDelete(t)
    \/ UpdateIndexInsert(t) \/ InsertNext(t) \/ InsertIndex(t)
    \/ IndexScanInit(t) \/ IndexScanNext(t)

Next ==
    \/ \E t \in Threads : Step(t)
    \/ Finished /\ UNCHANGED vars

\* Each query runs on its own thread until it returns.
Spec == Init /\ [][Next]_vars /\ \A t \in Threads : WF_vars(Step(t))

-----------------------------------------------------------------------------
(* Properties.                                                             *)

RIDs == (HeapPageIds \cup {InvalidPage}) \X Nat

TypeOK ==
    /\ DOMAIN tpages = FirstPageId .. next_heap_page - 1
    /\ next_heap_page \in FirstPageId + 1 .. MaxHeapPages
    /\ \A p \in DOMAIN tpages : Len(tpages[p].tuples) <= PageCapacity
    /\ pc \in [Threads -> {"init", "stop", "scan", "child", "insert", "del_index",
                           "upd_index_del", "upd_index_ins", "ins_index", "iscan", "done"}]
    /\ cursor \in [Threads -> RIDs]
    /\ stop \in [Threads -> RIDs]

\* The chain from first_page_id_ holds every page InsertTuple ever chained,
\* in the order they were allocated, and ends at last_page_id_: no page of
\* tuples is cut off by a later SetNextPageId, and no scan misses one.
ChainComplete ==
    /\ Chain = [i \in 1 .. next_heap_page |-> FirstPageId + i - 1]
    /\ last_page_id = next_heap_page - 1
    /\ tpages[last_page_id].next_page_id = InvalidPage

\* The Halloween problem: a scan never returns to its update executor a
\* tuple that the same executor inserted, because MakeIterator fixed the
\* stop RID before the first insert.  (Otherwise an update whose new value
\* still matches would update it again, for ever.)
NoRescanOfOwnInserts ==
    \A t \in Threads :
        pc[t] = "child" => GetTuple(scanned[t].rid).by # t

\* Every index entry names a slot of the heap that holds a tuple with that
\* key: the executors insert an entry only with the RID InsertTuple just
\* returned for that key, and the update's new entry takes the new tuple's
\* RID, not the old one.  (A concurrent DELETE may mark the tuple deleted
\* first; the entry then stays, and IndexScanExecutor::Next still returns
\* it, as it never reads the meta.)
IndexMatchesHeap ==
    \A k \in DOMAIN index :
        LET r == index[k]
        IN  /\ r[1] \in DOMAIN tpages
            /\ r[2] < Len(tpages[r[1]].tuples)
            /\ GetTuple(r).val = k

\* Every query returns: each scan reaches its stop RID, whatever the other
\* threads insert and delete meanwhile.
QueriesFinish == <>Finished

=============================================================================
