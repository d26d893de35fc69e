---------------------------- MODULE GuardLifecycle ----------------------------
(***************************************************************************)
(* The life of page guard objects (page_guard.cpp, stored in               *)
(* src/src/storage/disk/disk_scheduler.cpp lines 39-154, and               *)
(* src/src/include/storage/page/page_guard.h): construction by the         *)
(* guarded fetch/new wrappers, upgrade, move construction, move            *)
(* assignment, explicit Drop and the destructor at the end of a scope.     *)
(*                                                                         *)
(* Each thread has a few guard variables (Slots), each of one static type  *)
(* (SlotType: "basic", "read" or "write").  A variable holds a guard       *)
(* record [bpm, frame, page, is_dirty]: bpm is bpm_ # nullptr, frame is    *)
(* the frame of page_ or NoFrame for page_ == nullptr; dropped (ghost)     *)
(* marks a guard its owner has dropped.  Page latches are                  *)
(* explicit (rlatch: shared holders, wlatch: exclusive), because a guard   *)
(* can now lose its latch.  fault records the first undefined act: a       *)
(* dereference of a null Page* or an unlock of a latch not held.           *)
(*                                                                         *)
(* What the clients do is bounded by three constants.  The callers in the *)
(* repository never reassign a guard that still holds a page, never drop a *)
(* read or write guard twice, and are run with pools larger than the pins *)
(* they hold; the constants turn each of these uses on.                    *)
(***************************************************************************)
EXTENDS BufferPoolManager

CONSTANTS
    Threads,
    Slots,          \* guard variables of each thread
    SlotType,       \* Slots -> {"basic", "read", "write"}
    ReassignLive,   \* clients move-assign onto a guard that holds a page
    DropTwice,      \* clients call Drop on a guard already dropped
    PoolMayRunOut,  \* clients fetch when no frame can be found
    NoSlot,         \* model value
    NoWait          \* model value

VARIABLES
    guard,          \* guard[t][s]: the guard object in variable s of thread t
    rlatch,         \* rlatch[f]: threads holding frame f's page latch shared
    wlatch,         \* wlatch[f]: the latch is held exclusively
    wait,           \* wait[t]: the latch thread t is blocked on, or NoWait
    fault           \* "none", "null_deref" or "unlock_unheld"

vars == <<bpm_vars, guard, rlatch, wlatch, wait, fault>>

\* The default-constructed (or moved-from) guard: bpm_ and page_ null.
Inert == [bpm |-> FALSE, frame |-> NoFrame, page |-> NoPage, is_dirty |-> FALSE,
          dropped |-> FALSE]

\* The same object after its owner's Drop.
Dropped == [Inert EXCEPT !.dropped = TRUE]

\* A guard on frame f holding page p, as {this, page} builds it.
Made(f, p) == [bpm |-> TRUE, frame |-> f, page |-> p, is_dirty |-> FALSE, dropped |-> FALSE]

\* What FetchPage / NewPage returned nullptr for: {this, nullptr}.
NullGuard == [bpm |-> TRUE, frame |-> NoFrame, page |-> NoPage, is_dirty |-> FALSE,
              dropped |-> FALSE]

\* bpm_ != nullptr && page_ != nullptr, the destructors' test.
Live(g) == g.bpm /\ g.frame # NoFrame

\* bpm_ != nullptr || page_ != nullptr, the move assignment's test.
Holds(g) == g.bpm \/ g.frame # NoFrame

Latching(s) == SlotType[s] \in {"read", "write"}

\* The clients latch pages in one fixed order (spec.md 5: header,
\* directory, bucket): a thread asks for a page latch only above every
\* page it holds latched.
InOrder(t, p) ==
    \A s \in Slots : Latching(s) /\ Live(guard[t][s]) => guard[t][s].page < p

\* std::shared_mutex: a reader waits for a writer, a writer for everyone.
LatchFree(f, mode) ==
    IF mode = "read" THEN ~wlatch[f] ELSE ~wlatch[f] /\ rlatch[f] = 0

Init ==
    /\ InitBPM
    /\ guard = [t \in Threads |-> [s \in Slots |-> Inert]]
    /\ rlatch = [f \in FrameIds |-> 0]
    /\ wlatch = [f \in FrameIds |-> FALSE]
    /\ wait = [t \in Threads |-> NoWait]
    /\ fault = "none"

Ready(t) == wait[t] = NoWait /\ fault = "none"

SetGuard(t, s, g) == guard' = [guard EXCEPT ![t][s] = g]

-----------------------------------------------------------------------------
(* Unlatching and BasicPageGuard::Drop, as expressions over the guard g.  *)

\* RUnlatch / WUnlatch of frame f: undefined when the latch is not held.
Unlatch(f, mode) ==
    IF mode = "read"
    THEN IF rlatch[f] = 0 THEN fault' = "unlock_unheld" /\ UNCHANGED rlatch
         ELSE rlatch' = [rlatch EXCEPT ![f] = @ - 1] /\ UNCHANGED fault
    ELSE IF ~wlatch[f] THEN fault' = "unlock_unheld" /\ UNCHANGED wlatch
         ELSE wlatch' = [wlatch EXCEPT ![f] = FALSE] /\ UNCHANGED fault

\* BasicPageGuard::Drop (lines 58-69): nothing if page_ is null or the
\* frame's pin count is zero; otherwise UnpinPage(PageId(), is_dirty_),
\* and the guard becomes inert.
DropUnpins(g) == g.frame # NoFrame /\ pages[g.frame].pin_count > 0

BasicDrop(g) ==
    IF DropUnpins(g) THEN UnpinPage(pages[g.frame].page_id, g.is_dirty)
    ELSE UNCHANGED bpm_vars

\* The guard after BasicPageGuard::Drop.
BasicDropped(g) == IF DropUnpins(g) THEN Dropped ELSE g

\* ~BasicPageGuard (lines 88-92): Drop if bpm_ and page_ are set.
BasicDestroy(g) == IF Live(g) THEN BasicDrop(g) ELSE UNCHANGED bpm_vars

-----------------------------------------------------------------------------
(* Making guards: BufferPoolManager lines 233-253.                         *)

\* Mutant: the guard records the page id AllocatePage hands out next,
\* not the one NewPage returned.
NewPageGuardedNextId(t, s) ==
    /\ Ready(t)
    /\ SlotType[s] = "basic" /\ guard[t][s] = Inert
    /\ \E f \in FrameIds : NewPage(f) /\ SetGuard(t, s, Made(f, next_page_id'))
    /\ UNCHANGED <<rlatch, wlatch, wait, fault>>

\* NewPageGuarded: {this, NewPage(&id)} into basic variable s.  With the
\* pool out of frames NewPage returns nullptr and the guard holds it.
NewPageGuarded(t, s) ==
    /\ Ready(t)
    /\ SlotType[s] = "basic" /\ guard[t][s] = Inert
    /\ \/ \E f \in FrameIds :
             /\ NewPage(f)
             /\ SetGuard(t, s, Made(f, next_page_id))
       \/ /\ PoolMayRunOut /\ next_page_id < MaxPages /\ NoFrameAvailable
          /\ SetGuard(t, s, NullGuard)
          /\ UNCHANGED bpm_vars
    /\ UNCHANGED <<rlatch, wlatch, wait, fault>>

\* FetchPage(p) pinning page p into frame f, hit or miss.
Fetched(p, f) ==
    \/ FetchPageHit(p) /\ f = page_table[p]
    \/ FetchPageMiss(p, f)

\* FetchPage finds no frame for a page that is not resident.
FetchFails(p) == PoolMayRunOut /\ p \notin DOMAIN page_table /\ NoFrameAvailable

\* FetchPageBasic: {this, FetchPage(p)}.
FetchPageBasic(t, s) ==
    /\ Ready(t)
    /\ SlotType[s] = "basic" /\ guard[t][s] = Inert
    /\ \E p \in 0 .. next_page_id - 1 :
          \/ \E f \in FrameIds : Fetched(p, f) /\ SetGuard(t, s, Made(f, p))
          \/ FetchFails(p) /\ SetGuard(t, s, NullGuard) /\ UNCHANGED bpm_vars
    /\ UNCHANGED <<rlatch, wlatch, wait, fault>>

\* FetchPageRead / FetchPageWrite: FetchPage(p) pins the page under latch_,
\* then page->RLatch() / WLatch() blocks until the latch is free; a null
\* page is dereferenced there.
FetchPageLatched(t, s) ==
    /\ Ready(t)
    /\ Latching(s) /\ guard[t][s] = Inert
    /\ \E p \in 0 .. next_page_id - 1 :
          /\ InOrder(t, p)
          /\ \/ \E f \in FrameIds :
                   /\ Fetched(p, f)
                   /\ wait' = [wait EXCEPT ![t] = [slot |-> s, from |-> NoSlot, frame |-> f, page |-> p]]
                   /\ UNCHANGED fault
             \/ FetchFails(p) /\ fault' = "null_deref" /\ UNCHANGED <<bpm_vars, wait>>
    /\ UNCHANGED <<guard, rlatch, wlatch>>

\* UpgradeRead / UpgradeWrite of basic variable s into variable d
\* (lines 94-113): page_->RLatch() / WLatch() first, which blocks.
Upgrade(t, s, d) ==
    /\ Ready(t)
    /\ SlotType[s] = "basic" /\ guard[t][s].bpm
    /\ Latching(d) /\ guard[t][d] = Inert
    /\ LET g == guard[t][s]
       IN  IF g.frame = NoFrame
           THEN fault' = "null_deref" /\ UNCHANGED wait
           ELSE /\ InOrder(t, g.page)
                /\ wait' = [wait EXCEPT ![t] = [slot |-> d, from |-> s, frame |-> g.frame, page |-> g.page]]
                /\ UNCHANGED fault
    /\ UNCHANGED <<bpm_vars, guard, rlatch, wlatch>>

\* The latch is granted.  The new guard is {bpm_, page_}: its is_dirty_
\* is false.  An upgraded basic guard is left with bpm_ and page_ null.
AcquireLatch(t) ==
    LET w == wait[t]
        mode == SlotType[w.slot]
    IN  /\ w # NoWait /\ fault = "none"
        /\ LatchFree(w.frame, mode)
        /\ IF mode = "read" THEN /\ rlatch' = [rlatch EXCEPT ![w.frame] = @ + 1]
                                 /\ UNCHANGED wlatch
           ELSE wlatch' = [wlatch EXCEPT ![w.frame] = TRUE] /\ UNCHANGED rlatch
        /\ guard' = IF w.from = NoSlot
                    THEN [guard EXCEPT ![t][w.slot] = Made(w.frame, w.page)]
                    ELSE [guard EXCEPT ![t][w.slot] = Made(w.frame, w.page), ![t][w.from] = Inert]
        /\ wait' = [wait EXCEPT ![t] = NoWait]
        /\ UNCHANGED <<bpm_vars, fault>>

-----------------------------------------------------------------------------
(* Using and releasing guards.                                             *)

\* GetDataMut / AsMut through a basic or write guard (page_guard.h 79-88):
\* is_dirty_ = true, then page_->GetData(), null when the fetch failed.
WriteData(t, s) ==
    LET g == guard[t][s]
    IN  /\ Ready(t)
        /\ SlotType[s] \in {"basic", "write"} /\ g.bpm
        /\ IF g.frame = NoFrame
           THEN fault' = "null_deref" /\ UNCHANGED <<pages, guard>>
           ELSE /\ \E v \in Values : pages' = [pages EXCEPT ![g.frame].data = v]
                /\ SetGuard(t, s, [g EXCEPT !.is_dirty = TRUE])
                /\ UNCHANGED fault
        /\ UNCHANGED <<page_table, free_list, next_page_id, replacer, request_queue, disk,
                       rlatch, wlatch, wait>>

\* Mutant: the move constructor copies the members but leaves the source
\* guard's bpm_ and page_ set, so both guards unpin the page.
MoveConstructKeepSource(t, s, d) ==
    /\ Ready(t)
    /\ s # d /\ SlotType[s] = SlotType[d]
    /\ guard[t][s] # Inert /\ guard[t][d] = Inert
    /\ guard' = [guard EXCEPT ![t][d] = guard[t][s]]
    /\ UNCHANGED <<bpm_vars, rlatch, wlatch, wait, fault>>

\* The move constructors (lines 44-53, 115, 134), into a fresh variable d:
\* d takes bpm_, page_ and is_dirty_, and s is left inert.
MoveConstruct(t, s, d) ==
    /\ Ready(t)
    /\ s # d /\ SlotType[s] = SlotType[d]
    /\ guard[t][s] # Inert /\ guard[t][d] = Inert
    /\ guard' = [guard EXCEPT ![t][d] = guard[t][s], ![t][s] = Inert]
    /\ UNCHANGED <<bpm_vars, rlatch, wlatch, wait, fault>>

\* Move assignment d = std::move(s) onto a variable already used (lines
\* 71-86; the Read and Write operators, lines 117-120 and 136-139, only
\* move guard_), e.g. TableHeap::InsertTuple's page_guard after its Drop.
\* If d's bpm_ or page_ is set, BasicPageGuard::operator= unpins d's page
\* through PageId(), without Drop's pin-count test; nothing releases d's
\* page latch.
MoveAssign(t, s, d) ==
    LET g == guard[t][d]
    IN  /\ Ready(t)
        /\ s # d /\ SlotType[s] = SlotType[d]
        /\ guard[t][s] # Inert /\ g # Inert
        /\ Holds(g) => ReassignLive
        /\ IF ~Holds(g) THEN /\ guard' = [guard EXCEPT ![t][d] = guard[t][s], ![t][s] = Inert]
                          /\ UNCHANGED <<bpm_vars, fault>>
           ELSE IF g.frame = NoFrame
           THEN fault' = "null_deref" /\ UNCHANGED <<bpm_vars, guard>>
           ELSE /\ UnpinPage(pages[g.frame].page_id, g.is_dirty)
                /\ guard' = [guard EXCEPT ![t][d] = guard[t][s], ![t][s] = Inert]
                /\ UNCHANGED fault
        /\ UNCHANGED <<rlatch, wlatch, wait>>

\* Explicit Drop.  BasicPageGuard::Drop as above; ReadPageGuard::Drop and
\* WritePageGuard::Drop (lines 122-126, 141-145) first unlatch
\* guard_.page_, which is null once the guard was dropped or moved from.
Drop(t, s) ==
    LET g == guard[t][s]
    IN  /\ Ready(t)
        /\ Live(g) \/ (DropTwice /\ g.dropped)
        /\ IF SlotType[s] = "basic"
           THEN /\ BasicDrop(g) /\ SetGuard(t, s, BasicDropped(g))
                /\ UNCHANGED <<rlatch, wlatch, fault>>
           ELSE IF g.frame = NoFrame
           THEN fault' = "null_deref" /\ UNCHANGED <<bpm_vars, guard, rlatch, wlatch>>
           ELSE /\ Unlatch(g.frame, SlotType[s])
                /\ BasicDrop(g) /\ SetGuard(t, s, BasicDropped(g))
                /\ IF SlotType[s] = "read" THEN UNCHANGED wlatch ELSE UNCHANGED rlatch
        /\ UNCHANGED wait

\* Mutant: the read and write destructors only run the member's
\* ~BasicPageGuard, so the page latch is never released.
DestroyNoUnlatch(t, s) ==
    LET g == guard[t][s]
    IN  /\ Ready(t)
        /\ g # Inert
        /\ BasicDestroy(g)
        /\ SetGuard(t, s, Inert)
        /\ UNCHANGED <<rlatch, wlatch, wait, fault>>

\* Mutant: the read and write destructors unlatch guard_.page_ without
\* testing it, so a guard dropped earlier unlatches a null page.
DestroyNoNullTest(t, s) ==
    LET g == guard[t][s]
    IN  /\ Ready(t)
        /\ g # Inert
        /\ IF Latching(s) /\ ~Live(g)
           THEN fault' = "null_deref" /\ UNCHANGED <<bpm_vars, guard, rlatch, wlatch>>
           ELSE /\ IF Live(g) /\ Latching(s)
                   THEN /\ Unlatch(g.frame, SlotType[s])
                        /\ IF SlotType[s] = "read" THEN UNCHANGED wlatch ELSE UNCHANGED rlatch
                   ELSE UNCHANGED <<rlatch, wlatch, fault>>
                /\ IF Live(g) THEN BasicDrop(g) ELSE UNCHANGED bpm_vars
                /\ SetGuard(t, s, Inert)
        /\ UNCHANGED wait

\* The end of variable s's scope: ~ReadPageGuard / ~WritePageGuard
\* (lines 128-132, 147-151) unlatch if bpm_ and page_ are set, then the
\* member's ~BasicPageGuard runs.
Destroy(t, s) ==
    LET g == guard[t][s]
    IN  /\ Ready(t)
        /\ g # Inert
        /\ IF Live(g) /\ Latching(s)
           THEN /\ Unlatch(g.frame, SlotType[s])
                /\ IF SlotType[s] = "read" THEN UNCHANGED wlatch ELSE UNCHANGED rlatch
           ELSE UNCHANGED <<rlatch, wlatch, fault>>
        /\ BasicDestroy(g)
        /\ SetGuard(t, s, Inert)
        /\ UNCHANGED wait

Next ==
    \E t \in Threads :
        \/ AcquireLatch(t)
        \/ \E s \in Slots :
              \/ NewPageGuarded(t, s) \/ FetchPageBasic(t, s) \/ FetchPageLatched(t, s)
              \/ WriteData(t, s) \/ Drop(t, s) \/ Destroy(t, s)
              \/ \E d \in Slots : Upgrade(t, s, d) \/ MoveConstruct(t, s, d) \/ MoveAssign(t, s, d)

Spec == Init /\ [][Next]_vars

-----------------------------------------------------------------------------
(* Properties.                                                             *)

GuardCells == Threads \X Slots

\* The guards whose destruction or Drop will unpin frame f, and the
\* fetches that pinned f and wait for its latch.
PinHolders(f) ==
    {c \in GuardCells : Live(guard[c[1]][c[2]]) /\ guard[c[1]][c[2]].frame = f}
        \cup {<<t, NoSlot>> : t \in {u \in Threads : wait[u] # NoWait /\ wait[u].from = NoSlot
                                                  /\ wait[u].frame = f}}

\* Live guards of the given type on frame f.
LatchHolders(f, mode) ==
    {c \in GuardCells : SlotType[c[2]] = mode /\ Live(guard[c[1]][c[2]])
                        /\ guard[c[1]][c[2]].frame = f}

TypeOK ==
    /\ guard \in [Threads -> [Slots -> [bpm : BOOLEAN, frame : FrameIds \cup {NoFrame},
                                         page : PageIds \cup {NoPage}, is_dirty : BOOLEAN,
                                         dropped : BOOLEAN]]]
    /\ rlatch \in [FrameIds -> Nat]
    /\ wlatch \in [FrameIds -> BOOLEAN]
    /\ fault \in {"none", "null_deref", "unlock_unheld"}

\* Every pin FetchPage and NewPage take is held by exactly one guard (or
\* a fetch still waiting for its latch): across upgrades, moves, Drops and
\* destructors, each guard unpins once and no pin is left behind.
PinsMatchGuards ==
    \A f \in FrameIds : pages[f].pin_count = Cardinality(PinHolders(f))

\* Each page latch is held exactly by the live guards of its type: a
\* read or write guard releases its latch once, when it is dropped or
\* destroyed, and no latch outlives its guard (spec.md 4.5).
LatchesMatchGuards ==
    \A f \in FrameIds :
        /\ rlatch[f] = Cardinality(LatchHolders(f, "read"))
        /\ wlatch[f] <=> LatchHolders(f, "write") # {}

\* No guard operation dereferences a null Page* or unlocks a latch it does
\* not hold: repeated drops are safe and a moved-from guard is inert
\* (spec.md 4.5).
NoUndefinedGuardUse == fault = "none"

====
