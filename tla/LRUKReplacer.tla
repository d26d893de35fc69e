---------------------------- MODULE LRUKReplacer ----------------------------
(***************************************************************************)
(* The LRU-K replacer of src/buffer/lru_k_replacer.cpp.                    *)
(*                                                                         *)
(* The replacer's state (node_store_, current_timestamp_,                  *)
(* evictable_size_) is one record, and each method is an operator from a   *)
(* record to a record, so that the buffer pool manager, which calls the    *)
(* replacer while holding its own latch, can compose several calls into    *)
(* one atomic step.  The standalone specification at the end checks the    *)
(* replacer on its own: any caller, any sequence of calls.                 *)
(*                                                                         *)
(* The per-frame history is the code's std::list of timestamps, most       *)
(* recent first.  Evict reads only its length up to K, its K-th element    *)
(* and its last (oldest) element, and compares timestamps only with each   *)
(* other and with current_timestamp_: the model keeps the K most recent    *)
(* entries and the oldest one, and after every access renumbers all        *)
(* timestamps by rank.  Both keep every comparison Evict makes, and make   *)
(* the state finite without a bound on the counter.                        *)
(***************************************************************************)
EXTENDS Naturals, Sequences, FiniteSets, TLC

CONSTANTS
    FrameIds,       \* the frame ids the replacer accepts: 0 .. replacer_size_-1
    K,              \* k_ of the replacer
    NoFrame         \* model value: Evict returned false

ASSUME K \in Nat \ {0} /\ NoFrame \notin FrameIds

\* After renumbering, a timestamp is at most the number of history entries
\* kept plus one (for current_timestamp_).
TsBound == Cardinality(FrameIds) * (K + 1) + 1

\* INF of lru_k_replacer.h: larger than every finite backward k-distance,
\* which never exceeds current_timestamp_.
INF == TsBound + 1

\* The history kept: the K most recent accesses and the oldest.
Trim(h) == IF Len(h) <= K + 1 THEN h ELSE SubSeq(h, 1, K) \o <<h[Len(h)]>>

\* Renumber every timestamp of r by its rank among those in use.
Renumber(r) ==
    LET ns == r.node_store
        S  == UNION {{ns[f].history[i] : i \in 1..Len(ns[f].history)} : f \in DOMAIN ns}
              \cup {r.current_timestamp}
        rank(t) == Cardinality({u \in S : u <= t})
    IN  [node_store |-> [f \in DOMAIN ns |->
                          [ns[f] EXCEPT !.history = [i \in 1..Len(@) |-> rank(@[i])]]],
         current_timestamp |-> rank(r.current_timestamp),
         evictable_size |-> r.evictable_size]

\* LRUKReplacer(num_frames, k): no nodes, timestamp 0, nothing evictable.
InitReplacer ==
    [node_store |-> [f \in {} |-> 0], current_timestamp |-> 0, evictable_size |-> 0]

\* Mutation of GetKDistance: off by one, a node with exactly k accesses
\* still counts as +inf.
GetKDistanceOffByOne(node, now) ==
    IF Len(node.history) <= K THEN INF ELSE now - node.history[K]

\* LRUKNode::GetKDistance: INF below k accesses, otherwise now minus the
\* k-th element of the history list (most recent first).
GetKDistance(node, now) ==
    IF Len(node.history) < K THEN INF ELSE now - node.history[K]

\* LRUKNode::GetEarlyTimestamp: history_.back(), the oldest access.
GetEarlyTimestamp(node) == node.history[Len(node.history)]

\* The LRUKNode constructor: a history holding the creating access.
NewLRUKNode(ts) == [history |-> <<ts>>, is_evictable |-> FALSE]

\* LRUKReplacer::RecordAccess: the first access creates a non-evictable node
\* with one timestamp, later ones push_front the next timestamp.
RecordAccess(r, fid) ==
    LET ts == r.current_timestamp + 1
    IN  Renumber([r EXCEPT
           !.current_timestamp = ts,
           !.node_store =
               IF fid \in DOMAIN r.node_store
               THEN [@ EXCEPT ![fid].history = Trim(<<ts>> \o @)]
               ELSE @ @@ (fid :> NewLRUKNode(ts))])

\* Mutation of SetEvictable: clearing the flag forgets evictable_size_--.
SetEvictableNoDecrement(r, fid, set_evictable) ==
    IF r.node_store[fid].is_evictable = set_evictable
    THEN r
    ELSE [r EXCEPT !.node_store[fid].is_evictable = set_evictable,
                   !.evictable_size = IF set_evictable THEN @ + 1 ELSE @]

\* LRUKReplacer::SetEvictable: the counter moves only on a real change.
\* (The BUSTUB_ASSERT that the node exists is the caller's precondition.)
SetEvictable(r, fid, set_evictable) ==
    IF r.node_store[fid].is_evictable = set_evictable
    THEN r
    ELSE [r EXCEPT !.node_store[fid].is_evictable = set_evictable,
                   !.evictable_size = IF set_evictable THEN @ + 1 ELSE @ - 1]

\* The BUSTUB_ASSERT of LRUKReplacer::Remove: a known frame must be evictable.
RemoveAllowed(r, fid) ==
    fid \in DOMAIN r.node_store => r.node_store[fid].is_evictable

\* Mutation of Remove: the lookup's early return for an unknown frame is
\* dropped, so the count drops anyway.
RemoveNoLookup(r, fid) ==
    [r EXCEPT !.node_store = [f \in DOMAIN @ \ {fid} |-> @[f]],
              !.evictable_size = @ - 1]

\* LRUKReplacer::Remove: an unknown frame is a no-op, otherwise the node is
\* erased and the evictable count drops.
Remove(r, fid) ==
    IF fid \notin DOMAIN r.node_store
    THEN r
    ELSE [r EXCEPT !.node_store = [f \in DOMAIN @ \ {fid} |-> @[f]],
                   !.evictable_size = @ - 1]

\* The loop of LRUKReplacer::Evict.  Among evictable nodes it keeps the
\* largest k-distance, a tie replacing the candidate when its oldest access
\* is older.  mx_k_distance starts at 0 and early_timestamp uninitialised:
\* a node whose k-distance is 0 (possible only when K = 1 and the node holds
\* the latest timestamp) meets the tie branch before any candidate exists and
\* compares against an indeterminate value, so it may or may not be taken.
\* The result is the set of frames Evict may return, NoFrame for false.
EvictChoices(r) ==
    LET E    == {f \in DOMAIN r.node_store : r.node_store[f].is_evictable}
        dist(f) == GetKDistance(r.node_store[f], r.current_timestamp)
        mx   == IF E = {} THEN 0
                ELSE CHOOSE d \in {dist(f) : f \in E} : \A f \in E : dist(f) <= d
        best == {f \in E : dist(f) = mx}
        pick == CHOOSE f \in best : \A g \in best :
                   GetEarlyTimestamp(r.node_store[f]) <= GetEarlyTimestamp(r.node_store[g])
    IN  IF E = {} THEN {NoFrame}
        ELSE IF mx = 0 THEN {pick, NoFrame}
        ELSE {pick}

\* The state after Evict returned fid: the node is erased, the count drops.
Evict(r, fid) ==
    [r EXCEPT !.node_store = [f \in DOMAIN @ \ {fid} |-> @[f]],
              !.evictable_size = @ - 1]

-----------------------------------------------------------------------------
(***************************************************************************)
(* The replacer alone, driven by an arbitrary caller.                      *)
(***************************************************************************)
VARIABLE replacer

Init == replacer = InitReplacer

RecordAccessStep ==
    \E fid \in FrameIds :
        replacer' = RecordAccess(replacer, fid)

SetEvictableStep ==
    \E fid \in DOMAIN replacer.node_store, b \in BOOLEAN :
        replacer' = SetEvictable(replacer, fid, b)

RemoveStep ==
    \E fid \in FrameIds :
        /\ RemoveAllowed(replacer, fid)
        /\ replacer' = Remove(replacer, fid)

EvictStep ==
    \E fid \in EvictChoices(replacer) \ {NoFrame} :
        replacer' = Evict(replacer, fid)

Next == RecordAccessStep \/ SetEvictableStep \/ RemoveStep \/ EvictStep

Spec == Init /\ [][Next]_replacer

-----------------------------------------------------------------------------
(***************************************************************************)
(* Properties.                                                             *)
(***************************************************************************)
Node == [history : Seq(1..TsBound), is_evictable : BOOLEAN]

TypeOK ==
    /\ DOMAIN replacer.node_store \subseteq FrameIds
    /\ \A f \in DOMAIN replacer.node_store : replacer.node_store[f] \in Node
    /\ replacer.current_timestamp \in 0..TsBound
    /\ \A f \in DOMAIN replacer.node_store : Len(replacer.node_store[f].history) \in 1..K+1
    /\ replacer.evictable_size \in Nat

\* Reference LRU-K, stated over the SET of a frame's access times rather than
\* the order the code keeps its list in: the backward k-distance is the time
\* since the k-th most recent access, +inf below k accesses, and ties among
\* +inf frames go to the frame whose first access is oldest.
KthMostRecent(S) == CHOOSE t \in S : Cardinality({u \in S : u >= t}) = K
RefDistance(r, f) ==
    LET S == {r.node_store[f].history[i] : i \in 1..Len(r.node_store[f].history)}
    IN  IF Cardinality(S) < K THEN INF ELSE r.current_timestamp - KthMostRecent(S)
RefFirstAccess(r, f) ==
    CHOOSE t \in {r.node_store[f].history[i] : i \in 1..Len(r.node_store[f].history)} :
        \A i \in 1..Len(r.node_store[f].history) : t <= r.node_store[f].history[i]
RefVictims(r) ==
    LET E == {f \in DOMAIN r.node_store : r.node_store[f].is_evictable}
    IN  {f \in E : \A g \in E :
            \/ RefDistance(r, g) < RefDistance(r, f)
            \/ /\ RefDistance(r, g) = RefDistance(r, f)
               /\ RefFirstAccess(r, f) <= RefFirstAccess(r, g)}

\* Evict (lru_k_replacer.cpp:26-60) picks, in every reachable state, a frame
\* that the reference LRU-K policy would pick: its list bookkeeping in
\* LRUKReplacer::Size: the number of evictable frames.
Size(r) == r.evictable_size

\* RecordAccess and its scan in Evict agree with the definition.
EvictFollowsLRUK ==
    \A f \in EvictChoices(replacer) \ {NoFrame} : f \in RefVictims(replacer)

\* Evict never reports failure while Size() (evictable_size_) says a frame
\* is evictable, and never reports success when none is: the counter kept
\* by SetEvictable/Remove/Evict matches the flags, and the scan finds one.
EvictSucceedsIffEvictable ==
    (NoFrame \in EvictChoices(replacer)) <=> (Size(replacer) = 0)

=============================================================================
