------------------------ MODULE ExtendibleHTablePages ------------------------
(***************************************************************************)
(* The three page layouts of the disk extendible hash table, as values     *)
(* with pure operators:                                                    *)
(*   header    src/src/storage/page/extendible_htable_directory_page.cpp   *)
(*             lines 92-121 (extendible_htable_header_page.cpp),           *)
(*   directory the same file, lines 1-90,                                  *)
(*   bucket    src/src/storage/page/extendible_htable_bucket_page.cpp.     *)
(*                                                                         *)
(* A hash is a HashBits-bit number (32 in the code), so that "the top H    *)
(* bits" and "the low g bits" keep their meaning at a width TLC can        *)
(* enumerate.  A bucket's array_[0 .. size_-1] is a sequence of            *)
(* <<key, value>> pairs: no method reads past size_.                       *)
(***************************************************************************)
EXTENDS Naturals, Sequences, Bitwise
LOCAL INSTANCE SequencesExt

CONSTANTS
    HashBits,       \* width of the hash (32 in the code)
    NoPage          \* INVALID_PAGE_ID

-----------------------------------------------------------------------------
(* Header page.                                                            *)

\* ExtendibleHTableHeaderPage::Init: directory_page_ids_[0 .. 2^max_depth-1]
\* are INVALID_PAGE_ID.
HeaderInit(max_depth) ==
    [max_depth |-> max_depth, directory_page_ids |-> [i \in 0 .. 2^max_depth - 1 |-> NoPage]]

\* HashToDirectoryIndex: the top max_depth_ bits of the hash.
HashToDirectoryIndex(hp, hash) ==
    IF hp.max_depth > 0 THEN shiftR(hash, HashBits - hp.max_depth) ELSE 0

GetDirectoryPageId(hp, i) == hp.directory_page_ids[i]

SetDirectoryPageId(hp, i, pid) == [hp EXCEPT !.directory_page_ids[i] = pid]

-----------------------------------------------------------------------------
(* Directory page.  Init sets only max_depth_ and global_depth_; the       *)
(* arrays keep the zeroed buffer NewPage handed out.                       *)

DirectoryInit(max_depth) ==
    [max_depth |-> max_depth, global_depth |-> 0,
     local_depths |-> [i \in 0 .. 2^max_depth - 1 |-> 0],
     bucket_page_ids |-> [i \in 0 .. 2^max_depth - 1 |-> 0]]

GetGlobalDepth(dp) == dp.global_depth

GetLocalDepth(dp, i) == dp.local_depths[i]

GetBucketPageId(dp, i) == dp.bucket_page_ids[i]

GetGlobalDepthMask(dp) == 2^dp.global_depth - 1

HashToBucketIndex(dp, hash) == hash & (GetGlobalDepthMask(dp))

GetSplitImageIndex(dp, i) == i ^^ (2^dp.local_depths[i])

DirSize(dp) == 2^dp.global_depth

DirMaxSize(dp) == 2^dp.max_depth

\* GetLocalDepthMask: (1 << local_depth) - 1 where local_depth is read from
\* bucket_page_ids_[bucket_idx], a page id (line 85).
GetLocalDepthMask(dp, i) == 2^dp.bucket_page_ids[i] - 1

\* A slip: the new upper half copies the bucket page ids only.
IncrGlobalDepthNoDepthCopy(dp) ==
    LET g == dp.global_depth + 1
        half == 2^(g - 1)
    IN  [dp EXCEPT !.global_depth = g,
                   !.bucket_page_ids = [i \in DOMAIN @ |-> IF i >= half /\ i < 2^g THEN @[i - half] ELSE @[i]]]

\* IncrGlobalDepth: global_depth_++, then slots 2^(g-1) .. 2^g - 1 copy the
\* bucket page id and local depth of the slot 2^(g-1) below.
IncrGlobalDepth(dp) ==
    LET g == dp.global_depth + 1
        half == 2^(g - 1)
        copy(a) == [i \in DOMAIN a |-> IF i >= half /\ i < 2^g THEN a[i - half] ELSE a[i]]
    IN  [dp EXCEPT !.global_depth = g,
                   !.bucket_page_ids = copy(@),
                   !.local_depths = copy(@)]

IncrLocalDepth(dp, i) == [dp EXCEPT !.local_depths[i] = @ + 1]

SetBucketPageId(dp, i, pid) == [dp EXCEPT !.bucket_page_ids[i] = pid]

SetLocalDepth(dp, i, d) == [dp EXCEPT !.local_depths[i] = d]

-----------------------------------------------------------------------------
(* Bucket page.  Keys are compared with the comparator, i.e. by equality. *)

BucketInit(max_size) == [max_size |-> max_size, array |-> <<>>]

IsFull(bp) == Len(bp.array) = bp.max_size

\* Size, KeyAt and ValueAt; bucket_idx counts from 0.
BucketSize(bp) == Len(bp.array)

KeyAt(bp, i) == bp.array[i + 1][1]

ValueAt(bp, i) == bp.array[i + 1][2]

\* The positions holding key k (at most one while keys are unique).
KeyPositions(bp, k) == {j \in 1 .. Len(bp.array) : bp.array[j][1] = k}

\* Lookup: the value of the first entry with key k, as a set ({} if none).
BucketLookup(bp, k) ==
    IF KeyPositions(bp, k) = {} THEN {} ELSE {bp.array[Min(KeyPositions(bp, k))][2]}

\* A slip: Insert without the duplicate-key scan.
BucketInsertNoDupCheck(bp, k, v) ==
    IF IsFull(bp) THEN <<FALSE, bp>>
    ELSE <<TRUE, [bp EXCEPT !.array = Append(@, <<k, v>>)]>>

\* Insert: false when full or when the key is present, else appended.
\* The result is <<succeeded, page>>.
BucketInsert(bp, k, v) ==
    IF IsFull(bp) \/ KeyPositions(bp, k) # {} THEN <<FALSE, bp>>
    ELSE <<TRUE, [bp EXCEPT !.array = Append(@, <<k, v>>)]>>

\* Remove: the first entry with key k is swapped with the last, and size_
\* drops.  The result is <<found, page>>.
BucketRemove(bp, k) ==
    IF KeyPositions(bp, k) = {} THEN <<FALSE, bp>>
    ELSE LET j == Min(KeyPositions(bp, k))
         IN  <<TRUE, [bp EXCEPT !.array = Front([@ EXCEPT ![j] = Last(bp.array)])]>>

=============================================================================
