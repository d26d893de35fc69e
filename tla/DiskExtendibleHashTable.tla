----------------------- MODULE DiskExtendibleHashTable -----------------------
(***************************************************************************)
(* DiskExtendibleHashTable (src/unnamed/part_010): a header page, up to    *)
(* 2^HeaderMaxDepth directory pages and their bucket pages, all kept in    *)
(* the buffer pool.  Each public method takes its page latches in the      *)
(* order header, directory, bucket, and holds them until it returns, so    *)
(* for one caller at a time it is one atomic step on the page contents.    *)
(* The pool itself is abstracted to a function from page id to contents:   *)
(* NewPageGuarded hands out next_page_id and never fails below MaxPages.   *)
(*                                                                         *)
(* Hash() is declared in the class but its body is not in the repository;  *)
(* HashOf is a constant function from keys to HashBits-bit hashes.         *)
(***************************************************************************)
EXTENDS Naturals, FiniteSets, Sequences, TLC, Bitwise, ExtendibleHTablePages

CONSTANTS
    Keys, Vals,
    HashOf,             \* Keys -> 0 .. 2^HashBits - 1
    HeaderMaxDepth,     \* header_max_depth_
    DirectoryMaxDepth,  \* directory_max_depth_
    BucketMaxSize,      \* bucket_max_size_
    MaxPages,           \* bound on the pages the pool hands out
    NoVal

VARIABLES
    pages,          \* page id -> header, directory or bucket record
    next_page_id,   \* the pool's next_page_id_
    last            \* the last call and its result

vars == <<pages, next_page_id, last>>

\* The constructor took page 0 for the header.
HeaderPageId == 0

Hash(k) == HashOf[k]

\* The constructor: NewPageGuarded(&header_page_id_).UpgradeWrite() and
\* header_page->Init(header_max_depth_).
Init ==
    /\ pages = (HeaderPageId :> HeaderInit(HeaderMaxDepth))
    /\ next_page_id = HeaderPageId + 1
    /\ last = [op |-> "none", key |-> NoVal, ret |-> FALSE]

-----------------------------------------------------------------------------
(* The directory and bucket a hash reaches from the header, as the three   *)
(* methods compute them.                                                   *)

DirectoryPageIdOf(h) ==
    LET hp == pages[HeaderPageId]
    IN  GetDirectoryPageId(hp, HashToDirectoryIndex(hp, h))

BucketIndexOf(dpid, h) == HashToBucketIndex(pages[dpid], h)

BucketPageIdOf(dpid, h) == GetBucketPageId(pages[dpid], BucketIndexOf(dpid, h))

-----------------------------------------------------------------------------
(* GetValue (lines 58-91).                                                 *)

GetValue(k) ==
    LET dpid == DirectoryPageIdOf(Hash(k))
        ret  == IF dpid = NoPage THEN {}
                ELSE BucketLookup(pages[BucketPageIdOf(dpid, Hash(k))], k)
    IN  /\ last' = [op |-> "get", key |-> k, ret |-> ret]
        /\ UNCHANGED <<pages, next_page_id>>

-----------------------------------------------------------------------------
(* Insert and its helpers.  Each helper returns the new pages, the new     *)
(* next_page_id and the result.                                           *)

Outcome(pg, np, ret) == [pages |-> pg, next |-> np, ret |-> ret]

\* InsertToNewBucket (lines 215-239) on the fresh directory dp at slot
\* bucket_idx: a new bucket page, and the directory slot set only if the
\* bucket's Insert succeeds.  Returns <<succeeded, directory, bucket page id, bucket>>.
InsertToNewBucket(dp, bucket_idx, np, k, v) ==
    LET ins == BucketInsert(BucketInit(BucketMaxSize), k, v)
    IN  <<ins[1],
          IF ins[1] THEN SetLocalDepth(SetBucketPageId(dp, bucket_idx, np), bucket_idx, 0)
          ELSE dp,
          np, ins[2]>>

\* A slip: the directory and its first bucket counted as one allocation.
InsertToNewDirectoryOneAlloc(directory_idx, k, v) ==
    LET dpid == next_page_id
        nb   == InsertToNewBucket(DirectoryInit(DirectoryMaxDepth), 0, dpid + 1, k, v)
        hp   == pages[HeaderPageId]
    IN  Outcome((dpid :> nb[2]) @@ (nb[3] :> nb[4]) @@
                [pages EXCEPT ![HeaderPageId] =
                    IF nb[1] THEN SetDirectoryPageId(hp, directory_idx, dpid) ELSE hp],
                dpid + 1, nb[1])

\* InsertToNewDirectory (lines 189-212): a new directory page, a new bucket
\* page, and the header slot set when the bucket insert succeeds.
InsertToNewDirectory(directory_idx, k, v) ==
    LET dpid == next_page_id
        nb   == InsertToNewBucket(DirectoryInit(DirectoryMaxDepth), 0, dpid + 1, k, v)
        hp   == pages[HeaderPageId]
    IN  Outcome((dpid :> nb[2]) @@ (nb[3] :> nb[4]) @@
                [pages EXCEPT ![HeaderPageId] =
                    IF nb[1] THEN SetDirectoryPageId(hp, directory_idx, dpid) ELSE hp],
                dpid + 2, nb[1])

\* UpdateDirectoryMapping (lines 242-247); the mask argument is unused.
UpdateDirectoryMapping(dp, new_bucket_idx, new_bucket_page_id, new_local_depth) ==
    SetLocalDepth(SetBucketPageId(dp, new_bucket_idx, new_bucket_page_id),
                  new_bucket_idx, new_local_depth)

\* MigrateEntries (lines 250-272).  i counts up while tmp_size counts down
\* after every move, and old_bucket->Remove swaps the last entry into slot
\* i, which the next round then skips.  Returns <<old, new>>.
RECURSIVE Migrate(_, _, _, _, _, _)
Migrate(ob, nb, new_bucket_idx, mask, i, tmp_size) ==
    IF i >= tmp_size THEN <<ob, nb>>
    ELSE LET key == KeyAt(ob, i)
         IN  IF new_bucket_idx # (Hash(key) & mask)
             THEN Migrate(ob, nb, new_bucket_idx, mask, i + 1, tmp_size)
             ELSE Migrate(BucketRemove(ob, key)[2], BucketInsert(nb, key, ValueAt(ob, i))[2],
                          new_bucket_idx, mask, i + 1, tmp_size - 1)

MigrateEntries(ob, nb, new_bucket_idx, mask) ==
    Migrate(ob, nb, new_bucket_idx, mask, 0, BucketSize(ob))

\* The directory after the split's depth bookkeeping (lines 137-168), with
\* the split image and the mask computed before any increment.
SplitDirectory(dp, bi, new_bucket_idx, nbpid) ==
    IF GetGlobalDepth(dp) = GetLocalDepth(dp, bi) THEN
        LET d == IncrGlobalDepth(IncrLocalDepth(dp, bi))
        IN  UpdateDirectoryMapping(d, new_bucket_idx, nbpid, GetLocalDepth(d, bi))
    ELSE IF GetGlobalDepth(dp) < GetLocalDepth(dp, bi) THEN
        LET d == IncrLocalDepth(dp, bi)
        IN  UpdateDirectoryMapping(d, new_bucket_idx, nbpid, GetLocalDepth(d, bi))
    ELSE dp

\* The full-bucket branch of Insert (lines 124-179).
SplitInsert(dpid, k, v) ==
    LET dp   == pages[dpid]
        bi   == BucketIndexOf(dpid, Hash(k))
        bpid == GetBucketPageId(dp, bi)
        nbpid == next_page_id
        new_bucket_idx == GetSplitImageIndex(dp, bi)
        mask == GetLocalDepthMask(dp, bi)
        mig  == MigrateEntries(pages[bpid], BucketInit(BucketMaxSize), new_bucket_idx, mask)
        toOld == new_bucket_idx # (Hash(k) & mask)
        ob   == IF toOld THEN BucketInsert(mig[1], k, v)[2] ELSE mig[1]
        nb   == IF toOld THEN mig[2] ELSE BucketInsert(mig[2], k, v)[2]
    IN  IF GetGlobalDepth(dp) = GetLocalDepth(dp, bi) /\ DirSize(dp) = DirMaxSize(dp)
        THEN \* return false: the new bucket page is left allocated
             Outcome((nbpid :> BucketInit(BucketMaxSize)) @@ pages, nbpid + 1, FALSE)
        ELSE Outcome((nbpid :> nb) @@
                     [pages EXCEPT ![dpid] = SplitDirectory(dp, bi, new_bucket_idx, nbpid),
                                   ![bpid] = ob],
                     nbpid + 1, TRUE)

\* Insert (lines 98-186).  A bucket that is not full takes the entry, and
\* the method returns true whatever the bucket's Insert returned.
InsertOutcome(k, v) ==
    LET dpid == DirectoryPageIdOf(Hash(k))
        hp   == pages[HeaderPageId]
    IN  IF dpid = NoPage THEN InsertToNewDirectory(HashToDirectoryIndex(hp, Hash(k)), k, v)
        ELSE LET bpid == BucketPageIdOf(dpid, Hash(k))
             IN  IF IsFull(pages[bpid]) THEN SplitInsert(dpid, k, v)
                 ELSE Outcome([pages EXCEPT ![bpid] = BucketInsert(@, k, v)[2]],
                              next_page_id, TRUE)

Insert(k, v) ==
    LET o == InsertOutcome(k, v)
    IN  /\ o.next <= MaxPages
        /\ pages' = o.pages
        /\ next_page_id' = o.next
        /\ last' = [op |-> "insert", key |-> k, ret |-> o.ret]

-----------------------------------------------------------------------------
(* Remove (lines 278-306).                                                 *)

Remove(k) ==
    LET dpid == DirectoryPageIdOf(Hash(k))
    IN  IF dpid = NoPage
        THEN /\ last' = [op |-> "remove", key |-> k, ret |-> FALSE]
             /\ UNCHANGED <<pages, next_page_id>>
        ELSE LET bpid == BucketPageIdOf(dpid, Hash(k))
                 r    == BucketRemove(pages[bpid], k)
             IN  /\ pages' = [pages EXCEPT ![bpid] = r[2]]
                 /\ last' = [op |-> "remove", key |-> k, ret |-> r[1]]
                 /\ UNCHANGED next_page_id

-----------------------------------------------------------------------------
Next == \E k \in Keys : (\E v \in Vals : Insert(k, v)) \/ Remove(k) \/ GetValue(k)

Spec == Init /\ [][Next]_vars

-----------------------------------------------------------------------------
(* Properties.                                                             *)

TypeOK ==
    /\ next_page_id \in HeaderPageId + 1 .. MaxPages
    /\ DOMAIN pages = HeaderPageId .. next_page_id - 1
    /\ last.op \in {"none", "get", "insert", "remove"}

\* The directory pages the header points to.
LinkedDirectories ==
    {pages[HeaderPageId].directory_page_ids[i] :
        i \in DOMAIN pages[HeaderPageId].directory_page_ids} \ {NoPage}

\* The bucket pages those directories reach through their live slots.
Slots(dp) == 0 .. DirSize(dp) - 1

LinkedBuckets ==
    UNION {{pages[d].bucket_page_ids[i] : i \in Slots(pages[d])} : d \in LinkedDirectories}

\* The value GetValue would find for k, or NoVal.
LookupValue(k) ==
    LET dpid == DirectoryPageIdOf(Hash(k))
        r    == IF dpid = NoPage THEN {}
                ELSE BucketLookup(pages[BucketPageIdOf(dpid, Hash(k))], k)
    IN  IF r = {} THEN NoVal ELSE CHOOSE x \in r : TRUE

\* Directory integrity (spec.md 4.7, ExtendibleHTableDirectoryPage::
\* VerifyIntegrity): in every linked directory each live slot's local depth
\* is at most the global depth, slots sharing a bucket agree on its local
\* depth and on the low local-depth bits of their index, and a bucket of
\* local depth ld is pointed to by exactly 2^(gd - ld) slots.  Insert's
\* splits (IncrGlobalDepth's copy, UpdateDirectoryMapping) must keep this.
DirectoryIntegrity ==
    \A d \in LinkedDirectories :
        LET dp == pages[d]
            ld == dp.local_depths
            bp == dp.bucket_page_ids
        IN  /\ \A i \in Slots(dp) : ld[i] <= dp.global_depth
            /\ \A i, j \in Slots(dp) :
                   bp[i] = bp[j] => ld[i] = ld[j] /\ i % 2^ld[i] = j % 2^ld[i]
            /\ \A i \in Slots(dp) :
                   Cardinality({j \in Slots(dp) : bp[j] = bp[i]}) = 2^(dp.global_depth - ld[i])

\* Every linked bucket holds at most bucket_max_size_ entries with distinct
\* keys, through every Insert, split, MigrateEntries and Remove: a key is
\* never stored twice where GetValue and Remove would find only the first.
BucketsWellFormed ==
    \A b \in LinkedBuckets :
        /\ Len(pages[b].array) <= BucketMaxSize
        /\ \A i, j \in 1 .. Len(pages[b].array) :
               i # j => pages[b].array[i][1] # pages[b].array[j][1]

\* The hash table behaves as the map KVMap specifies, with the map read
\* through GetValue's lookup path: Insert, Remove and GetValue report what a
\* map would.
Map == INSTANCE KVMap WITH kv <- [k \in Keys |-> LookupValue(k)]

RefinesKVMap == Map!Spec

=============================================================================
