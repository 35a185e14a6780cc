------------------------------ MODULE Snapshot ------------------------------
(***************************************************************************)
(* The storage's commit point.  Chain sync rewinds blocks and adds others  *)
(* between start_commit_point and end_commit_point, and keeps or gives up  *)
(* the whole.  While it is open every write goes to the batch of a         *)
(* Snapshot; reads look into the batch, then into the LRU cache, then on   *)
(* the disk.  An applied commit point is written key by key.               *)
(*                                                                         *)
(* Keys are the keys of one sled tree, of one of three kinds.  "blocks" has *)
(* an LRU cache in front of it, its entries are counted (blocks_count, in   *)
(* memory and in the tree "extra") and written once.  "hash_at_topo" has a  *)
(* cache, and its entries are overwritten.  "nonces" is overwritten and     *)
(* counted (accounts_count) and has no cache.                               *)
(***************************************************************************)
EXTENDS Integers, FiniteSets

CONSTANTS
    Keys,
    Values,
    None,       \* no value; in a batch: the entry is deleted
    Untouched,  \* the batch has no entry
    CountKey,   \* the key of the count in the tree "extra"
    CountBound  \* the counter (a u64) is followed between 0 and this bound

ASSUME NoneNotValue == None \notin Values
ASSUME UntouchedNotValue == Untouched \notin Values \cup {None} \cup Int
ASSUME CountKeyOther == CountKey \notin Keys
ASSUME KeysFinite == IsFiniteSet(Keys)
ASSUME BoundAssumption == CountBound \in Nat /\ Cardinality(Keys) <= CountBound

VARIABLES
    tree,       \* the kind of the tree
    disk,       \* the sled tree
    cache,      \* LRU entries, None where there is none
    cached,     \* whether the tree has an LRU cache
    mode,       \* "closed", "open" or "applying"
    batch,      \* writes of the snapshot
    pending,    \* keys of the batch not yet written by end_commit_point
    count,      \* self.cache.blocks_count
    snapCount,  \* snapshot.cache.blocks_count
    diskCount,  \* the count on the disk
    batchCount, \* the count in the batch of "extra"
    before      \* history: ReadAll at the start (or the end) of the commit
                \* point

counters == <<count, snapCount, diskCount, batchCount>>
vars == <<tree, disk, cache, cached, mode, batch, pending, counters, before>>

Counted == tree # "hash_at_topo"

Blank == [k \in Keys |-> None]
NoWrites == [k \in Keys |-> Untouched]

----------------------------------------------------------------------------
(* Reading *)

\* Snapshot::contains_key
Touched(k) == mode = "open" /\ batch[k] # Untouched

\* load_optional_from_disk_internal
Load(k) == IF Touched(k) THEN batch[k] ELSE disk[k]

\* get_optional_cacheable_data
View(k) == IF cached /\ ~Touched(k) /\ cache[k] # None THEN cache[k] ELSE Load(k)

\* contains_data_cached
Contains(k) ==
    IF Touched(k) THEN batch[k] # None
    ELSE (cached /\ cache[k] # None) \/ disk[k] # None

\* iter_keys
IterKeys ==
    {k \in Keys : mode = "open" /\ batch[k] \notin {None, Untouched}}
        \cup {k \in Keys : disk[k] # None /\ ~Touched(k)}

\* count_blocks
Count == IF mode = "open" THEN snapCount ELSE count

\* Everything a caller can read, and the count a restart would read.
ReadAll == [entries |-> [k \in Keys |-> View(k)], count |-> Count, stored |-> diskCount]

----------------------------------------------------------------------------
(* Writing *)

\* Mutant: the count is only stored in memory.
StoreCountMemory(n) ==
    IF mode = "open"
    THEN snapCount' = n /\ UNCHANGED <<count, diskCount, batchCount>>
    ELSE count' = n /\ UNCHANGED <<snapCount, diskCount, batchCount>>

\* store_blocks_count: the count in memory and the one in the tree "extra".
StoreCount(n) ==
    IF mode = "open"
    THEN snapCount' = n /\ batchCount' = n /\ UNCHANGED <<count, diskCount>>
    ELSE count' = n /\ diskCount' = n /\ UNCHANGED <<snapCount, batchCount>>

\* What the insertion returns as the previous value: a snapshot only looks
\* into its batch.
Previous(k) ==
    IF mode = "open"
    THEN IF Touched(k) THEN batch[k] ELSE None
    ELSE disk[k]

Init ==
    /\ tree \in {"blocks", "hash_at_topo", "nonces"}
    /\ disk \in [Keys -> Values \cup {None}]
    /\ cache = Blank
    /\ cached \in {c \in BOOLEAN : c => tree # "nonces"}
    /\ mode = "closed"
    /\ batch = NoWrites
    /\ pending = {}
    /\ count = IF Counted THEN Cardinality({k \in Keys : disk[k] # None}) ELSE 0
    /\ diskCount = count
    /\ snapCount = 0
    /\ batchCount = Untouched
    /\ before = ReadAll

\* A read that misses the LRU cache fills it.
Read(k) ==
    /\ mode # "applying"
    /\ cached /\ ~Touched(k)
    /\ cache' = [cache EXCEPT ![k] = View(k)]
    /\ UNCHANGED <<tree, disk, cached, mode, batch, pending, counters, before>>

\* Mutant: the write ignores the commit point.
InsertThrough(k, v) ==
    /\ mode # "applying"
    /\ tree = "blocks" => ~Contains(k)
    /\ Count < CountBound
    /\ disk' = [disk EXCEPT ![k] = v]
    /\ cache' = IF cached THEN [cache EXCEPT ![k] = v] ELSE cache
    /\ IF Counted /\ Previous(k) = None THEN StoreCount(Count + 1) ELSE UNCHANGED counters
    /\ UNCHANGED <<tree, batch, cached, mode, pending, before>>

\* save_block (of a block the chain does not have), set_topo_height_for_block,
\* set_last_topoheight_for_nonce: insert_into_disk, the counter and the LRU
\* entry.
Insert(k, v) ==
    /\ mode # "applying"
    /\ tree = "blocks" => ~Contains(k)
    /\ Count < CountBound
    /\ IF mode = "open"
       THEN batch' = [batch EXCEPT ![k] = v] /\ UNCHANGED disk
       ELSE disk' = [disk EXCEPT ![k] = v] /\ UNCHANGED batch
    /\ cache' = IF cached THEN [cache EXCEPT ![k] = v] ELSE cache
    /\ IF Counted /\ Previous(k) = None THEN StoreCount(Count + 1) ELSE UNCHANGED counters
    /\ UNCHANGED <<tree, cached, mode, pending, before>>

\* remove_from_disk.  Batch::remove only marks an entry that the batch
\* already has; any other key is read from the disk and counts as removed.
RemoveEntries(S) ==
    /\ batch' = [k \in Keys |-> IF k \in S /\ Touched(k) THEN None ELSE batch[k]]
    /\ disk' = [k \in Keys |-> IF k \in S /\ mode = "closed" THEN None ELSE disk[k]]

\* delete_block_with_hash, delete_last_topoheight_for_nonce, and for
\* "hash_at_topo" delete_cacheable_data
Remove(k) ==
    /\ mode # "applying"
    /\ Load(k) # None
    /\ Counted => Count > 0
    /\ RemoveEntries({k})
    /\ cache' = [cache EXCEPT ![k] = None]
    /\ IF Counted THEN StoreCount(Count - 1) ELSE UNCHANGED counters
    /\ UNCHANGED <<tree, cached, mode, pending, before>>

\* delete_versioned_nonces_at_topoheight: the pointer of an account is set
\* back to the previous version or, if there is none, removed.  The accounts
\* are not counted again.
DeleteVersion(k, v) ==
    /\ mode # "applying"
    /\ tree = "nonces"
    /\ Load(k) # None
    /\ IF v = None
       THEN RemoveEntries({k})
       ELSE IF mode = "open"
            THEN batch' = [batch EXCEPT ![k] = v] /\ UNCHANGED disk
            ELSE disk' = [disk EXCEPT ![k] = v] /\ UNCHANGED batch
    /\ UNCHANGED <<tree, cache, cached, mode, pending, counters, before>>

\* What load_cache_from_disk finds: the count of the batch if it has one.
LoadCount == IF mode = "open" /\ batchCount # Untouched THEN batchCount ELSE diskCount

\* pop_blocks: the entries of the blocks S are deleted (the pointers of
\* "nonces" by DeleteVersion), clear_caches empties the LRU caches and loads
\* the counters of self.cache again, and the lower count of blocks is then
\* written to the disk or the batch only.  The count that count_blocks
\* returns stays as it was loaded.
PopBlocks(S) ==
    LET left == (IF mode = "open" THEN snapCount ELSE LoadCount) - Cardinality(S)
    IN  /\ mode # "applying"
        /\ tree = "nonces" => S = {}
        /\ \A k \in S : Load(k) # None
        /\ RemoveEntries(S)
        /\ cache' = Blank
        /\ count' = LoadCount
        /\ IF tree = "blocks"
           THEN /\ left >= 0
                /\ batchCount' = IF mode = "open" THEN left ELSE batchCount
                /\ diskCount' = IF mode = "open" THEN diskCount ELSE left
           ELSE UNCHANGED <<batchCount, diskCount>>
        /\ UNCHANGED <<tree, cached, mode, pending, snapCount, before>>

\* pop_blocks fails at a block, after it has deleted the entries S: it returns
\* before it clears the caches and writes the count.
PopFails(S) ==
    /\ mode # "applying"
    /\ tree # "nonces"
    /\ \A k \in S : Load(k) # None
    /\ RemoveEntries(S)
    /\ cache' = [k \in Keys |-> IF k \in S THEN None ELSE cache[k]]
    /\ UNCHANGED <<tree, cached, mode, pending, counters, before>>

StartCommitPoint ==
    /\ mode = "closed"
    /\ mode' = "open"
    /\ batch' = NoWrites
    /\ batchCount' = Untouched
    /\ snapCount' = count
    /\ before' = ReadAll
    /\ UNCHANGED <<tree, disk, cache, cached, pending, count, diskCount>>

\* Mutant: keys the batch did not write are applied too.
StartApplyAll ==
    /\ mode = "open"
    /\ mode' = "applying"
    /\ pending' = Keys \cup {c \in {CountKey} : batchCount # Untouched}
    /\ cached' = FALSE
    /\ cache' = Blank
    /\ count' = snapCount
    /\ before' = ReadAll
    /\ UNCHANGED <<tree, disk, batch, snapCount, diskCount, batchCount>>

\* end_commit_point(true): the cache is replaced by the one of the snapshot,
\* which has the counters but no LRU caches; the batches follow.
StartApply ==
    /\ mode = "open"
    /\ mode' = "applying"
    /\ pending' = {k \in Keys : batch[k] # Untouched}
                   \cup {c \in {CountKey} : batchCount # Untouched}
    /\ cached' = FALSE
    /\ cache' = Blank
    /\ count' = snapCount
    /\ before' = ReadAll
    /\ UNCHANGED <<tree, disk, batch, snapCount, diskCount, batchCount>>

\* Mutant: the deletions of a batch are not written.
ApplyInsertOnly(k) ==
    /\ mode = "applying"
    /\ k \in pending \cap Keys
    /\ disk' = IF batch[k] # None THEN [disk EXCEPT ![k] = batch[k]] ELSE disk
    /\ pending' = pending \ {k}
    /\ UNCHANGED <<tree, cache, cached, mode, batch, counters, before>>

\* One entry of a batch is written to its tree.
ApplyKey(k) ==
    /\ mode = "applying"
    /\ k \in pending \cap Keys
    /\ disk' = [disk EXCEPT ![k] = batch[k]]
    /\ pending' = pending \ {k}
    /\ UNCHANGED <<tree, cache, cached, mode, batch, counters, before>>

\* The count is written with the tree "extra", before or after the other
\* tree in the order of their names.
ApplyCount ==
    /\ mode = "applying"
    /\ CountKey \in pending
    /\ diskCount' = batchCount
    /\ pending' = pending \ {CountKey}
    /\ UNCHANGED <<tree, disk, cache, cached, mode, batch, count, snapCount, batchCount, before>>

EndApply ==
    /\ mode = "applying"
    /\ pending = {}
    /\ mode' = "closed"
    /\ UNCHANGED <<tree, disk, cache, cached, batch, pending, counters, before>>

\* Mutant: the caches survive the rollback.
DiscardKeepsCaches ==
    /\ mode = "open"
    /\ mode' = "closed"
    /\ UNCHANGED <<tree, disk, cache, cached, batch, pending, counters, before>>

\* end_commit_point(false), with clear_caches
Discard ==
    /\ mode = "open"
    /\ mode' = "closed"
    /\ cache' = Blank
    /\ count' = diskCount
    /\ UNCHANGED <<tree, disk, cached, batch, pending, snapCount, diskCount, batchCount, before>>

\* The daemon stops and starts again: only what is on the disk is left.
Restart ==
    /\ mode' = "closed"
    /\ pending' = {}
    /\ cache' = Blank
    /\ cached' \in {c \in BOOLEAN : c => tree # "nonces"}
    /\ count' = diskCount
    /\ UNCHANGED <<tree, disk, batch, snapCount, diskCount, batchCount, before>>

Next ==
    \/ \E k \in Keys : Read(k) \/ Remove(k) \/ ApplyKey(k)
    \/ \E k \in Keys, v \in Values : Insert(k, v)
    \/ \E k \in Keys, v \in Values \cup {None} : DeleteVersion(k, v)
    \/ \E S \in SUBSET Keys : PopBlocks(S) \/ PopFails(S)
    \/ StartCommitPoint \/ StartApply \/ ApplyCount
    \/ EndApply \/ Discard \/ Restart

Spec == Init /\ [][Next]_vars

----------------------------------------------------------------------------
(* Properties *)

Counts == 0 .. CountBound

\* Every entry is a value or absent, and the counters stay in their bounds.
TypeOK ==
    /\ tree \in {"blocks", "hash_at_topo", "nonces"}
    /\ disk \in [Keys -> Values \cup {None}]
    /\ cache \in [Keys -> Values \cup {None}]
    /\ cached \in BOOLEAN
    /\ mode \in {"closed", "open", "applying"}
    /\ batch \in [Keys -> Values \cup {None, Untouched}]
    /\ pending \in SUBSET (Keys \cup {CountKey})
    /\ count \in Counts /\ snapCount \in Counts /\ diskCount \in Counts
    /\ batchCount \in Counts \cup {Untouched}
    /\ before \in [entries : [Keys -> Values \cup {None}], count : Counts, stored : Counts]

\* Reads through the LRU cache, existence checks and iterations agree with
\* an uncached read of the same key: inside a commit point, while one is
\* applied, after it was given up and after a restart.  Each read path of
\* SledStorage combines batch, cache and disk on its own.
ReadsAgree ==
    \A k \in Keys :
        /\ View(k) = Load(k)
        /\ Contains(k) <=> Load(k) # None
        /\ k \in IterKeys <=> Load(k) # None

\* A commit point that is given up leaves no trace: every entry reads as it
\* did when the commit point was started, and the count is the one the disk
\* held then, even if pop_blocks reloaded the caches from the batch meanwhile.
\* The count of accounts is also the one that was read at the start; the count
\* of blocks need not be, see CountOnDisk.
DiscardRestores ==
    [][Discard =>
        /\ ReadAll'.entries = before.entries
        /\ Count' = before.stored
        /\ tree # "blocks" => Count' = before.count]_vars

\* A commit point that is applied leaves the entries and the count that were
\* read inside it, although the caches they were read from are dropped.
ApplyKeepsReads ==
    [][EndApply => ReadAll'.entries = before.entries /\ Count' = before.count]_vars

\* The count n in memory against the count m that is or will be on the disk:
\* only pop_blocks lets them differ, and the one on the disk is then lower.
KeepsUp(n, m) == m <= n /\ (tree # "blocks" => m = n)

\* While no commit point is open or being applied, the count of accounts on
\* the disk is the one in memory.  The count of blocks on the disk is never
\* above the one in memory: pop_blocks lowers it on the disk alone, so a
\* restart may lower what count_blocks returns and never raises it.
CountOnDisk == mode = "closed" => KeepsUp(count, diskCount)

\* The inductive invariant: what the cache, the batch, the disk and the
\* history variable hold in each phase of a commit point.
Phases ==
    /\ tree = "nonces" => ~cached
    /\ ~cached => cache = Blank
    /\ \A k \in Keys : cache[k] # None => Touched(k) \/ cache[k] = disk[k]
    /\ mode = "closed" => pending = {} /\ KeepsUp(count, diskCount)
    /\ mode = "open" =>
         /\ pending = {}
         /\ before.entries = disk /\ before.stored = diskCount
         /\ KeepsUp(before.count, before.stored)
         /\ KeepsUp(snapCount, IF batchCount = Untouched THEN diskCount ELSE batchCount)
    /\ mode = "applying" =>
         /\ ~cached
         /\ before.count = count
         /\ KeepsUp(count, IF CountKey \in pending THEN batchCount ELSE diskCount)
         /\ \A k \in Keys :
              /\ k \in pending => batch[k] # Untouched
              /\ before.entries[k] = IF k \in pending THEN batch[k] ELSE disk[k]
         /\ CountKey \in pending => batchCount # Untouched

\* "Remove a key from the snapshot.  This will mark the entry as None": a key
\* removed inside a commit point is not read any more.
RemoveDeletes == [][\A k \in Keys : Remove(k) => Load(k)' = None]_vars
============================================================================
