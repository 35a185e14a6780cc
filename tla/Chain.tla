-------------------------------- MODULE Chain --------------------------------
(***************************************************************************)
(* The chain of one node: blocks of the DAG are added, the order of the    *)
(* DAG is regenerated over the common base of the tips, the chain is       *)
(* rewound, and the node reloads its state or restarts.                    *)
(*                                                                         *)
(* Every operation holds the write lock of the storage, so it is one step. *)
(* A block names its parents and has the difficulty its parents imply;     *)
(* timestamps, proof of work and transactions are left out, and so is      *)
(* pruning: get_pruned_topoheight is None.                                 *)
(***************************************************************************)
EXTENDS BlockDAG

CONSTANTS
    Hashes,        \* the hashes of blocks other than the genesis, above 0
    Difficulties,  \* the difficulties a block can have
    TipsLimit,     \* TIPS_LIMIT
    MaxInterruptions  \* bound: rewinds, reloads and restarts

ASSUME ChainConstants ==
    /\ Hashes \subseteq Nat \ {0}
    /\ Difficulties \subseteq Nat \ {0}
    /\ TipsLimit \in Nat \ {0}

Genesis == 0

VARIABLES
    headers,         \* the blocks that were ever received: past and difficulty
    storage,         \* what is stored of them, see BlockDAG
    tips,            \* the tips stored
    height,          \* Blockchain::height
    topoheight,      \* Blockchain::topoheight
    stableHeight,    \* Blockchain::stable_height
    stableTopo,      \* Blockchain::stable_topoheight
    caches,          \* tip_base_cache, common_base_cache, ...
    interruptions    \* rewinds, reloads and restarts so far

vars == <<headers, storage, tips, height, topoheight, stableHeight, stableTopo, caches, interruptions>>

Empty == [k \in {} |-> 0]

NoCaches == [tipBase |-> Empty, commonBase |-> Empty, score |-> Empty, fullOrder |-> Empty]

\* Mutant: the caches survive.
KeepCaches(c) == c

\* clear_caches
ClearCaches(c) == NoCaches

\* create_genesis_block
Init ==
    /\ headers = [b \in {Genesis} |-> [past |-> <<>>, difficulty |-> 1]]
    /\ storage = [past |-> [b \in {Genesis} |-> <<>>],
                  height |-> [b \in {Genesis} |-> 0],
                  difficulty |-> [b \in {Genesis} |-> 1],
                  cumulative |-> [b \in {Genesis} |-> 1],
                  topo |-> [b \in {Genesis} |-> 0],
                  at |-> [i \in {0} |-> Genesis]]
    /\ tips = {Genesis}
    /\ height = 0
    /\ topoheight = 0
    /\ stableHeight = 0
    /\ stableTopo = 0
    /\ caches = NoCaches
    /\ interruptions = 0

----------------------------------------------------------------------------
(* add_new_block_for_storage *)

\* The ancestors of a block, itself included; those a rewind has deleted end
\* the walk.
Ancestors(s, b) ==
    LET Walk[p \in Stored(s)] == {p} \cup UNION {IF q \in Stored(s) THEN Walk[q] ELSE {q} : q \in Past(s, p)}
    IN  Walk[b]

\* The parents and their own past can be read.
Readable(s, parents) ==
    \A t \in parents : t \in Stored(s) /\ Ancestors(s, t) \subseteq Stored(s)

\* The checks on the parents of a received block; the first one listed is the
\* heaviest.
Accepts(s, past) ==
    LET parents == ToSet(past)
        h == HeightAtTips(s, parents)
    IN  /\ Readable(s, parents)
        /\ h >= stableHeight
        /\ NonReachable(s, parents)
        /\ \A t \in parents : VerifyDistance(s, t, h - 1)
        /\ \A t \in parents \ {past[1]} :
              ValidateTips(s, past[1], t)

\* save_block
Saved(s, b, header) ==
    [s EXCEPT !.past = (b :> header.past) @@ @,
              !.height = (b :> HeightAtTips(s, ToSet(header.past))) @@ @,
              !.difficulty = (b :> header.difficulty) @@ @]

\* The blocks of the new order take the topoheights from that of the base on.
Reordered(s, base, order) ==
    LET first == s.topo[base]
        new == [i \in first .. first + Len(order) - 1 |-> order[i - first + 1]]
        newTopo == [b \in ToSet(order) |-> CHOOSE i \in DOMAIN new : new[i] = b]
    IN  [s EXCEPT !.at = new @@ @, !.topo = newTopo @@ @]

\* The blocks of the order that keep their topoheight are skipped; over the
\* genesis nothing is.
Kept(s, base, order) ==
    LET first == s.topo[base]
        Same(i) == first + i - 1 <= topoheight /\ s.at[first + i - 1] = order[i] /\ Ordered(s, order[i])
    IN  IF first = 0 THEN 0
        ELSE Max({0} \cup {n \in 1..Len(order) : \A i \in 1..n : Same(i)})

\* The topoheight of the last block that was ordered again, 0 if none was
HighestTopo(s, base, order) ==
    IF Kept(s, base, order) = Len(order) THEN 0 ELSE s.topo[base] + Len(order) - 1

\* The tips that are kept, for the best tip the iteration found
FilteredTips(s, candidates, best) ==
    {best} \cup {t \in candidates : ValidateTips(s, best, t)}

\* The steps of add_new_block_for_storage after its checks; every \E binds
\* the one value a step computes.
AddAccepted(b, header) ==
    LET parents == ToSet(header.past) IN
    \E saved \in {Saved(storage, b, header)} :
    \E blockBase \in {CommonBase(saved, caches, parents)} :
    \E c1 \in {CommonBaseCached(saved, caches, parents)} :
    \E s \in {[saved EXCEPT !.cumulative = (b :> TipWorkScore(saved, c1, b, blockBase)) @@ @]} :
    \E c2 \in {TipWorkScoreCached(saved, c1, {b}, blockBase)} :
    \E newTips \in {(tips \cup {b}) \ parents} :
    \E base \in {CommonBase(s, c2, newTips)} :
    \E c3 \in {TipWorkScoreCached(s, CommonBaseCached(s, c2, newTips), newTips, base)} :
    \E bestTip \in {BestTip(s, c3, newTips, base)} :
    \E order \in {FullOrder(s, c3, bestTip, base)} :
    \E ordered \in {Reordered(s, base, order)} :
    \E highest \in {HighestTopo(s, base, order)} :
    \E candidates \in {{t \in newTips : VerifyDistance(ordered, t, height)}} :
        /\ headers' = (b :> header) @@ headers
        /\ storage' = ordered
        /\ \E best \in BestTips(ordered, candidates) : tips' = FilteredTips(ordered, candidates, best)
        /\ height' = IF height = 0 \/ ordered.height[b] > height THEN ordered.height[b] ELSE height
        /\ topoheight' = IF height = 0 \/ highest > topoheight THEN highest ELSE topoheight
        /\ stableHeight' = ordered.height[base]
        /\ stableTopo' = ordered.topo[base]
        /\ caches' = FullOrderCached(s, c3, bestTip, base)
        /\ UNCHANGED interruptions

\* A block that was rewound comes back with its header; of the hashes that
\* are left, a new block has the lowest or the highest.
HashesOf(past) ==
    LET fresh == Hashes \ DOMAIN headers
    IN  {b \in DOMAIN headers \ Stored(storage) : headers[b].past = past}
            \cup {b \in fresh : (\A o \in fresh : b <= o) \/ (\A o \in fresh : b >= o)}

\* get_difficulty_at_tips: the difficulty depends on the parents only, and is
\* that of the hard fork at height 1.
DifficultiesOf(past) ==
    LET known == {b \in DOMAIN headers : ToSet(headers[b].past) = ToSet(past)}
    IN  IF known # {} THEN {headers[b].difficulty : b \in known}
        ELSE IF past = <<Genesis>> THEN {Min(Difficulties)} ELSE Difficulties

AddNewBlock(past) ==
    \E b \in HashesOf(past) :
        /\ Accepts(storage, past)
        /\ \E d \in DifficultiesOf(past) :
              AddAccepted(b, [past |-> past, difficulty |-> d])

----------------------------------------------------------------------------
(* rewind_chain_for_storage *)

Interruption ==
    /\ interruptions < MaxInterruptions
    /\ interruptions' = interruptions + 1

\* pop_blocks stops at a block that is alone at its height, or at the limit.
LowestTopo(s, count, until) ==
    LET from == topoheight - count
        Alone(i) == \A o \in Stored(s) \ {s.at[i]} : s.height[o] # s.height[s.at[i]]
    IN  Max({until} \cup {i \in 0..from : i = 0 \/ Alone(i)})

Without(f, S) == [k \in DOMAIN f \ S |-> f[k]]

\* Mutant: the order keeps the blocks that were deleted.
PoppedBlocksOnly(s, lowest) ==
    LET blocks == {s.at[i] : i \in lowest + 1 .. topoheight}
    IN  [s EXCEPT !.past = Without(@, blocks), !.height = Without(@, blocks)]

\* delete_block_at_topoheight, for every topoheight above the lowest
Popped(s, lowest) ==
    LET blocks == {s.at[i] : i \in lowest + 1 .. topoheight}
    IN  [past |-> Without(s.past, blocks), height |-> Without(s.height, blocks),
         difficulty |-> Without(s.difficulty, blocks), cumulative |-> Without(s.cumulative, blocks),
         topo |-> Without(s.topo, blocks), at |-> Without(s.at, lowest + 1 .. topoheight)]

\* A rewind that would meet a block twice, at its topoheight and at a stale
\* one above, fails in the middle and is not taken here (Ledger has it).
RewindChain(count, stopAtStable) ==
    LET lowest == LowestTopo(storage, count, IF stopAtStable THEN stableTopo ELSE 0)
        popped == Popped(storage, lowest)
        blocks == Stored(storage) \ Stored(popped)
        kept == {t \in tips : Ordered(storage, t)}
        newTips == (kept \cup UNION {Past(storage, b) : b \in blocks}) \ blocks
        base == CommonBase(popped, caches, newTips)
    IN  /\ Interruption
        /\ count <= topoheight
        /\ Cardinality(blocks) = topoheight - lowest
        /\ storage' = popped
        /\ tips' = newTips
        /\ height' = Min({height} \cup {storage.height[b] : b \in blocks})
        /\ topoheight' = lowest
        /\ IF stopAtStable
           THEN UNCHANGED <<stableHeight, stableTopo>>
           ELSE stableHeight' = popped.height[base] /\ stableTopo' = popped.topo[base]
        /\ caches' = ClearCaches(caches)
        /\ UNCHANGED headers

----------------------------------------------------------------------------
(* reload_from_disk_with_storage, and Blockchain::new, whose caches are empty *)

Reload(c) ==
    LET base == CommonBase(storage, c, tips)
    IN  /\ Interruption
        /\ stableHeight' = storage.height[base]
        /\ stableTopo' = storage.topo[base]
        /\ caches' = ClearCaches(caches)
        /\ UNCHANGED <<headers, storage, tips, height, topoheight>>

ReloadFromDisk == Reload(caches)

Restart == Reload(NoCaches)

----------------------------------------------------------------------------

\* Parents as get_block_header_template_for_storage lists them: sort_tips.
Pasts(s) ==
    {SetToSortSeq(parents, LAMBDA a, b : Heavier(s, a, b)) :
        parents \in {p \in SUBSET Stored(s) : Cardinality(p) \in 1..TipsLimit}}

Next ==
    \/ \E past \in Pasts(storage) : AddNewBlock(past)
    \/ \E count \in 1..topoheight, stop \in BOOLEAN : RewindChain(count, stop)
    \/ ReloadFromDisk
    \/ Restart

Spec == Init /\ [][Next]_vars

----------------------------------------------------------------------------
(* Properties *)

\* The stored order is a gapless prefix of topoheights, its blocks and the
\* tips are stored, and the stable topoheight is one of them.
TypeOK ==
    /\ DOMAIN storage.at = 0..topoheight
    /\ \A i \in 0..topoheight : storage.at[i] \in Stored(storage)
    /\ \A b \in DOMAIN storage.topo : b \in Stored(storage) /\ storage.topo[b] \in Nat
    /\ tips # {} /\ tips \subseteq Stored(storage)
    /\ stableTopo \in 0..topoheight
    /\ stableHeight \in Nat /\ height \in Nat

\* The stored order ends at a heaviest tip.  It does not after an order with
\* more work and fewer blocks, which leaves blocks of the old order above it.
OrderReachesTop ==
    \E best \in BestTips(storage, tips) :
        Ordered(storage, best) /\ storage.topo[best] = topoheight

BlockAdded == Stored(storage) \subseteq Stored(storage') /\ Stored(storage) # Stored(storage')

\* The steps after which the order is that of the heaviest tip: every
\* add_new_block, and a rewind of an order that reached the topoheight.  A
\* rewind that pops blocks left above the order may delete blocks the order
\* still needs or leave the heaviest tip without a place; the order is then
\* settled by the next block only.
OrderSettled == storage' # storage /\ (BlockAdded \/ OrderReachesTop)

AfterParents ==
    \E best \in BestTips(storage, tips) :
        /\ Ordered(storage, best)
        /\ \A i \in 0..storage.topo[best] :
              \A p \in Past(storage, storage.at[i]) :
                 Ordered(storage, p) /\ storage.topo[p] < i

Canonical ==
    \E best \in BestTips(storage, tips) :
        \E order \in {FullOrder(storage, NoCaches, best, Genesis)} :
            /\ Len(order) <= topoheight + 1
            /\ \A i \in DOMAIN order : storage.at[i - 1] = order[i]

\* However blocks arrive, are re-ordered and are rewound, the order up to a
\* heaviest tip lists every block after all of its parents, which are ordered
\* themselves: the execution of a block never misses one it was built on.
\* Nothing is said of the blocks left above that tip.
OrderedAfterParents == [][OrderSettled => AfterParents']_vars

\* The order, built up incrementally over changing bases, is up to a heaviest
\* tip the one that is generated from the genesis for that tip.
OrderIsCanonical == [][OrderSettled => Canonical']_vars

\* The cumulative difficulty add_new_block computes for a block, over a base
\* that depends on the order at that moment and on the caches, is the work of
\* the block's whole past: nodes that got the blocks in another order agree.
CumulativeIsPastWork ==
    \A b \in Stored(storage) :
        Readable(storage, {b}) =>
            storage.cumulative[b] =
                MapThenSumSet(LAMBDA p : storage.difficulty[p], Ancestors(storage, b))

OneDifficulty ==
    \A b, o \in Stored(storage) \ {Genesis} : storage.difficulty[b] = storage.difficulty[o]

\* While all blocks have one difficulty, the base memoised for the current
\* tips is the one a new computation finds, so reload_from_disk, which reads
\* the caches before it clears them, and a restart agree on the stable height.
\* With several difficulties they need not: a block that comes back into the
\* order makes another one of its height no sync block, and the base memoised
\* for the tips before that stays.
CachedBaseIsFresh ==
    OneDifficulty /\ tips \in DOMAIN caches.commonBase =>
        caches.commonBase[tips] = CommonBase(storage, NoCaches, tips)

\* README.md, BlockDAG: "Topoheight order is unstable and may change until the
\* blocks are in the stable height."  So add_new_block never changes the block
\* at a topoheight up to the stable one.
StableOrderKept ==
    [][\A i \in 0..stableTopo : storage'.at[i] = storage.at[i]]_vars

\* README.md, BlockDAG: "Topoheight represents how many unique blocks there is
\* in the blockchain ordered by DAG."
TopoheightCounts ==
    \E best \in BestTips(storage, tips) :
        topoheight + 1 = Cardinality(Ancestors(storage, best))

============================================================================
