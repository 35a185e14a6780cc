------------------------------ MODULE BlockDAG ------------------------------
(***************************************************************************)
(* The pure part of consensus: from the blocks a node stores, the common   *)
(* base of the tips, the work of a tip and the order of the DAG.           *)
(*                                                                         *)
(* Every operator takes the storage s it reads, a record with              *)
(*   past, height, difficulty, cumulative   of the blocks (DOMAIN s.past), *)
(*   topo    topo_by_hash, for the blocks that were ever ordered,          *)
(*   at      hash_at_topo.                                                 *)
(* A block is its hash, a number: hashes are compared.  Operators that the *)
(* code memoises also take the caches c, functions with a growing domain.  *)
(***************************************************************************)
EXTENDS Integers, Sequences, FiniteSets, SequencesExt, FiniteSetsExt

CONSTANT StableLimit  \* STABLE_LIMIT

ASSUME StableLimitPositive == StableLimit \in Nat \ {0}

Stored(s) == DOMAIN s.past

Past(s, b) == ToSet(s.past[b])

\* is_block_topological_ordered
Ordered(s, b) ==
    /\ b \in DOMAIN s.topo
    /\ s.topo[b] \in DOMAIN s.at
    /\ s.at[s.topo[b]] = b

\* The comparison of sort_descending_by_cumulative_difficulty
Heavier(s, a, b) ==
    \/ s.cumulative[a] > s.cumulative[b]
    \/ s.cumulative[a] = s.cumulative[b] /\ a > b

\* calculate_height_at_tips
HeightAtTips(s, tips) == 1 + Max({s.height[t] : t \in tips})

\* find_best_tip_by_cumulative_difficulty: the first one iterated of the
\* heaviest tips, whatever the order of iteration.
BestTips(s, tips) ==
    {t \in tips : \A u \in tips : s.cumulative[u] <= s.cumulative[t]}

\* validate_tips
ValidateTips(s, best, tip) ==
    (s.difficulty[best] * 91) \div 100 < s.difficulty[tip]

\* A block above the base, or not ordered: what the walks from a tip visit.
AboveBase(s, base, b) == Ordered(s, b) => s.topo[b] >= s.topo[base]

----------------------------------------------------------------------------
(* The base of the tips *)

\* Mutant: another ordered block at the height is no obstacle.
IsSyncNotAlone(s, b, height) ==
    \/ s.height[b] = 0
    \/ s.height[b] + StableLimit <= height /\ Ordered(s, b)

\* is_sync_block_at_height
IsSync(s, b, height) ==
    LET h == s.height[b]
        stablePoint == IF h >= StableLimit THEN h - StableLimit ELSE StableLimit - h
        others == {o \in Stored(s) \ {b} : Ordered(s, o)}
    IN  \/ h = 0
        \/ /\ h + StableLimit <= height
           /\ Ordered(s, b)
           /\ \A o \in others : s.height[o] # h
           /\ \A o \in others :
                s.height[o] \in Max({stablePoint, 1}) .. h - 1
                    => s.cumulative[o] < s.cumulative[b]

\* The lowest of some bases
Lowest(s, bases) ==
    CHOOSE b \in bases : \A o \in bases : s.height[b] <= s.height[o]

\* find_tip_base: a block's bases are those of its parents in front of the
\* first synchronous one, and that one; the parents behind it are not visited.
TipBase(s, c, hash, height) ==
    LET Bases[b \in Stored(s)] ==
            LET past == s.past[b]
                sync == {i \in DOMAIN past : IsSync(s, past[i], height)}
                last == IF sync = {} THEN Len(past) ELSE Min(sync)
            IN  CASE <<b, height>> \in DOMAIN c.tipBase -> {c.tipBase[<<b, height>>]}
                  [] <<b, height>> \notin DOMAIN c.tipBase /\ past = <<>> -> {b}
                  [] OTHER -> UNION {IF i \in sync THEN {past[i]} ELSE Bases[past[i]] : i \in 1..last}
    IN  Lowest(s, Bases[hash])

\* find_common_base
CommonBase(s, c, tips) ==
    LET best == Max({s.height[t] : t \in tips})
    IN  IF tips \in DOMAIN c.commonBase
        THEN c.commonBase[tips]
        ELSE Lowest(s, {TipBase(s, c, t, best) : t \in tips})

\* The caches after find_common_base
CommonBaseCached(s, c, tips) ==
    LET best == Max({s.height[t] : t \in tips})
        keys == {<<t, best>> : t \in tips}
    IN  IF tips \in DOMAIN c.commonBase
        THEN c
        ELSE [c EXCEPT
               !.tipBase = [k \in DOMAIN @ \cup keys |-> IF k \in keys THEN TipBase(s, c, k[1], best) ELSE @[k]],
               !.commonBase = [k \in DOMAIN @ \cup {tips} |-> IF k = tips THEN CommonBase(s, c, tips) ELSE @[k]]]

----------------------------------------------------------------------------
(* The work of a tip and the order it gives *)

\* find_tip_work_score: the blocks that count for b over the base
WorkBlocks(s, b, base) ==
    LET Walk[p \in Stored(s)] ==
            {p} \cup UNION {Walk[q] : q \in {q \in Past(s, p) : AboveBase(s, base, q)}}
    IN  Walk[b] \cup {base}

\* Mutant: the base counts with its own difficulty only.
TipWorkScoreOverBase(s, c, b, base) ==
    MapThenSumSet(LAMBDA p : s.difficulty[p], WorkBlocks(s, b, base))

TipWorkScore(s, c, b, base) ==
    IF <<b, base>> \in DOMAIN c.score
    THEN c.score[<<b, base>>]
    ELSE MapThenSumSet(
            LAMBDA p : IF p = base /\ p # b THEN s.cumulative[p] ELSE s.difficulty[p],
            WorkBlocks(s, b, base))

TipWorkScoreCached(s, c, tips, base) ==
    LET keys == tips \X {base}
    IN  [c EXCEPT !.score =
          [k \in DOMAIN @ \cup keys |-> IF k \in keys THEN TipWorkScore(s, c, k[1], base) ELSE @[k]]]

\* find_best_tip
BestTip(s, c, tips, base) ==
    CHOOSE t \in tips :
        \A u \in tips \ {t} :
            \/ TipWorkScore(s, c, t, base) > TipWorkScore(s, c, u, base)
            \/ TipWorkScore(s, c, t, base) = TipWorkScore(s, c, u, base) /\ t > u

\* One order after another, without what is already ordered
Merge(o, p) == o \o SelectSeq(p, LAMBDA b : b \notin ToSet(o))

\* Mutant: a block is inserted when it is first met, before its parents.
FullOrderBlockFirst(s, c, b, base) ==
    LET Order[p \in Stored(s)] ==
            LET parents == {q \in Past(s, p) : AboveBase(s, base, q)}
                heaviestFirst == SetToSortSeq(parents, LAMBDA q, r : Heavier(s, q, r))
            IN  IF p = base \/ s.past[p] = <<>>
                THEN <<p>>
                ELSE FoldLeft(LAMBDA o, q : Merge(o, Order[q]), <<p>>, heaviestFirst)
    IN  Order[b]

\* generate_full_order: the parents above the base, heaviest first, then the
\* block itself.
FullOrder(s, c, b, base) ==
    LET Order[p \in Stored(s)] ==
            LET parents == {q \in Past(s, p) : AboveBase(s, base, q)}
                heaviestFirst == SetToSortSeq(parents, LAMBDA q, r : Heavier(s, q, r))
            IN  CASE <<p, base>> \in DOMAIN c.fullOrder -> c.fullOrder[<<p, base>>]
                  [] <<p, base>> \notin DOMAIN c.fullOrder /\ (p = base \/ s.past[p] = <<>>) -> <<p>>
                  [] OTHER -> Append(FoldLeft(LAMBDA o, q : Merge(o, Order[q]), <<>>, heaviestFirst), p)
    IN  Order[b]

FullOrderCached(s, c, b, base) ==
    [c EXCEPT !.fullOrder =
       [k \in DOMAIN @ \cup {<<b, base>>} |-> IF k = <<b, base>> THEN FullOrder(s, c, b, base) ELSE @[k]]]

----------------------------------------------------------------------------
(* What a block may be built on *)

\* build_reachability: a walk over a stack of (block, level); a block is
\* expanded at the level it is first taken from the stack.
Reachability(s, b) ==
    LET Push(set, level, past) ==
            LET new == SelectSeq(past, LAMBDA q : q \notin set)
            IN  [i \in DOMAIN new |-> <<new[i], level + 1>>]
        Pop(w) ==
            LET top == Last(w.stack)
                set == w.set \cup {top[1]}
                expanded == IF top[2] >= 2 * StableLimit THEN <<>> ELSE s.past[top[1]]
            IN  [set |-> set, stack |-> Front(w.stack) \o Push(set, top[2], expanded)]
        Walk[n \in Nat] ==
            LET w == Walk[n - 1]
            IN  CASE n = 0 -> [set |-> {}, stack |-> <<<<b, 0>>>>]
                  [] n > 0 -> IF w.stack = <<>> THEN w ELSE Pop(w)
    IN  Walk[1 + 3 * Cardinality(Stored(s))].set

\* verify_non_reachability
NonReachable(s, tips) ==
    \A t, u \in tips : t # u => t \notin Reachability(s, u)

\* calculate_distance_from_mainchain: the lowest height of the ordered blocks
\* met first below the block.
DistanceFromMainchain(s, b) ==
    LET Meet[p \in Stored(s)] ==
            IF Ordered(s, p) THEN {s.height[p]} ELSE UNION {Meet[q] : q \in Past(s, p)}
    IN  Min(Meet[b])

\* verify_distance_from_mainchain
VerifyDistance(s, b, height) ==
    LET distance == DistanceFromMainchain(s, b)
    IN  ~(distance <= height /\ height - distance >= StableLimit)

=============================================================================
