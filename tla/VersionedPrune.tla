--------------------------- MODULE VersionedPrune ---------------------------
(***************************************************************************)
(* Pruning (prune_until_topoheight_for_storage) of the versioned trees     *)
(* modelled by VersionedData: delete_versioned_data_below_topoheight with  *)
(* keep_last, once for the balances and once for the other trees.          *)
(*                                                                         *)
(* remove_from_disk returns the bytes of the version it removed decoded as *)
(* the type its caller asks for.  Both loops below ask for a u64 where the *)
(* bytes start with an Option<u64>, so the flag byte becomes the highest   *)
(* byte of the topoheight the loop goes on with (Misread).                 *)
(***************************************************************************)
EXTENDS VersionedData, Sequences

CONSTANTS
    BalanceKeys,       \* the entries of the tree of balances
    OutputValues,      \* balances whose BalanceType contains an output
    PruneSafetyLimit,  \* PRUNE_SAFETY_LIMIT
    StableLimit        \* how deep a re-ordering goes

VARIABLES
    pruned,  \* pruned topoheight, 1 when never pruned
    truth    \* history variable: the state after each block of the order

pvars == <<vars, pruned, truth>>

NoSuchTopo == MaxTopo + 1  \* at least 2^56: no version is there

\* Topoheight read from a removed version of k whose previous one is p.  The
\* flag of Some is the highest byte; after the flag of None come the highest
\* bytes of a number, which are 0, or the BalanceType and a ciphertext.
Misread(k, p) == IF p = None /\ k \notin BalanceKeys THEN 0 ELSE NoSuchTopo

\* Topoheights removed by a loop that starts removing at q.
Removed(k, q) ==
    IF q = None THEN {}
    ELSE {q} \cup (IF Live(k, q) THEN {Misread(k, versioned[k][q].prev)} ELSE {})

\* The loops follow the chain from p to the first version that satisfies Stop.
Follow(k, p, Stop(_)) ==
    LET step[fuel \in 0 .. MaxTopo + 1, q \in Topo \cup {None}] ==
            IF q = None \/ fuel = 0 \/ ~Live(k, q) THEN None
            ELSE IF Stop(q) THEN q
            ELSE step[fuel - 1, versioned[k][q].prev]
    IN  step[MaxTopo + 1, p]

Without(k, topos) == [t \in Topo |-> IF t \in topos THEN None ELSE versioned[k][t]]

\* delete_versioned_balances_below_topoheight(topoheight, true): the balances
\* below the last one with an output, whatever the topoheight asked for.
PruneBalance(k) ==
    LET o == Follow(k, versioned[k][pointer[k]].prev,
                    LAMBDA q : versioned[k][q].val \in OutputValues)
    IN  IF o = None THEN versioned[k]
        ELSE Without(k, Removed(k, versioned[k][o].prev))

\* delete_versioned_tree_below_topoheight(topoheight, true)
PruneVersions(k, T) ==
    LET last == pointer[k]
        first == versioned[k][last].prev
        patched == Follow(k, first, LAMBDA q :
                            /\ versioned[k][q].prev # None
                            /\ versioned[k][q].prev < T)
    IN  IF last < T THEN Without(k, Removed(k, first))
        ELSE IF patched = None THEN versioned[k]
        ELSE [Without(k, Removed(k, versioned[k][patched].prev))
                EXCEPT ![patched] = [prev |-> None, val |-> versioned[k][patched].val]]

Prune(T) ==
    /\ mode = "idle"
    /\ T < top /\ top - T >= PruneSafetyLimit
    /\ T > pruned
    /\ versioned' = [k \in Keys |->
                       IF pointer[k] = None \/ k \in ContractBalanceKeys THEN versioned[k]
                       ELSE IF k \in BalanceKeys THEN PruneBalance(k)
                       ELSE PruneVersions(k, T)]
    /\ pruned' = T
    /\ UNCHANGED <<pointer, top, ordered, mode, from, at, truth>>

----------------------------------------------------------------------------
PInit ==
    /\ Init
    /\ pruned = 1
    /\ truth = << [k \in Keys |-> Current(k, 0)] >>

\* VersionedData's operations, with the state they should lead to.
PNext ==
    \/ \E b \in ordered - StableLimit .. ordered + 1 :
         /\ b >= 0
         /\ StartReorder(b)
         /\ truth' = SubSeq(truth, 1, b)
         /\ UNCHANGED pruned
    \/ CleanTopoheight /\ UNCHANGED <<pruned, truth>>
    \/ EndClean /\ UNCHANGED <<pruned, truth>>
    \/ \E W \in SUBSET Keys, v \in Values :
         /\ ExecuteBlock(W, v)
         /\ truth' = Append(truth, [k \in Keys |->
                       IF k \in W THEN v
                       ELSE IF truth = << >> THEN None ELSE truth[Len(truth)][k]])
         /\ UNCHANGED pruned
    \/ EndReorder /\ UNCHANGED <<pruned, truth>>
    \/ \E T \in Topo : Prune(T)

PruneSpec == PInit /\ [][PNext]_pvars

\* "But your balances are still up-to-date with the chain": between two
\* operations, reading a balance at the end of the order gives what the
\* blocks of the order wrote.
BalancesUpToDate ==
    mode = "idle" =>
        \A k \in BalanceKeys : Current(k, ordered) = truth[ordered + 1][k]
============================================================================
