--------------------------- MODULE VersionedData ---------------------------
(***************************************************************************)
(* The versioned trees of the daemon's storage: balances, nonces,          *)
(* multisigs, contracts, contract data and supplies.                       *)
(*                                                                         *)
(* Every key has a POINTER to the topoheight of its last version, and      *)
(* every version holds the topoheight of the version before it, so that a  *)
(* re-ordering of the DAG can undo the blocks it moves.  A block is        *)
(* executed at the end of the order (add_new_block); a re-ordering first   *)
(* cleans, in ascending order, every topoheight from the first one that    *)
(* changes and then executes the new order there; a rewind (pop_blocks)    *)
(* deletes topoheights in descending order.                                *)
(*                                                                         *)
(* An element of Keys is one entry of one tree.  The entries of the tree   *)
(* of contract balances are ContractBalanceKeys: the code that cleans a    *)
(* topoheight does not visit that tree.                                    *)
(***************************************************************************)
EXTENDS Integers

CONSTANTS
    Keys,                \* entries of the pointer trees
    ContractBalanceKeys, \* those of contracts_balances
    Values,              \* what a version stores
    MaxTopo,             \* bound on topoheights
    None                 \* Option::None

ASSUME KeysAssumption == ContractBalanceKeys \subseteq Keys
ASSUME MaxTopoAssumption == MaxTopo \in Nat

Topo == 0 .. MaxTopo
Version == [prev : Topo \cup {None}, val : Values]

ASSUME NoneAssumption == None \notin Int /\ None \notin Values \cup Version

VARIABLES
    pointer,    \* tree_pointer: key -> topoheight of its last version
    versioned,  \* tree_versioned: key -> topoheight -> version
    top,        \* the topoheight saved by set_top_topoheight
    ordered,    \* the last topoheight of the current DAG order (<= top)
    mode,       \* what the holder of the storage lock is doing
    from,       \* first topoheight changed by the re-ordering under way
    at          \* next topoheight the operation under way works on

vars == <<pointer, versioned, top, ordered, mode, from, at>>

Cleaned == Keys \ ContractBalanceKeys
Modes == {"idle", "clean", "execute", "rewind"}

Live(k, t) == versioned[k][t] # None

----------------------------------------------------------------------------
(* Reading: get_{nonce,balance,..}_at_maximum_topoheight. *)

NotFoundOnDisk == -1  \* the version looked up is not there
Diverges == -2        \* the chain has a cycle: the loop never ends

\* The loop over previous versions, started at a version above topoheight t.
Walk(k, t) ==
    LET step[fuel \in 0 .. MaxTopo + 1, p \in Topo] ==
            IF ~Live(k, p) THEN NotFoundOnDisk
            ELSE IF p <= t THEN p
            ELSE IF versioned[k][p].prev = None THEN None
            ELSE IF fuel = 0 THEN Diverges
            ELSE step[fuel - 1, versioned[k][p].prev]
    IN  step

\* Topoheight of the version that is current at topoheight t.
AtMaximum(k, t) ==
    IF pointer[k] = None THEN None
    ELSE IF Live(k, t) THEN t
    ELSE IF pointer[k] <= t THEN pointer[k]
    ELSE Walk(k, t)[MaxTopo + 1, pointer[k]]

----------------------------------------------------------------------------
Init ==
    \E W \in SUBSET Cleaned, v \in Values :
        /\ pointer = [k \in Keys |-> IF k \in W THEN 0 ELSE None]
        /\ versioned = [k \in Keys |-> [t \in Topo |->
                          IF k \in W /\ t = 0 THEN [prev |-> None, val |-> v]
                                              ELSE None]]
        /\ top = 0 /\ ordered = 0
        /\ mode = "idle" /\ from = 0 /\ at = 0

\* A new block changes the order from topoheight b on (b = ordered + 1: it
\* only extends the order).
StartReorder(b) ==
    /\ mode = "idle"
    /\ b <= MaxTopo
    /\ mode' = "clean"
    /\ from' = b
    /\ at' = b
    /\ ordered' = b - 1
    /\ UNCHANGED <<pointer, versioned, top>>

\* Mutant: a pointer at the cleaned topoheight itself is left there.
DeletePointersAbove(t) ==
    [k \in Keys |->
        IF k \in Cleaned /\ Live(k, t) /\ pointer[k] # None /\ pointer[k] > t
        THEN versioned[k][t].prev
        ELSE pointer[k]]

\* delete_versioned_tree_at_topoheight on every tree it is called for, outside
\* a commit point: inside one its removals go through the batch (Snapshot).
DeletePointers(t) ==
    [k \in Keys |->
        IF k \in Cleaned /\ Live(k, t) /\ pointer[k] # None /\ pointer[k] >= t
        THEN versioned[k][t].prev
        ELSE pointer[k]]

\* Mutant: only the version the pointer shows is deleted.
DeleteLastVersions(t) ==
    [k \in Keys |-> IF k \in Cleaned /\ pointer[k] = t
                    THEN [versioned[k] EXCEPT ![t] = None]
                    ELSE versioned[k]]

DeleteVersions(t) ==
    [k \in Keys |-> IF k \in Cleaned
                    THEN [versioned[k] EXCEPT ![t] = None]
                    ELSE versioned[k]]

\* One turn of the loop "detect which part of DAG reorg stay".
CleanTopoheight ==
    /\ mode = "clean"
    /\ at <= top
    /\ pointer' = DeletePointers(at)
    /\ versioned' = DeleteVersions(at)
    /\ at' = at + 1
    /\ UNCHANGED <<top, ordered, mode, from>>

EndClean ==
    /\ mode = "clean"
    /\ at > top
    /\ mode' = "execute"
    /\ at' = from
    /\ UNCHANGED <<pointer, versioned, top, ordered, from>>

\* Mutant: the new version forgets the one before it.
SetLastUnlinked(W, v, t) ==
    /\ pointer' = [k \in Keys |-> IF k \in W THEN t ELSE pointer[k]]
    /\ versioned' = [k \in Keys |->
                       IF k \in W
                       THEN [versioned[k] EXCEPT ![t] = [prev |-> None, val |-> v]]
                       ELSE versioned[k]]

\* apply_changes of one block: a new last version for every key it touched.
SetLast(W, v, t) ==
    /\ pointer' = [k \in Keys |-> IF k \in W THEN t ELSE pointer[k]]
    /\ versioned' = [k \in Keys |->
                       IF k \in W
                       THEN [versioned[k] EXCEPT ![t] =
                               [prev |-> AtMaximum(k, t), val |-> v]]
                       ELSE versioned[k]]

ExecuteBlock(W, v) ==
    /\ mode = "execute"
    /\ at <= MaxTopo
    /\ \A k \in W : AtMaximum(k, at) \in Topo \cup {None}
    /\ SetLast(W, v, at)
    /\ at' = at + 1
    /\ ordered' = at
    /\ UNCHANGED <<top, mode, from>>

\* The topoheight is saved only when the order became longer.
EndReorder ==
    /\ mode = "execute"
    /\ ordered >= 0
    /\ top' = IF ordered > top THEN ordered ELSE top
    /\ mode' = "idle"
    /\ UNCHANGED <<pointer, versioned, ordered, from, at>>

StartRewind ==
    /\ mode = "idle"
    /\ top > 0
    /\ mode' = "rewind"
    /\ at' = top
    /\ UNCHANGED <<pointer, versioned, top, ordered, from>>

\* Mutant: the genesis block is rewound too.
PopGenesisToo ==
    /\ mode = "rewind"
    /\ at >= 0
    /\ pointer' = DeletePointers(at)
    /\ versioned' = DeleteVersions(at)
    /\ at' = at - 1
    /\ ordered' = IF ordered < at THEN ordered ELSE at - 1
    /\ UNCHANGED <<top, mode, from>>

\* One turn of the loop of pop_blocks.
PopTopoheight ==
    /\ mode = "rewind"
    /\ at > 0
    /\ pointer' = DeletePointers(at)
    /\ versioned' = DeleteVersions(at)
    /\ at' = at - 1
    /\ ordered' = IF ordered < at THEN ordered ELSE at - 1
    /\ UNCHANGED <<top, mode, from>>

EndRewind ==
    /\ mode = "rewind"
    /\ at < top
    /\ top' = at
    /\ mode' = "idle"
    /\ UNCHANGED <<pointer, versioned, ordered, from, at>>

Next ==
    \/ \E b \in 0 .. ordered + 1 : StartReorder(b)
    \/ CleanTopoheight
    \/ EndClean
    \/ \E W \in SUBSET Keys, v \in Values : ExecuteBlock(W, v)
    \/ EndReorder
    \/ StartRewind
    \/ PopTopoheight
    \/ EndRewind

Spec == Init /\ [][Next]_vars

----------------------------------------------------------------------------
(* Properties *)

\* The pointers and the links of the versions are topoheights of the chain.
TypeOK ==
    /\ pointer \in [Keys -> Topo \cup {None}]
    /\ versioned \in [Keys -> [Topo -> Version \cup {None}]]
    /\ top \in Topo
    /\ ordered \in -1 .. MaxTopo
    /\ mode \in Modes
    /\ from \in Topo
    /\ at \in 0 .. MaxTopo + 1

\* The previous version recorded by the version at t is the last one below t.
PreviousIsLastBelow(k, t) ==
    LET p == versioned[k][t].prev
    IN  /\ p # None => p < t /\ Live(k, p)
        /\ \A u \in Topo : Live(k, u) /\ u < t => p # None /\ u <= p

\* The chain of k, read from its pointer, visits every version below
\* topoheight s and none above it.
ChainBelow(k, s) ==
    /\ pointer[k] # None => pointer[k] < s /\ Live(k, pointer[k])
    /\ \A t \in Topo : Live(k, t) /\ t < s =>
          /\ pointer[k] # None
          /\ t <= pointer[k]
          /\ PreviousIsLastBelow(k, t)

\* Whatever was re-ordered or rewound, the chain of versions of a key visits
\* each of its versions, newest first, and never a deleted one.  While a
\* re-ordering cleans, a key one of whose versions is already gone shows
\* exactly its versions below the first topoheight that changes.
ChainsWellFormed ==
    \A k \in Cleaned :
        \/ ChainBelow(k, MaxTopo + 1)
        \/ mode = "clean" /\ ChainBelow(k, from)

\* No version of a block that is not in the order any more survives: the
\* fast path of AtMaximum would return it to the block executed next at that
\* topoheight.
NoVersionAboveOrder ==
    \A k \in Cleaned, t \in Topo :
        Live(k, t) => t <= ordered \/ (mode = "clean" /\ t \in at .. top)

----------------------------------------------------------------------------
(* What the trees promise: see TopoHistory. *)

Current(k, t) ==
    LET a == AtMaximum(k, t)
    IN  CASE a = None -> None
          [] a \in Topo /\ Live(k, a) -> versioned[k][a].val
          [] OTHER -> NotFoundOnDisk

History == INSTANCE TopoHistory WITH
    Keys <- Cleaned,
    history <- [i \in 1 .. ordered + 1 |-> [k \in Cleaned |-> Current(k, i - 1)]]

\* Reading a key at a topoheight returns what the last block of the order at
\* or below it wrote, through any sequence of re-orderings and rewinds.
ImplementsHistory == History!Spec

\* Cleaning a topoheight deletes the changes made by its block: no version
\* that a dropped block wrote, in any tree, outlives the cleaning.
ChangesOfBlockDeleted ==
    mode = "execute" => \A k \in Keys, t \in Topo : Live(k, t) => t <= ordered
============================================================================
