------------------------------- MODULE Ledger -------------------------------
(***************************************************************************)
(* The client protocol: which block executes a transaction that several    *)
(* blocks of the DAG hold, while the order of the blocks changes.          *)
(*                                                                         *)
(* An account's transactions are linked: each has the nonce after, and was *)
(* built on the balance left by, the one before it; several may compete    *)
(* for a nonce.  What the versioned data of a topoheight holds is the set  *)
(* of transactions applied there (effect), which is the truth that the     *)
(* marks of the client protocol (executedIn) are about.                    *)
(*                                                                         *)
(* add_new_block and rewind_chain hold the write lock of the storage over  *)
(* their loops: a loop is a phase, one iteration a step, and nothing else  *)
(* happens in between.  The order of the DAG is left open: a new one keeps *)
(* any prefix, holds any stored blocks and may be shorter, which leaves    *)
(* the topoheights above it as they were.  So is which blocks are          *)
(* accepted: no check of a block's transactions is relied on.              *)
(***************************************************************************)
EXTENDS Naturals, FiniteSets, Sequences

CONSTANTS
    Blocks,   \* blocks above the genesis
    Txs,
    Accounts,
    None,
    txs,      \* the transactions of a block, a sequence
    source,   \* the account of a transaction
    after,    \* the transaction of the account it was built on, or None
    nonce     \* its position among the transactions of the account

Holds(b, t) == \E p \in DOMAIN txs[b] : txs[b][p] = t

ASSUME NoneIsNothing == None \notin Blocks /\ None \notin Txs /\ None \notin Nat

ASSUME BlocksHoldTxs == txs \in [Blocks -> Seq(Txs)]

ASSUME TxsLinked ==
    /\ source \in [Txs -> Accounts]
    /\ nonce \in [Txs -> Nat]
    /\ \A t \in Txs :
          \/ after[t] = None /\ nonce[t] = 0
          \/ /\ after[t] \in Txs
             /\ source[after[t]] = source[t]
             /\ nonce[t] = nonce[after[t]] + 1

VARIABLES
    stored,      \* blocks stored
    top,         \* topoheight
    at,          \* hash_at_topo, on 1..top
    executedIn,  \* txs_executed: the block marked as the executor, or None
    linked,      \* tx_blocks
    txStore,     \* transactions stored
    effect,      \* the topoheights a transaction is applied at
    phase,       \* "idle", "clean", "execute", "rewind" or "failed"
    added,       \* the block being added, or None
    new,         \* the order it leads to, on 1..newTop
    newTop,
    kept,        \* the topoheights that keep their block
    i, j,        \* the loops' counters: topoheight and transaction
    expected     \* NonceChecker: the next nonce of an account, or None

vars == <<stored, top, at, executedIn, linked, txStore, effect, phase, added, new, newTop, kept, i, j, expected>>

chain == <<stored, top, at>>
marks == <<executedIn, linked, txStore, effect>>
target == <<added, new, newTop, kept>>

Nonces == {0} \cup {nonce[t] + 1 : t \in Txs}

Unused == [a \in Accounts |-> None]

Init ==
    /\ stored = {}
    /\ top = 0
    /\ at = [k \in 1..0 |-> None]
    /\ executedIn = [t \in Txs |-> None]
    /\ linked = [t \in Txs |-> {}]
    /\ txStore = {}
    /\ effect = [t \in Txs |-> {}]
    /\ phase = "idle"
    /\ added = None
    /\ new = at
    /\ newTop = 0
    /\ kept = 0
    /\ i = 0
    /\ j = 0
    /\ expected = Unused

----------------------------------------------------------------------------
(* The account state an execution reads *)

Applied(a) == {t \in Txs : source[t] = a /\ effect[t] # {}}

\* get_nonce_at_maximum_topoheight: the nonce after the last one applied
IsStoredNonce(a, n) ==
    /\ \A t \in Applied(a) : nonce[t] < n
    /\ n = 0 \/ \E t \in Applied(a) : n = nonce[t] + 1

\* The nonce that use_nonce expects
IsExpected(a, n) == IF expected[a] = None THEN IsStoredNonce(a, n) ELSE n = expected[a]

\* Mutant: the proof of the balance is not verified again.
PartialVerifyNothing(t) == TRUE

\* apply_with_partial_verify: the balance a transaction was built on is the
\* one its account has.
PartialVerify(t) ==
    LET applied == Applied(source[t])
    IN  \/ after[t] = None /\ applied = {}
        \/ after[t] \in applied /\ \A u \in applied : nonce[u] <= nonce[after[t]]

----------------------------------------------------------------------------
(* add_new_block_for_storage *)

IsOrder(n, o, blocks) ==
    /\ o \in [1..n -> blocks]
    /\ \A k, l \in 1..n : o[k] = o[l] => k = l

\* save_block, and the order that the block leads to
StartAdd(b, n, o, keep) ==
    /\ phase = "idle"
    /\ b \notin stored
    /\ stored' = stored \cup {b}
    /\ keep <= top /\ keep <= n
    /\ IsOrder(n, o, stored')
    /\ \A k \in 1..keep : o[k] = at[k] /\ at[k] \in stored
    /\ txStore' = txStore \cup {t \in Txs : Holds(b, t)}
    /\ phase' = "clean"
    /\ added' = b
    /\ new' = o
    /\ newTop' = n
    /\ kept' = keep
    /\ i' = keep + 1
    /\ UNCHANGED <<top, at, executedIn, linked, effect, j, expected>>

\* Mutant: nothing is deleted.
DeleteVersionedDataNot(k) == UNCHANGED effect

\* delete_versioned_data_at_topoheight
DeleteVersionedData(k) == effect' = [t \in Txs |-> effect[t] \ {k}]

\* Mutant: a re-ordered block keeps its transactions marked.
RemoveTxsExecutedNot(b) == UNCHANGED executedIn

RemoveTxsExecuted(b) ==
    executedIn' = [t \in Txs |-> IF Holds(b, t) /\ executedIn[t] = b THEN None ELSE executedIn[t]]

\* A block that is re-ordered: its transactions are unmarked where it executed
\* them, and its changes are deleted.
CleanBlock ==
    /\ phase = "clean"
    /\ i <= top
    /\ RemoveTxsExecuted(at[i])
    /\ DeleteVersionedData(i)
    /\ i' = i + 1
    /\ UNCHANGED <<chain, linked, txStore, phase, target, j, expected>>

\* The new order takes the place of the old one, up to its own length.
StartExecute ==
    /\ phase = "clean"
    /\ i > top
    /\ phase' = "execute"
    /\ top' = IF newTop > top THEN newTop ELSE top
    /\ at' = [k \in 1..top' |-> IF k <= newTop THEN new[k] ELSE at[k]]
    /\ i' = kept + 1
    /\ j' = 1
    /\ expected' = Unused
    /\ UNCHANGED <<stored, marks, target>>

\* The block b at i executes the transaction.
Execute(b, t) ==
    /\ executedIn' = [executedIn EXCEPT ![t] = b]
    /\ effect' = [effect EXCEPT ![t] = @ \cup {i}]
    /\ expected' = [expected EXCEPT ![source[t]] = nonce[t] + 1]

\* Mutant: the mark alone says whether a transaction may be executed.
TryExecuteUnchecked(b, t, n) == Execute(b, t)

\* A transaction that is not marked is tried; a failure uses its nonce.  What
\* a failed one leaves of its changes is not modelled.
TryExecute(b, t, n) ==
    /\ IsExpected(source[t], n)
    /\ \/ /\ nonce[t] # n
          /\ expected' = [expected EXCEPT ![source[t]] = n]
          /\ UNCHANGED <<executedIn, effect>>
       \/ /\ nonce[t] = n
          /\ ~PartialVerify(t)
          /\ expected' = [expected EXCEPT ![source[t]] = n + 1]
          /\ UNCHANGED <<executedIn, effect>>
       \/ /\ nonce[t] = n
          /\ PartialVerify(t)
          /\ Execute(b, t)

ExecuteTx ==
    LET b == at[i]
        t == txs[b][j]
    IN  /\ phase = "execute"
        /\ i <= newTop
        /\ j \in DOMAIN txs[b]
        /\ linked' = [linked EXCEPT ![t] = @ \cup {b}]
        /\ \/ executedIn[t] # None /\ UNCHANGED <<executedIn, effect, expected>>
           \/ executedIn[t] = None /\ \E n \in Nonces : TryExecute(b, t, n)
        /\ j' = j + 1
        /\ UNCHANGED <<chain, txStore, phase, target, i>>

NextBlock ==
    /\ phase = "execute"
    /\ i <= newTop
    /\ j \notin DOMAIN txs[at[i]]
    /\ i' = i + 1
    /\ j' = 1
    /\ UNCHANGED <<chain, marks, phase, target, expected>>

\* Mutant: only the ordered blocks are linked to their transactions.
EndAddNotLinked ==
    /\ phase = "execute"
    /\ i > newTop
    /\ phase' = "idle"
    /\ added' = None
    /\ UNCHANGED <<chain, marks, new, newTop, kept, i, j, expected>>

\* A block that is not ordered is linked to its transactions.
EndAdd ==
    /\ phase = "execute"
    /\ i > newTop
    /\ linked' = [t \in Txs |->
                    IF Holds(added, t) /\ \A k \in 1..newTop : new[k] # added
                    THEN linked[t] \cup {added}
                    ELSE linked[t]]
    /\ phase' = "idle"
    /\ added' = None
    /\ UNCHANGED <<chain, executedIn, effect, txStore, new, newTop, kept, i, j, expected>>

----------------------------------------------------------------------------
(* rewind_chain_for_storage: pop_blocks *)

\* The blocks above the topoheight n are popped.
StartRewind(n) ==
    /\ phase = "idle"
    /\ phase' = "rewind"
    /\ i' = n
    /\ UNCHANGED <<chain, marks, target, j, expected>>

\* Mutant: the transactions of a popped block are deleted with it.
UnlinkedByEvenShared(b) == {t \in Txs : Holds(b, t)}

\* The transactions that no other block is linked to
UnlinkedBy(b) == {t \in Txs : Holds(b, t) /\ linked[t] \subseteq {b}}

\* delete_block_at_topoheight
PopBlock ==
    LET b == at[top]
    IN  /\ phase = "rewind"
        /\ top > i
        /\ b \in stored
        /\ stored' = stored \ {b}
        /\ top' = top - 1
        /\ at' = [k \in 1 .. top - 1 |-> at[k]]
        /\ linked' = [t \in Txs |-> IF Holds(b, t) THEN linked[t] \ {b} ELSE linked[t]]
        /\ executedIn' = [t \in Txs |-> IF Holds(b, t) THEN None ELSE executedIn[t]]
        /\ txStore' = txStore \ UnlinkedBy(b)
        /\ DeleteVersionedData(top)
        /\ UNCHANGED <<phase, target, i, j, expected>>

\* A block that a stale topoheight also pointed to is gone: the rewind ends in
\* an error after it deleted the entry of the order, and the storage keeps what
\* was done.  What the daemon does on this storage is not modelled.
FailRewind ==
    /\ phase = "rewind"
    /\ top > i
    /\ at[top] \notin stored
    /\ at' = [at EXCEPT ![top] = None]
    /\ phase' = "failed"
    /\ UNCHANGED <<stored, top, marks, target, i, j, expected>>

EndRewind ==
    /\ phase = "rewind"
    /\ top <= i
    /\ phase' = "idle"
    /\ UNCHANGED <<chain, marks, target, i, j, expected>>

----------------------------------------------------------------------------

Next ==
    \/ \E b \in Blocks, n \in 0 .. Cardinality(stored) + 1 :
          \E o \in [1..n -> stored \cup {b}], keep \in 0..top : StartAdd(b, n, o, keep)
    \/ CleanBlock
    \/ StartExecute
    \/ ExecuteTx
    \/ NextBlock
    \/ EndAdd
    \/ \E n \in 0..top : StartRewind(n)
    \/ PopBlock
    \/ FailRewind
    \/ EndRewind

Spec == Init /\ [][Next]_vars

----------------------------------------------------------------------------
(* Properties *)

\* The order is gapless from its first topoheight to top unless a rewind
\* failed, and transactions are applied at topoheights of it.
TypeOK ==
    /\ stored \subseteq Blocks
    /\ top \in Nat
    /\ at \in [1..top -> IF phase = "failed" THEN Blocks \cup {None} ELSE Blocks]
    /\ executedIn \in [Txs -> Blocks \cup {None}]
    /\ linked \in [Txs -> SUBSET Blocks]
    /\ txStore \subseteq Txs
    /\ effect \in [Txs -> SUBSET (1..top)]
    /\ phase \in {"idle", "clean", "execute", "rewind", "failed"}
    /\ added \in Blocks \cup {None}
    /\ newTop \in Nat
    /\ new \in [1..newTop -> Blocks]
    /\ kept \in Nat
    /\ i \in Nat
    /\ j \in Nat
    /\ expected \in [Accounts -> Nat \cup {None}]

\* A transaction changes the balances once, whatever the blocks that hold it
\* and however often the order of the blocks changed.
AppliedOnce == \A t \in Txs : \A k, l \in effect[t] : k = l

\* Of the transactions that compete for a nonce, one at most is applied.
NonceUsedOnce ==
    \A t, u \in Txs :
        source[t] = source[u] /\ nonce[t] = nonce[u] /\ effect[t] # {} /\ effect[u] # {} => t = u

\* A transaction marked as executed by a block is applied at a topoheight of
\* that block.
MarksAreApplied ==
    \A t \in Txs : executedIn[t] # None =>
        \E k \in effect[t] : at[k] = executedIn[t]

\* Between two calls, a transaction is applied on the one it was built on, at
\* the same or a lower topoheight.
AppliedInSequence ==
    phase = "idle" => \A t \in Txs : \A k \in effect[t] :
        after[t] # None => \E l \in effect[after[t]] : l <= k

\* The transactions of a stored block are stored: a rewind that pops another
\* of the blocks that hold them keeps them.
TxsOfBlocksKept == \A b \in stored, t \in Txs : Holds(b, t) => t \in txStore

\* Between two calls, the blocks linked to a transaction are the stored blocks
\* that hold it.
LinksAreBlocks ==
    phase = "idle" => \A t \in Txs : linked[t] = {b \in stored : Holds(b, t)}

\* Between two calls, a transaction that is applied is marked as executed.
AppliedAreMarked ==
    phase = "idle" => \A t \in Txs : effect[t] # {} => executedIn[t] # None

=============================================================================
