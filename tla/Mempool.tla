------------------------------- MODULE Mempool -------------------------------
(***************************************************************************)
(* The mempool and its per-account caches, against a chain that is         *)
(* extended, re-ordered and rewound.                                       *)
(*                                                                         *)
(* A transaction spends what the previous transaction of its account left, *)
(* so it verifies exactly when the account's last transaction, on the      *)
(* chain or pending, is the one it was built on.  The chain is the         *)
(* sequence of ordered blocks above the genesis, each with the             *)
(* transactions it executed; the accounts are registered below them.       *)
(* An order that got shorter leaves the topoheight, and the blocks stored  *)
(* above the order, as they were.                                          *)
(*                                                                         *)
(* add_new_block and rewind_chain hold the write lock of the storage, which *)
(* every other addition to the mempool needs for reading: while they add   *)
(* transactions back (todo), nothing else happens.                         *)
(***************************************************************************)
EXTENDS Naturals, Sequences, FiniteSets, SequencesExt

CONSTANTS
    Accounts,
    Txs,
    None,
    source,      \* the account of a transaction
    after,       \* the transaction of the account it was built on, or None
    nonce,       \* its position among the transactions of the account
    MaxBlocks,   \* bound: ordered blocks
    MaxBlockTxs  \* bound: executed transactions of one block

ASSUME TxsLinked ==
    \A t \in Txs :
        /\ source[t] \in Accounts
        /\ IF after[t] = None
           THEN nonce[t] = 0
           ELSE /\ after[t] \in Txs
                /\ source[after[t]] = source[t]
                /\ nonce[t] = nonce[after[t]] + 1

VARIABLES
    chain,       \* executed transactions of the ordered blocks
    topoheight,  \* Blockchain::topoheight
    txs,         \* Mempool::txs
    caches,      \* Mempool::caches, NoCache for an account that has none
    todo         \* transactions that are still to be added back

vars == <<chain, topoheight, txs, caches, todo>>

NoCache == [min |-> 0, max |-> 0, txs |-> <<>>]

\* AccountCache; the expected balances are those after the last of txs.
Cache == [min : Nat, max : Nat, txs : Seq(Txs)]

----------------------------------------------------------------------------
(* The chain state *)

Executed(c) == UNION {Range(c[i]) : i \in DOMAIN c}

\* get_last_nonce
ChainNonce(c, a) == Cardinality({t \in Executed(c) : source[t] = a})

\* t is the next transaction its account can execute on c.
NextOn(c, t) ==
    /\ t \notin Executed(c)
    /\ nonce[t] = ChainNonce(c, source[t])
    /\ after[t] = None \/ after[t] \in Executed(c)

----------------------------------------------------------------------------
(* Adding a transaction *)

HasCache(a) == caches[a] # NoCache

\* AccountCache::has_tx_with_same_nonce: the index is computed from the bounds.
SameNonce(cache, n) ==
    /\ cache.min <= n /\ n <= cache.max
    /\ (n - cache.min) % (cache.max + 1 - cache.min) < Len(cache.txs)

\* Mutant: only the nonce of a transaction is verified.
VerifiesNonce(t) ==
    IF HasCache(source[t])
    THEN nonce[t] = caches[source[t]].max + 1
    ELSE NextOn(chain, t)

\* MempoolState: an account with a cache continues after its pending
\* transactions, any other one after the chain.
Verifies(t) ==
    LET cache == caches[source[t]]
    IN IF HasCache(source[t])
       THEN nonce[t] = cache.max + 1 /\ after[t] = Last(cache.txs)
       ELSE NextOn(chain, t)

\* The checks of add_tx_to_mempool_with_storage_and_hash, and the verification.
Accepts(t) ==
    LET cache == caches[source[t]]
    IN /\ t \notin txs
       /\ t \notin Executed(chain)
       /\ HasCache(source[t]) =>
            /\ ~SameNonce(cache, nonce[t])
            /\ cache.min <= nonce[t] /\ nonce[t] <= cache.max + 1
       /\ Verifies(t)

\* Mutant: the lower bound of a new cache is off by one.
AddedOffByOne(t) ==
    [caches EXCEPT ![source[t]] =
        IF HasCache(source[t])
        THEN [@ EXCEPT !.max = nonce[t], !.txs = Append(@, t)]
        ELSE [min |-> nonce[t] - 1, max |-> nonce[t], txs |-> <<t>>]]

\* Mempool::add_tx
Added(t) ==
    LET cache == caches[source[t]]
    IN [caches EXCEPT ![source[t]] =
          IF HasCache(source[t])
          THEN [min |-> IF nonce[t] < cache.min THEN nonce[t] ELSE cache.min,
                max |-> IF nonce[t] > cache.max THEN nonce[t] ELSE cache.max,
                txs |-> Append(cache.txs, t)]
          ELSE [min |-> nonce[t], max |-> nonce[t], txs |-> <<t>>]]

AddTx(t) ==
    /\ todo = <<>>
    /\ Accepts(t)
    /\ txs' = txs \cup {t}
    /\ caches' = Added(t)
    /\ UNCHANGED <<chain, topoheight, todo>>

\* The next transaction is added back if it is accepted, and lost otherwise.
AddBack ==
    /\ todo # <<>>
    /\ todo' = Tail(todo)
    /\ IF Accepts(Head(todo))
       THEN txs' = txs \cup {Head(todo)} /\ caches' = Added(Head(todo))
       ELSE UNCHANGED <<txs, caches>>
    /\ UNCHANGED <<chain, topoheight>>

----------------------------------------------------------------------------
(* Cleaning up *)

\* Transaction::verify_batch against the storage, the caches being swapped out.
VerifyBatch(c, batch) ==
    \A i \in DOMAIN batch :
        IF i = 1 THEN NextOn(c, batch[1])
        ELSE nonce[batch[i]] = nonce[batch[i - 1]] + 1 /\ after[batch[i]] = batch[i - 1]

\* Mutant: the bounds of the cache are not updated.
CleanedKeepBounds(c, a, cache) ==
    LET kept == SelectSeq(cache.txs, LAMBDA t : nonce[t] >= ChainNonce(c, a))
    IN IF cache.min > ChainNonce(c, a) \/ kept = <<>> THEN NoCache
       ELSE [cache EXCEPT !.txs = kept]

\* What clean_up leaves of the cache of account a when the chain is c.
Cleaned(c, a, cache) ==
    LET kept == SelectSeq(cache.txs, LAMBDA t : nonce[t] >= ChainNonce(c, a))
        nonces == {nonce[t] : t \in Range(kept)}
    IN IF \/ cache.min > ChainNonce(c, a)
          \/ kept = <<>>
          \/ kept # cache.txs /\ ~VerifyBatch(c, kept)
       THEN NoCache
       ELSE [min |-> Min(nonces), max |-> Max(nonces), txs |-> kept]

\* Mempool::clean_up
CleanUp(c) ==
    /\ caches' = [a \in Accounts |-> IF HasCache(a) THEN Cleaned(c, a, caches[a]) ELSE NoCache]
    /\ txs' = {t \in txs : t \in Range(caches'[source[t]].txs)}

----------------------------------------------------------------------------
(* The chain changes *)

\* Sequences of transactions one block can execute on c.
RECURSIVE Blocks(_, _)
Blocks(c, n) ==
    {<<>>} \cup
        IF n = 0 THEN {}
        ELSE UNION {{<<t>> \o b : b \in Blocks(Append(c, <<t>>), n - 1)} :
                        t \in {u \in Txs : NextOn(c, u)}}

\* Orders that keep the first blocks of the chain and add one or two others.
NewOrders ==
    {o \in UNION {LET kept == SubSeq(chain, 1, n)
                      once == {Append(kept, b) : b \in Blocks(kept, MaxBlockTxs)}
                  IN once \cup UNION {{Append(o, b) : b \in Blocks(o, MaxBlockTxs)} : o \in once} :
                  n \in 0 .. Len(chain)} : Len(o) <= MaxBlocks}

\* The transactions to add back, each once: those chain executed and the order
\* c does not, oldest first, then those that failed in the blocks of c.
Orphaned(c, failed) ==
    LET dropped == SelectSeq(FlattenSeq(chain), LAMBDA t : t \notin Executed(c))
    IN dropped \o SelectSeq(failed, LAMBDA t : t \notin Range(dropped))

\* Mutant: the mempool is only cleaned if the topoheight grows.
AddNewBlockExtended(c, failed, tracked) ==
    /\ chain' = c
    /\ topoheight' = Max({topoheight, Len(c)})
    /\ IF Len(c) > topoheight THEN CleanUp(c) ELSE UNCHANGED <<txs, caches>>
    /\ todo' = SelectSeq(Orphaned(c, failed), LAMBDA t : ~(tracked /\ t \in txs \ txs'))

\* A block is added and the order becomes c, whose last block is at the
\* highest topoheight written.  The topoheight never decreases, and the
\* mempool is only cleaned if the order reaches it; a client that tracks
\* orphaned transactions makes the node forget the orphans that were deleted
\* from the mempool.
AddNewBlock(c, failed, tracked) ==
    /\ chain' = c
    /\ topoheight' = Max({topoheight, Len(c)})
    /\ IF Len(c) >= topoheight THEN CleanUp(c) ELSE UNCHANGED <<txs, caches>>
    /\ todo' = SelectSeq(Orphaned(c, failed), LAMBDA t : ~(tracked /\ t \in txs \ txs'))

\* pop_blocks, from the topoheight down.  The transactions popped, last block
\* first, and those of the mempool, in the order of a hash map, are added
\* back.  Blocks above a shorter order are popped too: unexecuted are the
\* transactions they held.
RewindChain(n, unexecuted) ==
    LET left == Min({Len(chain), topoheight - n})
    IN  /\ todo = <<>>
        /\ n <= topoheight
        /\ chain' = SubSeq(chain, 1, left)
        /\ topoheight' = topoheight - n
        /\ \E drained \in SetToSeqs(txs) :
             todo' = unexecuted \o FlattenSeq(Reverse(SubSeq(chain, left + 1, Len(chain)))) \o drained
        /\ txs' = {}
        /\ caches' = [a \in Accounts |-> NoCache]

\* Mempool::clear, of the administrator's command
Clear ==
    /\ todo = <<>>
    /\ txs' = {}
    /\ caches' = [a \in Accounts |-> NoCache]
    /\ UNCHANGED <<chain, topoheight, todo>>

Init ==
    /\ chain = <<>>
    /\ topoheight = 0
    /\ txs = {}
    /\ caches = [a \in Accounts |-> NoCache]
    /\ todo = <<>>

Next ==
    \/ \E t \in Txs : AddTx(t)
    \/ AddBack
    \/ todo = <<>> /\ \E c \in NewOrders, tracked \in BOOLEAN :
         \E failed \in {<<>>} \cup {<<t>> : t \in Txs \ Executed(c)} :
            AddNewBlock(c, failed, tracked)
    \/ \E n \in 1 .. MaxBlocks :
         \E unexecuted \in {<<>>} \cup {<<t>> : t \in Txs \ Executed(chain)} :
            RewindChain(n, unexecuted)
    \/ Clear

Spec == Init /\ [][Next]_vars

----------------------------------------------------------------------------
(* Properties *)

\* The mempool holds transactions by hash and, for each account, a list of
\* them with the range of its nonces.
TypeOK ==
    /\ chain \in Seq(Seq(Txs)) /\ topoheight \in Len(chain) .. MaxBlocks
    /\ txs \in SUBSET Txs
    /\ caches \in [Accounts -> Cache]
    /\ todo \in Seq(Txs)

\* The caches index the mempool: each pending transaction is in the cache of
\* its account, and the one with nonce n is at index n - min.  The lookup of a
\* nonce (has_tx_with_same_nonce) computes that index and trusts it; cleaning,
\* re-ordering and adding back must never leave a gap.
CachesIndexTxs ==
    /\ \A t \in txs : t \in Range(caches[source[t]].txs)
    /\ \A a \in Accounts : HasCache(a) =>
         LET cache == caches[a]
         IN /\ Len(cache.txs) = cache.max + 1 - cache.min
            /\ \A i \in DOMAIN cache.txs :
                 /\ cache.txs[i] \in txs
                 /\ source[cache.txs[i]] = a
                 /\ nonce[cache.txs[i]] = cache.min + i - 1

\* The pending transactions of an account were each built on the one before,
\* so they can be executed in the order of the cache: no two branches of the
\* account's history are ever mixed.
PendingLinked ==
    \A a \in Accounts : \A i \in DOMAIN caches[a].txs :
        i > 1 => after[caches[a].txs[i]] = caches[a].txs[i - 1]

\* The mempool is behind the chain only while the topoheight is above the last
\* ordered block.  add_new_block skips the clean-up after an order that got
\* shorter; as soon as an order reaches the topoheight again, or a rewind
\* lowers it, no executed transaction is pending and the pending ones of each
\* account start at the account's nonce.
BehindOnlyIfShorter ==
    topoheight = Len(chain) =>
        /\ txs \cap Executed(chain) = {}
        /\ \A a \in Accounts : HasCache(a) => caches[a].min = ChainNonce(chain, a)

\* "We don't have to reverify each TXs. They must be valid": the pending
\* transactions a clean-up keeps verify on the new chain.
KeptVerify ==
    [][\A c \in {chain'} : chain' # chain /\ Len(c) >= topoheight =>
         \A a \in Accounts : VerifyBatch(c, caches'[a].txs)]_vars
==============================================================================
