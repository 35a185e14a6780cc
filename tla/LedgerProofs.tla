---------------------------- MODULE LedgerProofs ----------------------------
(***************************************************************************)
(* The properties of Ledger, for every set of blocks and transactions.     *)
(*                                                                         *)
(* The loops of add_new_block break the properties while they run: the     *)
(* inductive invariant says how far each of them is (Cleaned, Executed,    *)
(* Linked), and what the nonce checker knows (ExpectedAbove).              *)
(***************************************************************************)
EXTENDS Ledger, TLAPS

Adding == phase \in {"clean", "execute"}

\* The order being put in place, made of stored blocks; the kept blocks were
\* ordered before.
NewOrder ==
    Adding =>
        /\ added \in stored
        /\ kept <= newTop
        /\ kept < i
        /\ \A k \in 1..newTop : new[k] \in stored
        /\ \A k \in 1..kept : new[k] # added

\* The data above the kept topoheights is gone, up to the loop's counter.
Cleaned ==
    phase = "clean" =>
        /\ kept <= top
        /\ \A k \in 1..kept : new[k] = at[k]
        /\ \A t \in Txs : \A k \in effect[t] : k <= kept \/ k >= i

\* Nothing is applied above the block being executed.
Executed ==
    phase = "execute" =>
        /\ newTop <= top
        /\ j >= 1
        /\ \A k \in 1..newTop : new[k] = at[k]
        /\ \A t \in Txs : \A k \in effect[t] : k <= i

\* The expected nonce is above every nonce applied.
ExpectedAbove ==
    phase = "execute" =>
        \A t \in Txs : effect[t] # {} /\ expected[source[t]] # None => nonce[t] < expected[source[t]]

\* A mark names a stored block that holds the transaction.
MarksAreHeld ==
    \A t \in Txs : executedIn[t] # None => executedIn[t] \in stored /\ Holds(executedIn[t], t)

\* A block is linked to the transactions it holds, except for the one that is
\* being added until its transactions are executed.
Linked ==
    /\ phase # "failed" => \A t \in Txs : \A b \in linked[t] : b \in stored /\ Holds(b, t)
    /\ phase # "failed" => \A b \in stored, t \in Txs :
          Holds(b, t) => b \in linked[t] \/ (Adding /\ b = added)
    /\ phase = "execute" =>
          /\ \A k \in 1..newTop, t \in Txs :
                kept < k /\ k < i /\ Holds(at[k], t) => at[k] \in linked[t]
          /\ i <= newTop => \A p \in DOMAIN txs[at[i]] : p < j => at[i] \in linked[txs[at[i]][p]]

\* What a transaction was built on is applied, below the topoheights that are
\* being cleaned.
InSequence ==
    \A t \in Txs : \A k \in effect[t] :
        (phase = "clean" => k <= kept) /\ after[t] # None => \E l \in effect[after[t]] : l <= k

Inv ==
    /\ TypeOK
    /\ NewOrder
    /\ Cleaned
    /\ Executed
    /\ ExpectedAbove
    /\ MarksAreHeld
    /\ Linked
    /\ InSequence
    /\ AppliedOnce
    /\ NonceUsedOnce
    /\ MarksAreApplied
    /\ TxsOfBlocksKept

----------------------------------------------------------------------------

\* The initial state, with the genesis alone, satisfies the invariant.
LEMMA InitInv == Init => Inv
<1> SUFFICES ASSUME Init PROVE Inv
  OBVIOUS
<1>1. TypeOK
  BY DEF Init, TypeOK, Unused
<1>2. NewOrder /\ Cleaned /\ Executed /\ ExpectedAbove /\ Linked
  BY DEF Init, NewOrder, Cleaned, Executed, ExpectedAbove, Linked, Adding
<1>3. MarksAreHeld /\ MarksAreApplied /\ InSequence /\ AppliedOnce /\ NonceUsedOnce /\ TxsOfBlocksKept
  BY DEF Init, MarksAreHeld, MarksAreApplied, InSequence, AppliedOnce, NonceUsedOnce, TxsOfBlocksKept
<1> QED
  BY <1>1, <1>2, <1>3 DEF Inv

\* save_block and the new order preserve the invariant.
LEMMA StartAddKeeps ==
    ASSUME Inv, NEW b \in Blocks, NEW n \in Nat, NEW o, NEW keep \in Nat, StartAdd(b, n, o, keep)
    PROVE  Inv'
<1>1. TypeOK'
  BY DEF Inv, TypeOK, StartAdd, IsOrder
<1>2. NewOrder'
  BY DEF Inv, NewOrder, StartAdd, IsOrder
<1>3. Cleaned'
  BY DEF Inv, Cleaned, StartAdd, TypeOK
<1>4. Executed' /\ ExpectedAbove'
  BY DEF Executed, ExpectedAbove, StartAdd
<1>5. Linked'
  BY DEF Inv, Linked, StartAdd, TypeOK, Adding
<1>6. MarksAreHeld' /\ MarksAreApplied' /\ InSequence'
  BY DEF Inv, MarksAreHeld, MarksAreApplied, InSequence, StartAdd
<1>7. AppliedOnce' /\ NonceUsedOnce'
  BY DEF Inv, AppliedOnce, NonceUsedOnce, StartAdd
<1>8. TxsOfBlocksKept'
  BY DEF Inv, TxsOfBlocksKept, StartAdd
<1> QED
  BY <1>1, <1>2, <1>3, <1>4, <1>5, <1>6, <1>7, <1>8 DEF Inv

\* An iteration of the loop that cleans the old order preserves it.
LEMMA CleanBlockKeeps == ASSUME Inv, CleanBlock PROVE Inv'
<1>1. TypeOK'
  BY DEF Inv, TypeOK, CleanBlock, RemoveTxsExecuted, DeleteVersionedData, chain, target
<1>2. NewOrder' /\ Executed' /\ ExpectedAbove' /\ Linked'
  BY DEF Inv, TypeOK, NewOrder, Executed, ExpectedAbove, Linked, Adding, CleanBlock, chain, target
<1>3. Cleaned'
  BY DEF Inv, TypeOK, Cleaned, CleanBlock, DeleteVersionedData, chain, target
<1>4. MarksAreHeld'
  BY DEF Inv, MarksAreHeld, CleanBlock, RemoveTxsExecuted, chain
<1>5. \A t \in Txs : effect'[t] = effect[t] \ {i}
  BY DEF CleanBlock, DeleteVersionedData
<1>6. MarksAreApplied'
  BY <1>5 DEF Inv, TypeOK, MarksAreApplied, MarksAreHeld, CleanBlock, RemoveTxsExecuted, chain
\* What a kept transaction was built on is kept as well.
<1>7. InSequence'
  <2> SUFFICES ASSUME NEW t \in Txs, NEW k \in effect'[t], k <= kept, after[t] # None
               PROVE  \E l \in effect'[after[t]] : l <= k
    BY DEF InSequence, CleanBlock, target
  <2>1. after[t] \in Txs /\ kept < i /\ kept \in Nat /\ i \in Nat /\ k \in Nat
    BY <1>5, TxsLinked DEF Inv, TypeOK, NewOrder, Adding, CleanBlock
  <2>2. PICK l \in effect[after[t]] : l <= k
    BY <1>5 DEF Inv, InSequence
  <2>3. l # i
    BY <2>1, <2>2
  <2> QED
    BY <1>5, <2>1, <2>2, <2>3
<1>8. AppliedOnce' /\ NonceUsedOnce'
  BY <1>5 DEF Inv, AppliedOnce, NonceUsedOnce
<1>9. TxsOfBlocksKept'
  BY DEF Inv, TxsOfBlocksKept, CleanBlock, chain
<1> QED
  BY <1>1, <1>2, <1>3, <1>4, <1>6, <1>7, <1>8, <1>9 DEF Inv

\* Putting the new order in place preserves it.
LEMMA StartExecuteKeeps == ASSUME Inv, StartExecute PROVE Inv'
\* Everything above the kept topoheights is cleaned.
<1>1. \A t \in Txs : \A k \in effect[t] : k \in 1..kept
  BY DEF Inv, TypeOK, Cleaned, StartExecute
<1>2. /\ kept \in Nat /\ newTop \in Nat /\ top \in Nat /\ top' \in Nat
      /\ kept <= newTop /\ newTop <= top' /\ top <= top' /\ kept <= top
  BY DEF Inv, TypeOK, NewOrder, Cleaned, Adding, StartExecute
<1>3. TypeOK'
  <2>1. at' \in [1..top' -> Blocks]
    BY <1>2 DEF Inv, TypeOK, StartExecute
  <2>2. effect' \in [Txs -> SUBSET (1..top')]
    BY <1>2 DEF Inv, TypeOK, StartExecute, marks
  <2> QED
    BY <1>2, <2>1, <2>2 DEF Inv, TypeOK, StartExecute, Unused, marks, target
<1>4. NewOrder' /\ Cleaned'
  BY DEF Inv, TypeOK, NewOrder, Cleaned, Adding, StartExecute, target
<1>5. Executed'
  BY <1>1, <1>2 DEF Executed, StartExecute, marks, target
<1>6. ExpectedAbove'
  BY TxsLinked DEF ExpectedAbove, StartExecute, Unused
<1>7. Linked'
  BY BlocksHoldTxs DEF Inv, TypeOK, Linked, Adding, StartExecute, marks, target
<1>8. MarksAreHeld' /\ AppliedOnce' /\ NonceUsedOnce' /\ TxsOfBlocksKept'
  BY DEF Inv, MarksAreHeld, AppliedOnce, NonceUsedOnce, TxsOfBlocksKept, StartExecute, marks
<1>9. InSequence'
  BY <1>1 DEF Inv, InSequence, StartExecute, marks
<1>10. MarksAreApplied'
  <2>1. \A k \in 1..kept : at'[k] = at[k]
    BY <1>2 DEF Inv, Cleaned, StartExecute
  <2> QED
    BY <1>1, <2>1 DEF Inv, MarksAreApplied, StartExecute, marks
<1> QED
  BY <1>3, <1>4, <1>5, <1>6, <1>7, <1>8, <1>9, <1>10 DEF Inv

\* What a step of the execution loop does to the transaction t of the block b
LEMMA TryOutcome ==
    ASSUME TypeOK, ExpectedAbove, phase = "execute", NEW b \in Blocks, NEW t \in Txs,
           NEW n \in Nonces, TryExecute(b, t, n)
    PROVE  LET Above(m) == \A u \in Txs : source[u] = source[t] /\ effect[u] # {} => nonce[u] < m
           IN  \/ /\ UNCHANGED <<executedIn, effect>>
                  /\ \E m \in Nat : Above(m) /\ expected' = [expected EXCEPT ![source[t]] = m]
               \/ Above(nonce[t]) /\ PartialVerify(t) /\ Execute(b, t)
<1> DEFINE Above(m) == \A u \in Txs : source[u] = source[t] /\ effect[u] # {} => nonce[u] < m
<1>1. n \in Nat
  BY TxsLinked DEF Nonces
<1>2. Above(n) /\ Above(n + 1)
  <2>1. IsExpected(source[t], n)
    BY DEF TryExecute
  <2>2. CASE expected[source[t]] = None
    <3>1. \A u \in Applied(source[t]) : nonce[u] < n
      BY <2>1, <2>2 DEF IsExpected, IsStoredNonce
    <3>2. Above(n)
      BY <3>1 DEF Applied
    <3> QED
      BY <1>1, <3>2, TxsLinked
  <2>3. CASE expected[source[t]] # None
    <3>1. n = expected[source[t]]
      BY <2>1, <2>3 DEF IsExpected
    <3>2. Above(n)
      BY <2>3, <3>1 DEF ExpectedAbove
    <3> QED
      BY <1>1, <3>2, TxsLinked
  <2> QED
    BY <2>2, <2>3
<1>3. n + 1 \in Nat
  BY <1>1
<1> HIDE DEF Above
<1>4. CASE nonce[t] # n /\ expected' = [expected EXCEPT ![source[t]] = n] /\ UNCHANGED <<executedIn, effect>>
  BY <1>1, <1>2, <1>4 DEF Above
<1>5. CASE nonce[t] = n /\ expected' = [expected EXCEPT ![source[t]] = n + 1] /\ UNCHANGED <<executedIn, effect>>
  BY <1>2, <1>3, <1>5 DEF Above
<1>6. CASE nonce[t] = n /\ PartialVerify(t) /\ Execute(b, t)
  BY <1>2, <1>6 DEF Above
<1> QED
  BY <1>4, <1>5, <1>6 DEF TryExecute

\* An iteration of the loop that executes transactions preserves it.
LEMMA ExecuteTxKeeps == ASSUME Inv, ExecuteTx PROVE Inv'
<1> DEFINE b == at[i]
           t == txs[b][j]
           Above(m) == \A u \in Txs : source[u] = source[t] /\ effect[u] # {} => nonce[u] < m
<1>1. /\ b \in Blocks /\ b \in stored /\ t \in Txs /\ Holds(b, t)
      /\ i \in 1..top /\ i \in 1..newTop /\ i \in Nat /\ j \in Nat
      /\ source[t] \in Accounts /\ nonce[t] \in Nat
  <2>1. i \in Nat /\ j \in Nat /\ i \in 1..newTop /\ i \in 1..top
    BY DEF Inv, TypeOK, ExecuteTx, Executed, NewOrder, Adding
  <2>2. b \in Blocks /\ b \in stored
    BY <2>1 DEF Inv, TypeOK, ExecuteTx, Executed, NewOrder, Adding
  <2>3. j \in DOMAIN txs[b]
    BY DEF ExecuteTx
  <2>4. t \in Txs /\ Holds(b, t)
    BY <2>2, <2>3, BlocksHoldTxs DEF Holds
  <2> QED
    BY <2>1, <2>2, <2>4, TxsLinked
<1>2. /\ phase = "execute" /\ UNCHANGED <<chain, txStore, phase, target, i>>
      /\ linked' = [linked EXCEPT ![t] = @ \cup {b}]
      /\ j' = j + 1 /\ j \in DOMAIN txs[b]
  BY DEF ExecuteTx
<1>3. \/ UNCHANGED <<executedIn, effect, expected>>
      \/ /\ UNCHANGED <<executedIn, effect>>
         /\ \E m \in Nat : Above(m) /\ expected' = [expected EXCEPT ![source[t]] = m]
      \/ executedIn[t] = None /\ Above(nonce[t]) /\ PartialVerify(t) /\ Execute(b, t)
  BY <1>1, <1>2, TryOutcome DEF ExecuteTx, Inv
<1> HIDE DEF b, t, Above
<1>4. NewOrder' /\ Cleaned'
  BY <1>2 DEF Inv, NewOrder, Cleaned, Adding, chain, target
<1>5. TxsOfBlocksKept'
  BY <1>2 DEF Inv, TxsOfBlocksKept, chain
<1>6. Linked'
  <2>1. linked' \in [Txs -> SUBSET Blocks]
    BY <1>1, <1>2 DEF Inv, TypeOK
  <2>2. \A u \in Txs : linked'[u] = IF u = t THEN linked[u] \cup {b} ELSE linked[u]
    BY <1>1, <1>2 DEF Inv, TypeOK
  <2>3. \A u \in Txs : \A c \in linked'[u] : c \in stored /\ Holds(c, u)
    BY <1>1, <1>2, <2>2 DEF Inv, Linked
  <2>4. \A c \in stored, u \in Txs : Holds(c, u) => c \in linked'[u] \/ (Adding /\ c = added)
    BY <1>1, <1>2, <2>2 DEF Inv, Linked
  <2>5. \A k \in 1..newTop, u \in Txs : kept < k /\ k < i /\ Holds(at[k], u) => at[k] \in linked'[u]
    BY <1>1, <1>2, <2>2 DEF Inv, Linked
  <2>6. \A p \in DOMAIN txs[at[i]] : p < j + 1 => at[i] \in linked'[txs[at[i]][p]]
    <3> SUFFICES ASSUME NEW p \in DOMAIN txs[at[i]], p < j + 1
                 PROVE  at[i] \in linked'[txs[at[i]][p]]
      OBVIOUS
    <3>1. txs[at[i]][p] \in Txs /\ p \in Nat
      BY <1>1, BlocksHoldTxs DEF b
    <3>2. CASE p = j
      BY <3>2, <3>1, <2>2 DEF b, t
    <3>3. CASE p # j
      BY <3>3, <3>1, <2>2, <1>1, <1>2 DEF Inv, Linked, b
    <3> QED
      BY <3>2, <3>3
  <2> QED
    BY <1>2, <2>3, <2>4, <2>5, <2>6 DEF Linked, Adding, chain, target
<1>7. CASE UNCHANGED <<executedIn, effect, expected>>
  <2>1. TypeOK'
    BY <1>1, <1>2, <1>7 DEF Inv, TypeOK, chain, target
  <2>2. Executed' /\ ExpectedAbove' /\ MarksAreHeld' /\ InSequence'
    BY <1>1, <1>2, <1>7 DEF Inv, Executed, ExpectedAbove, MarksAreHeld, InSequence, chain, target
  <2>3. AppliedOnce' /\ NonceUsedOnce' /\ MarksAreApplied'
    BY <1>2, <1>7 DEF Inv, AppliedOnce, NonceUsedOnce, MarksAreApplied, chain, target
  <2> QED
    BY <1>4, <1>5, <1>6, <2>1, <2>2, <2>3 DEF Inv
<1>8. ASSUME UNCHANGED <<executedIn, effect>>, NEW m \in Nat, Above(m),
             expected' = [expected EXCEPT ![source[t]] = m]
      PROVE  Inv'
  <2>1. TypeOK'
    BY <1>1, <1>2, <1>8 DEF Inv, TypeOK, chain, target
  <2>2. Executed' /\ MarksAreHeld' /\ InSequence'
    BY <1>1, <1>2, <1>8 DEF Inv, Executed, MarksAreHeld, InSequence, chain, target
  <2>3. AppliedOnce' /\ NonceUsedOnce' /\ MarksAreApplied'
    BY <1>2, <1>8 DEF Inv, AppliedOnce, NonceUsedOnce, MarksAreApplied, chain, target
  <2>4. ExpectedAbove'
    BY <1>1, <1>2, <1>8, TxsLinked DEF Inv, TypeOK, ExpectedAbove, Above
  <2> QED
    BY <1>4, <1>5, <1>6, <2>1, <2>2, <2>3, <2>4 DEF Inv
<1>9. CASE executedIn[t] = None /\ Above(nonce[t]) /\ PartialVerify(t) /\ Execute(b, t)
  <2>1. effect[t] = {}
    BY <1>1, <1>9 DEF Above
  <2>2. /\ executedIn' = [executedIn EXCEPT ![t] = b]
        /\ \A u \in Txs : effect'[u] = IF u = t THEN {i} ELSE effect[u]
        /\ expected' = [expected EXCEPT ![source[t]] = nonce[t] + 1]
    BY <1>1, <1>9, <2>1 DEF Execute, Inv, TypeOK
  <2>3. effect' \in [Txs -> SUBSET (1..top)]
    BY <1>1, <1>9, <2>1 DEF Execute, Inv, TypeOK
  <2>4. TypeOK'
    <3>1. linked' \in [Txs -> SUBSET Blocks] /\ j' \in Nat
      BY <1>1, <1>2 DEF Inv, TypeOK
    <3>2. executedIn' \in [Txs -> Blocks \cup {None}]
      BY <1>1, <2>2 DEF Inv, TypeOK
    <3>3. expected' \in [Accounts -> Nat \cup {None}]
      BY <1>1, <2>2 DEF Inv, TypeOK
    <3> QED
      BY <1>2, <2>3, <3>1, <3>2, <3>3 DEF Inv, TypeOK, chain, target
  <2>5. Executed'
    BY <1>1, <1>2, <2>2 DEF Inv, Executed, chain, target
  <2>6. ExpectedAbove'
    <3> SUFFICES ASSUME NEW u \in Txs, effect'[u] # {}, expected'[source[u]] # None
                 PROVE  nonce[u] < expected'[source[u]]
      BY DEF ExpectedAbove
    <3>1. source[u] \in Accounts /\ nonce[u] \in Nat
      BY TxsLinked
    <3>2. CASE source[u] = source[t]
      <4>1. expected'[source[u]] = nonce[t] + 1
        BY <1>1, <2>2, <3>1, <3>2 DEF Inv, TypeOK
      <4>2. u = t \/ nonce[u] < nonce[t]
        BY <1>9, <2>2, <3>2 DEF Above
      <4> QED
        BY <1>1, <3>1, <4>1, <4>2
    <3>3. CASE source[u] # source[t]
      <4>1. expected'[source[u]] = expected[source[u]] /\ effect[u] # {}
        BY <1>1, <2>2, <3>1, <3>3 DEF Inv, TypeOK
      <4> QED
        BY <1>2, <4>1 DEF Inv, ExpectedAbove
    <3> QED
      BY <3>2, <3>3
  <2>7. MarksAreHeld'
    BY <1>1, <1>2, <2>2 DEF Inv, TypeOK, MarksAreHeld, chain
  <2>8. AppliedOnce'
    BY <2>2 DEF Inv, AppliedOnce
  <2>9. NonceUsedOnce'
    BY <1>1, <1>9, <2>2, TxsLinked DEF Inv, NonceUsedOnce, Above
  <2>10. MarksAreApplied'
    BY <1>1, <1>2, <2>1, <2>2 DEF Inv, TypeOK, MarksAreApplied, chain, b
  <2>11. InSequence'
    <3> SUFFICES ASSUME NEW u \in Txs, NEW k \in effect'[u], after[u] # None
                 PROVE  \E l \in effect'[after[u]] : l <= k
      BY <1>2 DEF InSequence
    <3>1. CASE u = t
      <4>1. after[t] \in Txs /\ effect[after[t]] # {} /\ after[t] # t
        BY <1>9, <3>1, <1>1, <2>1, TxsLinked DEF PartialVerify, Applied
      <4>2. PICK l \in effect[after[t]] : TRUE
        BY <4>1
      <4>3. l <= i
        BY <1>2, <4>1, <4>2 DEF Inv, Executed
      <4> QED
        BY <2>2, <3>1, <4>1, <4>2, <4>3
    <3>2. CASE u # t
      <4>1. \E l \in effect[after[u]] : l <= k
        BY <1>2, <2>2, <3>2 DEF Inv, InSequence
      <4>2. after[u] # t /\ after[u] \in Txs
        BY <4>1, <2>1, TxsLinked
      <4> QED
        BY <2>2, <4>1, <4>2
    <3> QED
      BY <3>1, <3>2
  <2> QED
    BY <1>4, <1>5, <1>6, <2>4, <2>5, <2>6, <2>7, <2>8, <2>9, <2>10, <2>11 DEF Inv
<1> QED
  BY <1>3, <1>7, <1>8, <1>9

\* Going on with the next block of the order preserves it.
LEMMA NextBlockKeeps == ASSUME Inv, NextBlock PROVE Inv'
<1>1. TypeOK' /\ TxsOfBlocksKept'
  BY DEF Inv, TypeOK, TxsOfBlocksKept, NextBlock, chain, marks, target
<1>2. NewOrder' /\ Cleaned' /\ Executed' /\ ExpectedAbove'
  BY DEF Inv, TypeOK, NewOrder, Cleaned, Executed, ExpectedAbove, Adding, NextBlock, chain, marks, target
<1>3. MarksAreHeld' /\ MarksAreApplied' /\ InSequence'
  BY DEF Inv, MarksAreHeld, MarksAreApplied, InSequence, NextBlock, chain, marks, target
<1>4. AppliedOnce' /\ NonceUsedOnce'
  BY DEF Inv, AppliedOnce, NonceUsedOnce, NextBlock, marks
<1>5. Linked'
  <2>1. i \in 1..newTop /\ i \in 1..top /\ i \in Nat /\ j \in Nat /\ at[i] \in Blocks
    BY DEF Inv, TypeOK, NewOrder, Executed, Adding, NextBlock
  <2>2. \A p \in DOMAIN txs[at[i]] : p < j
    BY <2>1, BlocksHoldTxs DEF Inv, Executed, NextBlock
  <2>3. \A t \in Txs : Holds(at[i], t) => at[i] \in linked[t]
    BY <2>1, <2>2 DEF Inv, Linked, Holds, NextBlock
  <2>4. \A k \in 1..newTop, t \in Txs :
           kept < k /\ k < i + 1 /\ Holds(at[k], t) => at[k] \in linked[t]
    BY <2>1, <2>3 DEF Inv, Linked, NextBlock
  <2>5. i + 1 <= newTop => \A p \in DOMAIN txs[at[i + 1]] : ~(p < 1)
    BY <2>1, BlocksHoldTxs DEF Inv, TypeOK, Executed, NextBlock
  <2> QED
    BY <2>4, <2>5 DEF Inv, Linked, Adding, NextBlock, chain, marks, target
<1> QED
  BY <1>1, <1>2, <1>3, <1>4, <1>5 DEF Inv

\* The end of add_new_block preserves it.
LEMMA EndAddKeeps == ASSUME Inv, EndAdd PROVE Inv'
<1>1. added \in stored /\ added \in Blocks
  BY DEF Inv, TypeOK, NewOrder, Adding, EndAdd
<1>2. TypeOK'
  BY <1>1 DEF Inv, TypeOK, EndAdd, chain
<1>3. NewOrder' /\ Cleaned' /\ Executed' /\ ExpectedAbove'
  BY DEF NewOrder, Cleaned, Executed, ExpectedAbove, Adding, EndAdd
\* An ordered block is above the kept ones: the loop linked it.
<1>4. Linked'
  <2>1. \A t \in Txs : Holds(added, t) => added \in linked'[t]
    BY DEF Inv, TypeOK, NewOrder, Executed, Linked, Adding, EndAdd
  <2> QED
    BY <1>1, <2>1 DEF Inv, TypeOK, Linked, Adding, EndAdd, chain
<1>5. MarksAreHeld' /\ MarksAreApplied' /\ InSequence'
  BY DEF Inv, MarksAreHeld, MarksAreApplied, InSequence, EndAdd, chain
<1>6. AppliedOnce' /\ NonceUsedOnce' /\ TxsOfBlocksKept'
  BY DEF Inv, AppliedOnce, NonceUsedOnce, TxsOfBlocksKept, EndAdd, chain
<1> QED
  BY <1>2, <1>3, <1>4, <1>5, <1>6 DEF Inv

\* The start of a rewind preserves it.
LEMMA StartRewindKeeps ==
    ASSUME Inv, NEW n \in 0..top, StartRewind(n)
    PROVE  Inv'
<1>1. TypeOK' /\ TxsOfBlocksKept'
  BY DEF Inv, TypeOK, TxsOfBlocksKept, StartRewind, chain, marks, target
<1>2. NewOrder' /\ Cleaned' /\ Executed' /\ ExpectedAbove' /\ Linked'
  BY DEF Inv, NewOrder, Cleaned, Executed, ExpectedAbove, Linked, Adding, StartRewind, chain, marks, target
<1>3. MarksAreHeld' /\ MarksAreApplied' /\ InSequence'
  BY DEF Inv, MarksAreHeld, MarksAreApplied, InSequence, StartRewind, chain, marks, target
<1>4. AppliedOnce' /\ NonceUsedOnce'
  BY DEF Inv, AppliedOnce, NonceUsedOnce, StartRewind, chain, marks, target
<1> QED
  BY <1>1, <1>2, <1>3, <1>4 DEF Inv

\* delete_block_at_topoheight preserves it.
LEMMA PopBlockKeeps == ASSUME Inv, PopBlock PROVE Inv'
<1> DEFINE b == at[top]
<1>1. /\ top \in 1..top /\ b \in Blocks /\ b \in stored
      /\ top' = top - 1 /\ stored' = stored \ {b} /\ phase' = phase /\ phase = "rewind"
  BY DEF Inv, TypeOK, PopBlock
<1>2. \A t \in Txs :
        /\ effect'[t] = effect[t] \ {top}
        /\ executedIn'[t] = IF Holds(b, t) THEN None ELSE executedIn[t]
        /\ linked'[t] = IF Holds(b, t) THEN linked[t] \ {b} ELSE linked[t]
  BY DEF PopBlock, DeleteVersionedData
<1>3. TypeOK'
  BY DEF Inv, TypeOK, PopBlock, UnlinkedBy, DeleteVersionedData, target
<1>4. NewOrder' /\ Cleaned' /\ Executed' /\ ExpectedAbove'
  BY <1>1 DEF NewOrder, Cleaned, Executed, ExpectedAbove, Adding
<1>5. Linked'
  BY DEF Inv, TypeOK, Linked, Adding, PopBlock
<1>6. MarksAreHeld'
  BY <1>1, <1>2 DEF Inv, MarksAreHeld
<1>7. AppliedOnce' /\ NonceUsedOnce'
  BY <1>2 DEF Inv, AppliedOnce, NonceUsedOnce
<1>8. InSequence'
  <2> SUFFICES ASSUME NEW t \in Txs, NEW k \in effect'[t], after[t] # None
               PROVE  \E l \in effect'[after[t]] : l <= k
    BY DEF InSequence
  <2>1. k \in 1..top /\ k # top /\ k \in effect[t]
    BY <1>2 DEF Inv, TypeOK
  <2>2. after[t] \in Txs
    BY TxsLinked
  <2>3. PICK l \in effect[after[t]] : l <= k
    BY <1>1, <2>1 DEF Inv, InSequence
  <2>4. l # top
    BY <1>1, <2>1, <2>3
  <2> QED
    BY <1>2, <2>2, <2>3, <2>4
<1>9. MarksAreApplied'
  <2> SUFFICES ASSUME NEW t \in Txs, executedIn'[t] # None
               PROVE  \E k \in effect'[t] : at'[k] = executedIn'[t]
    BY DEF MarksAreApplied
  <2>1. ~Holds(b, t) /\ executedIn'[t] = executedIn[t]
    BY <1>2
  <2>2. PICK k \in effect[t] : at[k] = executedIn[t]
    BY <2>1 DEF Inv, MarksAreApplied
  \* A transaction executed by the popped block is one of its own.
  <2>3. k # top
    BY <2>1, <2>2 DEF Inv, MarksAreHeld
  <2>4. k \in 1 .. top - 1
    BY <1>1, <2>2, <2>3 DEF Inv, TypeOK
  <2>5. at'[k] = at[k]
    BY <2>4 DEF PopBlock
  <2> QED
    BY <1>2, <2>1, <2>2, <2>3, <2>5
\* Another stored block that holds a transaction is linked to it.
<1>10. TxsOfBlocksKept'
  BY <1>1 DEF Inv, TxsOfBlocksKept, Linked, Adding, PopBlock, UnlinkedBy
<1> QED
  BY <1>3, <1>4, <1>5, <1>6, <1>7, <1>8, <1>9, <1>10 DEF Inv

\* A rewind that ends in an error preserves it.
LEMMA FailRewindKeeps ==
    ASSUME Inv, FailRewind
    PROVE  Inv'
<1>1. TypeOK' /\ TxsOfBlocksKept'
  BY DEF Inv, TypeOK, TxsOfBlocksKept, FailRewind, chain, marks, target
<1>2. NewOrder' /\ Cleaned' /\ Executed' /\ ExpectedAbove' /\ Linked'
  BY DEF Inv, NewOrder, Cleaned, Executed, ExpectedAbove, Linked, Adding, FailRewind, chain, marks, target
<1>3. MarksAreHeld' /\ MarksAreApplied' /\ InSequence'
  BY DEF Inv, MarksAreHeld, MarksAreApplied, InSequence, FailRewind, chain, marks, target
<1>4. AppliedOnce' /\ NonceUsedOnce'
  BY DEF Inv, AppliedOnce, NonceUsedOnce, FailRewind, chain, marks, target
<1> QED
  BY <1>1, <1>2, <1>3, <1>4 DEF Inv

\* The end of a rewind preserves it.
LEMMA EndRewindKeeps ==
    ASSUME Inv, EndRewind
    PROVE  Inv'
<1>1. TypeOK' /\ TxsOfBlocksKept'
  BY DEF Inv, TypeOK, TxsOfBlocksKept, EndRewind, chain, marks, target
<1>2. NewOrder' /\ Cleaned' /\ Executed' /\ ExpectedAbove' /\ Linked'
  BY DEF Inv, NewOrder, Cleaned, Executed, ExpectedAbove, Linked, Adding, EndRewind, chain, marks, target
<1>3. MarksAreHeld' /\ MarksAreApplied' /\ InSequence'
  BY DEF Inv, MarksAreHeld, MarksAreApplied, InSequence, EndRewind, chain, marks, target
<1>4. AppliedOnce' /\ NonceUsedOnce'
  BY DEF Inv, AppliedOnce, NonceUsedOnce, EndRewind, chain, marks, target
<1> QED
  BY <1>1, <1>2, <1>3, <1>4 DEF Inv

\* Every step of add_new_block and rewind_chain preserves it.
LEMMA NextKeeps == ASSUME Inv, [Next]_vars PROVE Inv'
<1>1. CASE UNCHANGED vars
  <2>1. TypeOK' /\ NewOrder' /\ Cleaned' /\ Executed' /\ ExpectedAbove' /\ Linked'
    BY <1>1 DEF Inv, vars, TypeOK, NewOrder, Cleaned, Executed, ExpectedAbove, Linked, Adding
  <2>2. MarksAreHeld' /\ InSequence' /\ AppliedOnce' /\ NonceUsedOnce' /\ MarksAreApplied' /\ TxsOfBlocksKept'
    BY <1>1 DEF Inv, vars, MarksAreHeld, InSequence, AppliedOnce, NonceUsedOnce, MarksAreApplied, TxsOfBlocksKept
  <2> QED
    BY <2>1, <2>2 DEF Inv
<1>2. ASSUME NEW b \in Blocks, NEW n \in 0 .. Cardinality(stored) + 1,
             NEW o \in [1..n -> stored \cup {b}], NEW keep \in 0..top, StartAdd(b, n, o, keep)
      PROVE  Inv'
  <2>1. n \in Nat /\ keep \in Nat
    BY DEF Inv, TypeOK
  <2> QED
    BY <1>2, <2>1, StartAddKeeps
<1>3. ASSUME NEW n \in 0..top, StartRewind(n)
      PROVE  Inv'
  BY <1>3, StartRewindKeeps
<1> QED
  BY <1>1, <1>2, <1>3, CleanBlockKeeps, StartExecuteKeeps, ExecuteTxKeeps, NextBlockKeeps, EndAddKeeps,
     PopBlockKeeps, FailRewindKeeps, EndRewindKeeps DEF Next

\* The inductive invariant holds in every step of the loops of add_new_block
\* and rewind_chain.
THEOREM Invariance == Spec => []Inv
<1>1. Init => Inv
  BY InitInv
<1>2. Inv /\ [Next]_vars => Inv'
  BY NextKeeps
<1> QED
  BY <1>1, <1>2, PTL DEF Spec

----------------------------------------------------------------------------

\* The state of add_new_block, rewind_chain and of what they store has its
\* type in every step of their loops.
THEOREM TypeCorrect == Spec => []TypeOK
<1>1. Inv => TypeOK
  BY DEF Inv
<1> QED
  BY <1>1, Invariance, PTL

\* No re-order of the DAG and no rewind makes add_new_block apply a
\* transaction at two topoheights.
THEOREM TransactionsAppliedOnce == Spec => []AppliedOnce
<1>1. Inv => AppliedOnce
  BY DEF Inv
<1> QED
  BY <1>1, Invariance, PTL

\* NonceChecker lets one of the transactions that compete for a nonce be
\* applied, across all the blocks of the order.
THEOREM NoDoubleSpend == Spec => []NonceUsedOnce
<1>1. Inv => NonceUsedOnce
  BY DEF Inv
<1> QED
  BY <1>1, Invariance, PTL

\* set_tx_executed_in_block and its removals never leave a mark of a
\* transaction that the block has not applied.
THEOREM MarksAreTrue == Spec => []MarksAreApplied
<1>1. Inv => MarksAreApplied
  BY DEF Inv
<1> QED
  BY <1>1, Invariance, PTL

\* apply_with_partial_verify leaves every account with a chain of transactions,
\* each applied on the one it was built on.
THEOREM AccountsStaySequential == Spec => []AppliedInSequence
<1>1. Inv => AppliedInSequence
  BY DEF Inv, InSequence, AppliedInSequence
<1> QED
  BY <1>1, Invariance, PTL

\* delete_block_at_topoheight never deletes a transaction that a stored block
\* holds.
THEOREM SharedTxsSurvive == Spec => []TxsOfBlocksKept
<1>1. Inv => TxsOfBlocksKept
  BY DEF Inv
<1> QED
  BY <1>1, Invariance, PTL

\* add_block_linked_to_tx_if_not_present and the rewinds keep the blocks linked
\* to a transaction equal to the stored ones that hold it.
THEOREM LinksStayExact == Spec => []LinksAreBlocks
<1>1. Inv => LinksAreBlocks
  BY DEF Inv, TypeOK, Linked, Adding, LinksAreBlocks
<1> QED
  BY <1>1, Invariance, PTL

=============================================================================
