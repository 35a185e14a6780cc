------------------------------ MODULE MCMempool ------------------------------
(* Instance of Mempool for TLC: account a can spend its first nonces in two  *)
(* ways (a0 then a1 and a2, or x0 then x1), account b has one transaction.   *)
EXTENDS Mempool
CONSTANTS a, b, a0, a1, a2, x0, x1, b0

MCAccounts == {a, b}
MCTxs == {a0, a1, a2, x0, x1, b0}
MCSource == [t \in MCTxs |-> IF t = b0 THEN b ELSE a]
MCAfter ==
    [t \in MCTxs |-> CASE t = a1 -> a0 [] t = a2 -> a1 [] t = x1 -> x0 [] OTHER -> None]
MCNonce == [t \in MCTxs |-> CASE t \in {a1, x1} -> 1 [] t = a2 -> 2 [] OTHER -> 0]
==============================================================================
