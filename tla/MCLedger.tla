------------------------------ MODULE MCLedger ------------------------------
(***************************************************************************)
(* Instance of Ledger: the transactions a0, a1 of the account A, the       *)
(* transaction x0 that competes with a0, and b0 of the account B, in       *)
(* blocks of branches that share some of them.                             *)
(***************************************************************************)
EXTENDS Ledger, TLC

CONSTANTS A, B, a0, a1, x0, b0, P, Q, R

MCBlocks == {P, Q, R}
MCTxs == {a0, a1, x0, b0}
MCtxs == P :> <<a0, a1>> @@ Q :> <<x0, b0>> @@ R :> <<b0, a0, a1>>
MCsource == a0 :> A @@ a1 :> A @@ x0 :> A @@ b0 :> B
MCafter == a0 :> None @@ a1 :> a0 @@ x0 :> None @@ b0 :> None
MCnonce == a0 :> 0 @@ a1 :> 1 @@ x0 :> 0 @@ b0 :> 0

=============================================================================
