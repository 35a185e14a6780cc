CONSTANTS
    A = A
    B = B
    a0 = a0
    a1 = a1
    x0 = x0
    b0 = b0
    P = P
    Q = Q
    R = R
    None = None
    Accounts = {A, B}
    Blocks <- MCBlocks
    Txs <- MCTxs
    txs <- MCtxs
    source <- MCsource
    after <- MCafter
    nonce <- MCnonce

SPECIFICATION Spec

CHECK_DEADLOCK FALSE

INVARIANTS
    TypeOK
    AppliedOnce
    NonceUsedOnce
    MarksAreApplied
    AppliedInSequence
    TxsOfBlocksKept
    LinksAreBlocks
