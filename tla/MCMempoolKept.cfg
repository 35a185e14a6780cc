SPECIFICATION Spec
CONSTANTS
    a = a
    b = b
    a0 = a0
    a1 = a1
    a2 = a2
    x0 = x0
    x1 = x1
    b0 = b0
    None = None
    Accounts <- MCAccounts
    Txs <- MCTxs
    source <- MCSource
    after <- MCAfter
    nonce <- MCNonce
    MaxBlocks = 3
    MaxBlockTxs = 2
PROPERTY KeptVerify
