SPECIFICATION PruneSpec
CONSTANTS
    balance = balance
    received = received
    spent = spent
    None = None
    Keys <- MCKeys
    ContractBalanceKeys <- MCNone
    BalanceKeys <- MCKeys
    Values <- MCValues
    OutputValues <- MCOutputValues
    PruneSafetyLimit = 3
    StableLimit = 2
    MaxTopo = 5
INVARIANT BalancesUpToDate
