SPECIFICATION Spec
CONSTANTS
    contract = contract
    v1 = v1
    None = None
    Keys <- MCKeys
    ContractBalanceKeys <- MCKeys
    Values <- MCValues
    MaxTopo = 2
INVARIANT ChangesOfBlockDeleted
