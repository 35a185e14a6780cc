SPECIFICATION Spec
CONSTANTS
    k1 = k1
    k2 = k2
    v1 = v1
    v2 = v2
    None = None
    Keys <- MCKeys
    ContractBalanceKeys <- MCContractBalanceKeys
    Values <- MCValues
    MaxTopo = 3
INVARIANTS TypeOK ChainsWellFormed NoVersionAboveOrder
SYMMETRY MCSymmetry
PROPERTY ImplementsHistory
