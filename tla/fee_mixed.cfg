SPECIFICATION Spec
CONSTANTS
    One = 100
    MaxDec = 210
    MaxInt64 = 4
    a1 = a1
    a2 = a2
    Accounts = {a1, a2}
    MaxSupply = 7
    Burns = {2}
    Staked = 1
    InitBond <- SharedBond
    InitPhoton <- SharedPhoton
    Rewards = {1}
    MaxBond = 5
    PhotonParamSets <- ThreePhotonSets
    Fees <- MixedFees
    GasLimits = {1}
    MintAmounts = {0, 2}
    Grants <- OneGrant
    FeeParamSets <- EipOrDisabled
    MaxGases = {0}
    RestartAllowed = FALSE
INVARIANTS
    FeesTypeOK
    BondSupplyCoversBalances
    RevenueCoversGas
PROPERTIES
    ImplementsPhotonSupply
