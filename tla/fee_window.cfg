SPECIFICATION Spec
CONSTANTS
    One = 100
    MaxDec = 210
    MaxInt64 = 4
    a1 = a1
    a2 = a2
    Accounts = {a1}
    MaxSupply = 20
    Burns = {1}
    Staked = 2
    InitBond <- MCBond
    InitPhoton <- MCPhoton
    Rewards = {}
    MaxBond = 20
    PhotonParamSets <- OnePhotonSet
    Fees <- PhotonFees
    GasLimits = {0, 1, 3}
    MintAmounts = {0}
    Grants <- NoGrants
    FeeParamSets <- AimdOrNone
    MaxGases = {0, 1, 3}
    RestartAllowed = FALSE
INVARIANTS
    NoHaltFromEmptyWindow
