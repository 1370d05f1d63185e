SPECIFICATION PhotonSpec
CONSTANTS
    One = 100
    Accounts = {a1, a2}
    MaxSupply = 37
    Burns = {1, 2, 5}
    Staked = 1
    InitBond <- MCBond
    InitPhoton <- MCPhoton0
    Rewards = {1, 4}
    MaxBond = 20
    PhotonParamSets <- OnAndOff
CHECK_DEADLOCK FALSE
INVARIANTS
    PhotonTypeOK
    SupplyBounded
    BondSupplyCoversBalances
    MintFollowsFormula
PROPERTIES
    ImplementsPhotonSupply
