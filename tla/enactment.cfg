SPECIFICATION EnactmentSpec
CONSTANTS
    d = d
    Accounts = {d}
    Unset = Unset
    NumValidators = 2
    Amounts = {1, 2}
    MaxStake = 2
    MinStakedTokens = 2
    MaxDelegationsChecked = 1
    DaoParamSets <- MCDaoParams
    InitConstitution <- MCInit
    Targets <- MCTargets
    HandPatches <- MCHand
    Context = 1
    Shapes <- MCShapes
    MaxProposals = 2
    Texts <- MCTexts
    Patches <- MCPatches
INVARIANTS
    EnactmentTypeOK
    DaosHoldNoStake
    LinesAccountedFor
    PatchReplacesHunks
    DraftsApplyCleanly
PROPERTIES
    DaosPassNoStakeCheck
