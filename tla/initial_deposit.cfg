SPECIFICATION Spec
CONSTANTS
    Accounts = {a1}
    Voters = {v1}
    VoteOptions = {"Yes", "No"}
    Power <- UnitPower
    TotalBonded = 1
    Amounts = {2, 200}
    InitialBalance = 500
    Contents <- TextOnly
    ParamSets <- RatioParamSet
    InitParams <- MCRatioParams
    InitEMA = 12
    StakingErrors = {FALSE}
    StartTime = 1
    BlockGaps = {1}
    Nil = Nil
    MaxProposals = 2
    MaxTime = 8
    Signers = {"steering", "oversight"}
    SteeringDao = "unset"
    OversightDao = "unset"
    ExtensionsLimit = 1
    ExtensionDuration = 2
CHECK_DEADLOCK FALSE
INVARIANTS
    InitialDepositIsTheThreshold
