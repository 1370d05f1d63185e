SPECIFICATION GenesisSpec
CONSTANTS
    Accounts = {a1}
    Voters = {v1}
    VoteOptions = {"Yes", "No"}
    Power <- UnitPower
    TotalBonded = 1
    Amounts = {1, 2}
    InitialBalance = 4
    Contents <- TextOnly
    ParamSets <- OneParamSet
    InitParams <- MCParams
    InitEMA = 12
    StakingErrors = {FALSE}
    StartTime = 2
    BlockGaps = {1}
    Nil = Nil
    MaxProposals = 1
    MaxTime = 9
    Signers = {"steering", "oversight"}
    SteeringDao = "unset"
    OversightDao = "unset"
    ExtensionsLimit = 1
    ExtensionDuration = 2
CHECK_DEADLOCK FALSE
INVARIANTS
    ImportAcceptsExternalFunds
