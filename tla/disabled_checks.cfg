SPECIFICATION Spec
CONSTANTS
    Accounts = {a1}
    Voters = {v1}
    VoteOptions = {"Yes", "No"}
    Power <- UnitPower
    TotalBonded = 1
    Amounts = {1, 2}
    InitialBalance = 5
    Contents <- UpdateMixed
    ParamSets <- TwoParamSets
    InitParams <- MCParams
    InitEMA = 12
    StakingErrors = {FALSE}
    StartTime = 1
    BlockGaps = {1}
    Nil = Nil
    MaxProposals = 2
    MaxTime = 6
    Signers = {"steering", "oversight"}
    SteeringDao = "unset"
    OversightDao = "oversight"
    ExtensionsLimit = 0
    ExtensionDuration = 2
CHECK_DEADLOCK FALSE
INVARIANTS
    DisabledChecksDoNotHalt
