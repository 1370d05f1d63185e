SPECIFICATION FairSpec
CONSTANTS
    Accounts = {a1}
    Voters = {v1}
    VoteOptions = {"Yes"}
    Power <- UnitPower
    TotalBonded = 1
    Amounts = {1, 2}
    InitialBalance = 3
    Contents <- TextOnly
    ParamSets <- LateParamSet
    InitParams <- MCLateParams
    InitEMA = 12
    StakingErrors = {FALSE, TRUE}
    StartTime = 1
    BlockGaps = {2, 4}
    Nil = Nil
    MaxProposals = 1
    MaxTime = 28
    Signers = {"steering", "oversight"}
    SteeringDao = "steering"
    OversightDao = "oversight"
    ExtensionsLimit = 1
    ExtensionDuration = 2
CHECK_DEADLOCK FALSE
INVARIANTS
    VotingPeriodBounded
    Inv
PROPERTIES
    InsertsInFuture
    FinalIsFinal
    VotingEndOnlyExtends
    EventuallySettled
