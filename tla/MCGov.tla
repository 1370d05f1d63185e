------------------------------- MODULE MCGov -------------------------------
(***************************************************************************)
(* Instances of GovDaos for TLC.  Time is counted in small units; every     *)
(* parameter set below satisfies Params.ValidateBasic.                      *)
(***************************************************************************)
EXTENDS GovDaos

Uniform(x) == [k \in Kinds |-> x]

\* A throttler with target 1: the first proposal already raises the value.
MCThrottler(floor) ==
    [FloorValue |-> floor, UpdatePeriod |-> 2, TargetProposals |-> 1,
     IncreaseRatio |-> 50, DecreaseRatio |-> 25, Sensitivity |-> 1]

\* Deposit period 2, voting period 3, quorum checks at 1, 2 and 3 after activation.
MCParams ==
    [MaxDepositPeriod |-> 2, VotingPeriod |-> 3, QuorumTimeout |-> 1,
     QuorumCheckCount |-> 2, MaxVotingPeriodExtension |-> 2,
     BurnProposalDepositPrevote |-> FALSE, BurnVoteQuorum |-> FALSE,
     BurnDepositNoThreshold |-> 80, MinDepositRatio |-> 0,
     QuorumMin |-> Uniform(10), QuorumMax |-> Uniform(50),
     Threshold |-> [Any |-> 66, Law |-> 90, ConstitutionAmendment |-> 90],
     MinDepositThrottler |-> MCThrottler(2),
     MinInitialDepositThrottler |-> MCThrottler(1)]

\* Another valid set: burning deposits, a longer voting period, a higher minimum deposit,
\* and no quorum checks, so that their durations need not be set.
MCParams2 ==
    [MCParams EXCEPT !.VotingPeriod = 4, !.QuorumCheckCount = 0,
                     !.QuorumTimeout = Nil, !.MaxVotingPeriodExtension = Nil,
                     !.MinDepositThrottler.FloorValue = 4,
                     !.BurnProposalDepositPrevote = TRUE, !.BurnVoteQuorum = TRUE]

\* A voting period of 6 with quorum checks every 2 or 3 time units, so that a late
\* block skips checks and the last one is capped by the voting end.
MCLateParams ==
    [MCParams EXCEPT !.VotingPeriod = 6, !.MaxVotingPeriodExtension = 5]

\* The defaults' proportions: deposits of at least 1% of the minimum deposit, and a
\* minimum initial deposit of 1% of it.
MCRatioParams ==
    [MCParams EXCEPT !.MinDepositRatio = 1, !.MinDepositThrottler.FloorValue = 200,
                     !.MinInitialDepositThrottler.FloorValue = 2]

OneParamSet  == {MCParams}
LateParamSet == {MCLateParams}
RatioParamSet  == {MCRatioParams}
TwoParamSets == {MCParams, MCParams2}

Text == [kinds |-> {"Any"}, fails |-> FALSE, params |-> NoParams]
Update == [kinds |-> {"Any"}, fails |-> FALSE, params |-> MCParams2]
BrokenUpdate == [kinds |-> {"Any", "ConstitutionAmendment"}, fails |-> TRUE,
                 params |-> MCParams2]

TextOnly    == {Text}
UpdateMixed == {Update, BrokenUpdate}

UnitPower == [v \in Voters |-> 1]
=============================================================================
