------------------------------- MODULE Tally -------------------------------
(***************************************************************************)
(* Vote counting and the dynamic quorum of x/gov (x/gov/keeper/tally.go and *)
(* participation_ema.go), as operators on a proposal's votes, the stake     *)
(* behind each voter, the parameters and the participation averages.        *)
(*                                                                          *)
(* A vote is one option; NoVote stands for no vote in the store.  Every     *)
(* voter votes with the stake it delegates to bonded validators (there is   *)
(* no vote inheritance on this chain).  Ratios are in hundredths and are    *)
(* compared by cross-multiplication.                                        *)
(***************************************************************************)
EXTENDS Throttler, Sums, FiniteSetsExt

Kinds   == {"Any", "Law", "ConstitutionAmendment"}
Options == {"Yes", "No", "Abstain"}
NoVote  == "NoVote"

\* Voting power behind the votes cast for one of the options in opts.
VotingPower(ballot, power, opts) ==
    SumOver(power, {v \in DOMAIN ballot : ballot[v] \in opts})

\* computeQuorum for one kind: min + (max - min) * EMA.
KindQuorum(prm, ema, kind) ==
    prm.QuorumMin[kind]
      + ((prm.QuorumMax[kind] - prm.QuorumMin[kind]) * ema[kind]) \div One

(***************************************************************************)
(* getQuorumAndThreshold.  The generic quorum and threshold are the base;   *)
(* every special kind among the messages can only raise them.  An endorsed  *)
(* law is measured against the generic threshold.                           *)
(***************************************************************************)
GetQuorum(prm, ema, kinds) ==
    Max({KindQuorum(prm, ema, k) : k \in kinds \cup {"Any"}})

GetThreshold(prm, kinds, endorsed) ==
    Max({prm.Threshold[k] : k \in (IF endorsed THEN kinds \ {"Law"} ELSE kinds)
                                    \cup {"Any"}})

\* HasReachedQuorum, when the staking module answers.
HasReachedQuorum(ballot, power, totalBonded, quorum) ==
    /\ totalBonded > 0
    /\ VotingPower(ballot, power, Options) * One >= quorum * totalBonded

\* Share of the bonded stake that voted (percentVoting), zero without any stake.
Participation(ballot, power, totalBonded) ==
    IF totalBonded = 0 THEN 0
    ELSE (VotingPower(ballot, power, Options) * One) \div totalBonded

\* Tally: the proposal passes.
Passes(ballot, power, totalBonded, quorum, threshold) ==
    LET active == VotingPower(ballot, power, {"Yes", "No"})
    IN  /\ HasReachedQuorum(ballot, power, totalBonded, quorum)
        /\ active > 0
        /\ VotingPower(ballot, power, {"Yes"}) * One > threshold * active

\* Tally: the deposits are burned instead of refunded.
BurnsDeposits(ballot, power, totalBonded, quorum, threshold, prm) ==
    LET active == VotingPower(ballot, power, {"Yes", "No"})
    IN  /\ totalBonded > 0
        /\ ~Passes(ballot, power, totalBonded, quorum, threshold)
        /\ IF HasReachedQuorum(ballot, power, totalBonded, quorum)
             THEN /\ active > 0
                  /\ VotingPower(ballot, power, {"No"}) * One
                       > prm.BurnDepositNoThreshold * active
             ELSE prm.BurnVoteQuorum

\* UpdateParticipationEMA: 0.8 * old + 0.2 * participation for the proposal's kinds.
UpdateParticipationEMA(ema, kinds, participation) ==
    [k \in Kinds |-> IF k \in kinds THEN (8 * ema[k] + 2 * participation) \div 10
                                    ELSE ema[k]]
=============================================================================
