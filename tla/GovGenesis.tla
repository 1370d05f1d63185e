----------------------------- MODULE GovGenesis -----------------------------
(***************************************************************************)
(* Restarting the chain from an exported genesis (x/gov/genesis.go and      *)
(* app/export.go): ExportGenesis after a committed block, then InitGenesis  *)
(* on the new chain.  Coins sent straight to the gov module account are     *)
(* part of this model, because InitGenesis compares that balance with the   *)
(* deposits.                                                                *)
(***************************************************************************)
EXTENDS GovDaos

\* The export context has no block header, so its block time is the zero time.
ZeroTime == 0

ASSUME ZeroTimeAssumption ==
    \A prm \in ParamSets :
       /\ StartTime - ZeroTime >= prm.MinDepositThrottler.UpdatePeriod
       /\ StartTime - ZeroTime >= prm.MinInitialDepositThrottler.UpdatePeriod

\* Mutant of GenesisQuorumEntries: the timeout is counted from the voting end.
GenesisQuorumEntries_FromEnd(p, t) ==
    LET timeoutTime == proposals[p].VotingEndTime + params.QuorumTimeout
    IN  {QuorumEntry(p, timeoutTime, timeoutTime, params.QuorumCheckCount, 0)}

\* The quorum-check entry InitGenesis gives to the voting proposal p at genesis
\* time t: none if the quorum was reached after the timeout, else one at the
\* timeout, with one check counted as done when the timeout has passed.
GenesisQuorumEntries(p, t) ==
    LET timeoutTime == proposals[p].VotingStartTime + params.QuorumTimeout
        late        == t > timeoutTime
    IN  IF params.QuorumCheckCount = 0 \/ (late /\ QuorumReached(p))
          THEN {}
          ELSE {QuorumEntry(p, timeoutTime, timeoutTime, params.QuorumCheckCount,
                            IF late THEN 1 ELSE 0)}

\* InitGenesis refuses a module balance that is not the sum of the deposits.
GenesisPanic ==
    IF moduleBalance = TotalDeposits THEN {} ELSE {"genesis"}

(***************************************************************************)
(* Proposals, votes, deposits, parameters, EMAs and the minimum deposits    *)
(* are exported; the queues are rebuilt from the proposals; the proposal    *)
(* counters are neither exported nor rebuilt and read as zero.              *)
(***************************************************************************)
ExportImport(gap) ==
    LET t == now + gap
    IN  /\ Walking("commit")
        /\ t <= MaxTime
        /\ now' = t
        /\ phase' = "txs"
        /\ votingPeriodKeys' = Ids({"VotingPeriod"})
        /\ inactiveQueue' = {Key(p, proposals[p].DepositEndTime) :
                                p \in Ids({"DepositPeriod"})}
        /\ activeQueue' = {Key(p, proposals[p].VotingEndTime) : p \in Ids({"VotingPeriod"})}
        /\ quorumQueue' = UNION {GenesisQuorumEntries(p, t) : p \in Ids({"VotingPeriod"})}
        /\ inactiveNumber' = 0
        /\ activeNumber' = 0
        /\ lastMinDeposit' = [lastMinDeposit EXCEPT !.Time = ZeroTime]
        /\ lastMinInitialDeposit' = [lastMinInitialDeposit EXCEPT !.Time = ZeroTime]
        /\ panic' = GenesisPanic
        /\ UNCHANGED <<params, proposals, proposalID, deposits, votes, bankVars, ema>>

GenesisNext ==
    \/ Next
    \/ \E a \in Accounts, amount \in Amounts : SendToModule(a, amount)
    \/ \E gap \in BlockGaps : ExportImport(gap)

GenesisSpec == Init /\ [][GenesisNext]_vars

-----------------------------------------------------------------------------
(* Properties *)

\* The module account covers the recorded deposits, also when others send it coins
\* and across restarts (the invariant x/gov registers with the crisis module).
ModuleAccountInvariant == moduleBalance >= TotalDeposits

\* Claim of DecrementActiveProposalsNumber and DecrementInactiveProposalsNumber: the
\* number of proposals "should never be negative".
CountersNeverNegative == "counter" \notin panic

\* Claim of ModuleAccountInvariant: external funds can be sent to the module account
\* and its balance can be larger than the deposits; a restart should accept that.
ImportAcceptsExternalFunds == "genesis" \notin panic
=============================================================================
