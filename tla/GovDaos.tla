------------------------------ MODULE GovDaos ------------------------------
(***************************************************************************)
(* x/gov composed with the messages of x/coredaos that act on proposals     *)
(* (x/coredaos/keeper/msg_server.go).  The Steering DAO may annotate and    *)
(* endorse a proposal in its voting period, the Oversight DAO may veto it,  *)
(* and either may extend its voting period.  The handlers work on x/gov's   *)
(* store through its keeper.                                                *)
(***************************************************************************)
EXTENDS Gov

CONSTANTS
    Signers,             \* accounts that sign x/coredaos messages
    SteeringDao,         \* params.SteeringDaoAddress, or Unset
    OversightDao,        \* params.OversightDaoAddress, or Unset
    ExtensionsLimit,     \* params.VotingPeriodExtensionsLimit
    ExtensionDuration    \* params.VotingPeriodExtensionDuration

\* An empty DAO address: the functions of that DAO are disabled.
Unset == "unset"

ASSUME DaoAssumption ==
    /\ SteeringDao \in Signers \cup {Unset}
    /\ OversightDao \in Signers \cup {Unset}
    /\ Unset \notin Signers
    /\ ExtensionsLimit \in Nat
    /\ ExtensionDuration \in Nat \ {0}

\* Every handler requires the proposal to be in its voting period.
InVotingPeriod(p) == proposals[p].Status = "VotingPeriod"

\* A handler that only rewrites fields of the proposal.
RewriteProposal(p, prop) ==
    /\ SetProposal(p, prop)
    /\ UNCHANGED <<now, phase, params, proposalID, inactiveQueue, quorumQueue,
                   inactiveNumber, activeNumber, throttleVars, deposits, votes, bankVars,
                   ema, panic>>

AnnotateProposal(signer, p, overwrite) ==
    /\ InTx
    /\ SteeringDao # Unset /\ signer = SteeringDao
    /\ InVotingPeriod(p)
    /\ proposals[p].Annotation => overwrite
    /\ RewriteProposal(p, [proposals[p] EXCEPT !.Annotation = TRUE])
    /\ UNCHANGED activeQueue

EndorseProposal(signer, p) ==
    /\ InTx
    /\ SteeringDao # Unset /\ signer = SteeringDao
    /\ InVotingPeriod(p)
    /\ ~proposals[p].Endorsed
    /\ RewriteProposal(p, [proposals[p] EXCEPT !.Endorsed = TRUE])
    /\ UNCHANGED activeQueue

\* Mutant of ExtensionsLeft: one extension too many.
ExtensionsLeft_OffByOne(prop) == prop.TimesVotingPeriodExtended <= ExtensionsLimit

ExtensionsLeft(prop) == prop.TimesVotingPeriodExtended < ExtensionsLimit

\* Mutant of NewEndTime: the extension counts from the current time.
NewEndTime_FromNow(prop) == now + ExtensionDuration

NewEndTime(prop) == prop.VotingEndTime + ExtensionDuration

\* The end of the voting period moves by ExtensionDuration, and its queue key with it.
ExtendVotingPeriod(signer, p) ==
    LET prop       == proposals[p]
        newEndTime == NewEndTime(prop)
    IN  /\ InTx
        /\ SteeringDao # Unset \/ OversightDao # Unset
        /\ signer = SteeringDao \/ signer = OversightDao
        /\ InVotingPeriod(p)
        /\ ExtensionsLeft(prop)
        /\ RewriteProposal(p, [prop EXCEPT !.VotingEndTime = newEndTime,
                                           !.TimesVotingPeriodExtended = @ + 1])
        /\ MoveActiveKey(p, prop.VotingEndTime, newEndTime)

(***************************************************************************)
(* VetoProposal settles the deposits as asked, ends the proposal, deletes   *)
(* its votes, takes it out of the active queue and runs the time-based      *)
(* updates of the throttlers.  Its quorum-check entry stays in the queue    *)
(* and the participation EMA is not updated.  A panic of the bank or of the *)
(* counter fails the transaction.                                           *)
(***************************************************************************)
VetoProposal(signer, p, burnDeposit) ==
    LET prop == proposals[p]
    IN  /\ InTx
        /\ OversightDao # Unset /\ signer = OversightDao
        /\ InVotingPeriod(p)
        /\ FundsPanic(p) = {} /\ activeNumber > 0
        /\ SettleDeposits(p, burnDeposit)
        /\ SetProposal(p, [prop EXCEPT !.Status = "Vetoed"])
        /\ DeleteVotes(p)
        /\ activeQueue' = activeQueue \ {Key(p, prop.VotingEndTime)}
        /\ activeNumber' = Decrement(activeNumber)
        /\ lastMinInitialDeposit' = MinInitialDepositUpdate(inactiveNumber, TRUE)
        /\ lastMinDeposit' = MinDepositUpdate(Decrement(activeNumber), TRUE)
        /\ UNCHANGED <<now, phase, params, proposalID, inactiveQueue, quorumQueue,
                       inactiveNumber, ema, panic>>

DaoTransaction ==
    \E signer \in Signers, p \in ProposalIds :
       \/ \E overwrite \in BOOLEAN : AnnotateProposal(signer, p, overwrite)
       \/ EndorseProposal(signer, p)
       \/ ExtendVotingPeriod(signer, p)
       \/ \E burnDeposit \in BOOLEAN : VetoProposal(signer, p, burnDeposit)

Next ==
    \/ Transaction
    \/ DaoTransaction
    \/ EndBlocker
    \/ \E gap \in BlockGaps : NextBlock(gap)

Spec == Init /\ [][Next]_vars

(***************************************************************************)
(* Fairness.  Consensus keeps producing blocks and every block runs         *)
(* EndBlocker to its end; no transaction ever has to arrive.                *)
(***************************************************************************)
Fairness == WF_vars(EndBlocker) /\ WF_vars(\E gap \in BlockGaps : NextBlock(gap))

FairSpec == Spec /\ Fairness

-----------------------------------------------------------------------------
(* Properties *)

\* The proposals with one of the statuses.
Ids(statuses) == {p \in ProposalIds : proposals[p].Status \in statuses}

\* The deposits of all proposals.
TotalDeposits == SumOver([p \in ProposalIds |-> DepositSum(p)], ProposalIds)

\* What account a has on all proposals.
AccountDeposits(a) == SumOver([p \in ProposalIds |-> deposits[p][a]], ProposalIds)

\* The store has its types.
TypeOK ==
    /\ now \in Nat
    /\ phase \in {"txs", "inactive", "quorum", "active", "commit"}
    /\ params \in ParamSets
    /\ proposals \in [ProposalIds -> Proposal]
    /\ proposalID \in 1 .. MaxProposals + 1
    /\ votingPeriodKeys \subseteq ProposalIds
    /\ inactiveQueue \subseteq QueueKey
    /\ activeQueue \subseteq QueueKey
    /\ quorumQueue \subseteq QuorumKey
    /\ inactiveNumber \in Nat /\ activeNumber \in Nat
    /\ lastMinDeposit \in LastMinDeposit /\ lastMinInitialDeposit \in LastMinDeposit
    /\ deposits \in [ProposalIds -> [Accounts -> Nat]]
    /\ votes \in [ProposalIds -> [Voters -> Options \cup {NoVote}]]
    /\ balances \in [Accounts -> Nat] /\ burnt \in [Accounts -> Nat]
    /\ moduleBalance \in Nat
    /\ ema \in [Kinds -> Nat]
    /\ panic \subseteq {"counter", "division", "funds", "missing", "nil"}

\* The queues, the voting-period keys and the proposals tell the same story: a
\* proposal in its deposit period has exactly the inactive-queue key of its deposit
\* end, one in its voting period exactly the active-queue key of its current voting
\* end, every other proposal none, across extensions by either module and vetoes.
QueuesMatchProposals ==
    /\ inactiveQueue = {Key(p, proposals[p].DepositEndTime) : p \in Ids({"DepositPeriod"})}
    /\ activeQueue = {Key(p, proposals[p].VotingEndTime) : p \in Ids({"VotingPeriod"})}
    /\ votingPeriodKeys = Ids({"VotingPeriod"})

\* The stored counters that drive the throttlers count the proposals in the deposit
\* and in the voting period, although six places of two modules maintain them.
CountersMatchProposals ==
    /\ inactiveNumber = Cardinality(Ids({"DepositPeriod"}))
    /\ activeNumber = Cardinality(Ids({"VotingPeriod"}))

\* A time unit or more lies between the quorum checks of every parameter set.  With the
\* nanoseconds of the code this is a count of at most VotingPeriod - QuorumTimeout, which
\* ValidateBasic does not require.
SpacedChecks ==
    \A prm \in ParamSets :
       prm.QuorumCheckCount > 0 => prm.QuorumTimeout + prm.QuorumCheckCount <= prm.VotingPeriod

\* What can halt the chain.  In EndBlocker no counter goes below zero ("number of active
\* proposals should never be negative"), no queue names a missing proposal and the bank
\* can always pay the deposits back.  It panics only on parameters that ValidateBasic
\* accepts: checks closer than a time unit (a division by zero), or a late quorum when
\* quorum checks have been disabled meanwhile by parameters without an extension.
PanicsOnlyFromParams ==
    /\ panic \subseteq {"division", "nil"}
    /\ SpacedChecks => "division" \notin panic
    /\ "nil" \in panic => /\ params.QuorumCheckCount = 0
                          /\ params.MaxVotingPeriodExtension = Nil

\* The module account holds the sum of the recorded deposits, a live proposal's total
\* is the sum of its deposits, and every account gets each of its deposits back
\* exactly once unless it was burned (ModuleAccountInvariant, and more).
DepositsConserved ==
    /\ moduleBalance = TotalDeposits
    /\ \A p \in Ids(Live) : proposals[p].TotalDeposit = DepositSum(p)
    /\ \A a \in Accounts :
          balances[a] + burnt[a] + AccountDeposits(a) = InitialBalance

\* Only a proposal that is not over has deposits.
DepositsOnLive ==
    \A p \in ProposalIds :
       proposals[p].Status \notin Live => \A a \in Accounts : deposits[p][a] = 0

\* A proposal that is over, whichever way it ended, holds no deposits, and there
\* are votes only in the voting period: nothing is left to be paid or counted twice.
SettledHoldsNothing ==
    /\ DepositsOnLive
    /\ \A p \in ProposalIds :
          proposals[p].Status # "VotingPeriod" => \A v \in Voters : votes[p][v] = NoVote

\* A proposal has at most one pending quorum check, never after its voting end and
\* never before the quorum timeout.  Only a veto leaves one behind, so a tallied
\* proposal is never checked again.
QuorumChecksInTime ==
    \A e \in quorumQueue :
       /\ proposals[e.id].Status \in {"VotingPeriod", "Vetoed"}
       /\ e.QuorumTimeoutTime <= e.time
       /\ e.time <= proposals[e.id].VotingEndTime
       /\ e.QuorumChecksDone <= e.QuorumCheckCount
       /\ \A f \in quorumQueue : f.id = e.id => f = e

\* The ids from proposalID on are free.
FreeIds == \A p \in ProposalIds : p >= proposalID => proposals[p].Status = "None"

\* A veto deletes the votes, so that the quorum check it leaves behind counts none.
VetoedHasNoVotes ==
    \A p \in Ids({"Vetoed"}) : \A v \in Voters : votes[p][v] = NoVote

\* If the parameters space their checks, so does every entry: at least one time unit lies
\* between two of the checks it stands for.
ChecksFitVoting ==
    SpacedChecks => \A e \in quorumQueue :
       e.QuorumTimeoutTime + e.QuorumCheckCount <= proposals[e.id].VotingEndTime

\* When the active queue is walked, no quorum check is due any more.
ChecksBeforeTally == phase = "active" => NoneDue(quorumQueue)

\* The inductive invariant of the proofs: the properties above carry each other, and
\* need the four facts before this one.
Inv ==
    /\ TypeOK /\ QueuesMatchProposals /\ CountersMatchProposals
    /\ PanicsOnlyFromParams
    /\ DepositsConserved /\ DepositsOnLive
    /\ QuorumChecksInTime /\ ChecksFitVoting /\ ChecksBeforeTally
    /\ FreeIds /\ VetoedHasNoVotes

\* No parameter set lets a proposal without votes reach its quorum.  ValidateBasic
\* does not require it; the proofs do.
PositiveQuorum == \A prm \in ParamSets : prm.QuorumMin["Any"] > 0

\* No parameter set extends a late quorum by nothing or into the past.  ValidateBasic
\* requires it only of parameter sets with quorum checks; the proof about insertions
\* requires it of all that have an extension.
PositiveExtension ==
    \A prm \in ParamSets :
       prm.MaxVotingPeriodExtension # Nil => prm.MaxVotingPeriodExtension > 0

\* EndBlocker writes to the queues it iterates over.  Whatever it inserts while it
\* walks the quorum-check or the active queue lies in the future, so no entry is
\* visited twice in a block and a proposal is never extended and tallied in one block.
InsertsInFuture ==
    [][\A e \in (quorumQueue' \ quorumQueue) \cup (activeQueue' \ activeQueue)
                   \cup (inactiveQueue' \ inactiveQueue) :
          phase \in {"quorum", "active"} => e.time > now]_vars

\* Finitely many parameter sets and block gaps, so that the longest of each exist.
FiniteSchedule ==
    /\ IsFiniteSet(ParamSets)
    /\ IsFiniteSet(BlockGaps) /\ BlockGaps # {}

\* How far the parameters push back the end for a late quorum: not at all without a
\* duration or with a negative one.
LateExtension(prm) ==
    IF prm.MaxVotingPeriodExtension = Nil THEN 0 ELSE Max({0, prm.MaxVotingPeriodExtension})

\* The longest time from the start of the voting period to its end, after n
\* extensions by the DAOs.
LongestVoting(n) ==
    Max({prm.VotingPeriod : prm \in ParamSets}) + n * ExtensionDuration
      + Max({LateExtension(prm) : prm \in ParamSets}) + Max(BlockGaps)

\* The voting period of a proposal is bounded: one extension for a late quorum and
\* ExtensionsLimit extensions by the DAOs, however they interleave.
VotingPeriodBounded ==
    \A p \in Ids({"VotingPeriod"} \cup Final) :
       /\ proposals[p].TimesVotingPeriodExtended <= ExtensionsLimit
       /\ proposals[p].VotingEndTime <=
             proposals[p].VotingStartTime
               + LongestVoting(proposals[p].TimesVotingPeriodExtended)

\* A proposal that has ended never changes again: a stale quorum check of a vetoed
\* proposal, a late deposit or a second tally cannot touch it.
FinalIsFinal ==
    [][\A p \in Ids(Final) : proposals'[p] = proposals[p]]_vars

\* The end of a running voting period only ever moves to a later time, whichever of
\* the quorum check and the DAOs moves it, and with it nothing else of the schedule.
VotingEndOnlyExtends ==
    [][\A p \in Ids({"VotingPeriod"}) :
          /\ proposals[p].VotingEndTime <= proposals'[p].VotingEndTime
          /\ proposals[p].VotingStartTime = proposals'[p].VotingStartTime]_vars

\* Parameters change only in the step in which a proposal carrying them passes: the
\* messages of a rejected, vetoed or failed proposal leave no trace.
OnlyPassedProposalsAct ==
    [][params' # params =>
          \E p \in Ids({"VotingPeriod"}) : /\ proposals'[p].Status = "Passed"
                                           /\ proposals[p].Content.params = params']_vars

\* One throttled value moves by the rules of ADR-003.  It rises in the step that adds a
\* proposal to its stage and brings their number to the target or above; without a new
\* proposal only from below a floor to that floor.  It falls, or is lifted to the floor,
\* only below the target and once the update period has elapsed.  A change of the
\* parameters may leave it below the new floor, but no update does.
ThrottledBy(th, last, lastNext, num, numNext, added) ==
    LET timeBased == /\ ~added
                     /\ numNext < th.TargetProposals
                     /\ now - last.Time >= th.UpdatePeriod
    IN  /\ lastNext.Value > last.Value =>
              \/ added /\ num + 1 >= th.TargetProposals
              \/ timeBased /\ lastNext.Value = th.FloorValue
        /\ lastNext.Value < last.Value => timeBased
        /\ lastNext.Value # last.Value => lastNext.Value >= th.FloorValue

\* The minimum deposit follows the proposals that enter the voting period, the minimum
\* initial deposit those that are submitted.  (A submission may leave the deposit period
\* in the same step, so the counter alone does not show it.)
ThrottlersFollowCounters ==
    [][/\ ThrottledBy(params.MinDepositThrottler, lastMinDeposit, lastMinDeposit',
                      activeNumber, activeNumber', votingPeriodKeys' \ votingPeriodKeys # {})
       /\ ThrottledBy(params.MinInitialDepositThrottler, lastMinInitialDeposit,
                      lastMinInitialDeposit', inactiveNumber, inactiveNumber',
                      proposalID' > proposalID)]_vars

\* Claim of the submission handler: "for proposal submissions the initial deposit is
\* the threshold to check against", so a submission that meets it is not refused for
\* the minimum deposit ratio.
InitialDepositIsTheThreshold ==
    \A amount \in Amounts :
       amount >= lastMinInitialDeposit.Value =>
          MeetsDepositRatio([NoProposal EXCEPT !.Status = "DepositPeriod"], amount, TRUE)

\* Claim of ADR-001: with a QuorumCheckCount of 0 "the system described in this ADR is
\* considered disabled", so a late quorum does not halt the chain.
DisabledChecksDoNotHalt == "nil" \notin panic

\* The stage of a proposal in the abstract specification.
StageOf(prop) ==
    CASE prop.Status = "DepositPeriod" -> "deposit"
      [] prop.Status = "VotingPeriod"  -> "voting"
      [] OTHER                         -> "closed"

Stage(p) == IF p >= proposalID THEN "unborn" ELSE StageOf(proposals[p])

Escrow == INSTANCE ProposalEscrow
            WITH Proposals <- ProposalIds, Depositors <- Accounts,
                 stage <- [p \in ProposalIds |-> Stage(p)],
                 held <- deposits, free <- balances, lost <- burnt

\* Governance implements the escrow: proposals open in order and close once, deposits
\* move only with that life cycle, and closing a proposal (dropped, tallied or vetoed)
\* settles all of its deposits in the same step.
ImplementsEscrow == Escrow!Spec

\* A proposal, at the latest activated in the first block after its deposit end and
\* extended as often as possible, is over before the bounded clock stops.
FitsTheClock(p) ==
    proposals[p].DepositEndTime + Max(BlockGaps) + LongestVoting(ExtensionsLimit)
      + Max(BlockGaps) <= MaxTime

\* Every proposal is eventually decided or dropped, however it is extended.
EventuallySettled ==
    \A p \in ProposalIds :
       (proposals[p].Status \in Live /\ FitsTheClock(p)) ~> proposals[p].Status \notin Live
=============================================================================
