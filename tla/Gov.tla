-------------------------------- MODULE Gov --------------------------------
(***************************************************************************)
(* The x/gov module: proposals, their deposits and votes, the three time    *)
(* queues, the proposal counters with the deposit throttlers they drive,    *)
(* and EndBlocker.                                                          *)
(*                                                                          *)
(* A block is a sequence of transactions (phase "txs") followed by          *)
(* EndBlocker.  EndBlocker walks the inactive, the quorum-check and the     *)
(* active queue, one due entry per step in key order, then updates the      *)
(* throttlers; no transaction runs in between.  A transaction that fails is *)
(* rolled back by the SDK, so a failing handler is an action that is not    *)
(* enabled.  A panic in EndBlocker halts the chain: it is recorded in panic *)
(* and nothing happens afterwards.                                          *)
(***************************************************************************)
EXTENDS Tally

CONSTANTS
    Accounts,        \* accounts that propose and deposit
    Voters,          \* accounts with stake
    VoteOptions,     \* vote options tried in the instance, a subset of Options
    Power,           \* Power[v]: stake voter v delegates to bonded validators
    TotalBonded,     \* total bonded stake
    Amounts,         \* deposit amounts tried in the instance
    InitialBalance,  \* what every account holds at the start
    Contents,        \* proposal contents tried in the instance (see Content)
    ParamSets,       \* parameter values; a proposal may install any of them
    InitParams,      \* the parameters at the start
    InitEMA,         \* participation EMA of every kind at the start
    StakingErrors,   \* {FALSE}, or BOOLEAN when the staking module may fail
    StartTime,       \* time of the first block
    BlockGaps,       \* possible times between two blocks
    Nil,             \* a duration that is not set: a nil pointer
    MaxProposals,    \* bound: proposals ever submitted
    MaxTime          \* bound: time of the last block

ASSUME NilAssumption == Nil \notin Int

VARIABLES
    now,                    \* block time
    phase,                  \* where the block is
    params,                 \* ParamsKey
    proposals,              \* ProposalsKeyPrefix, NoProposal where there is none
    proposalID,             \* ProposalIDKey: the next id
    votingPeriodKeys,       \* ids with a VotingPeriodProposalKey
    inactiveQueue,          \* InactiveProposalQueuePrefix, as [time, id] keys
    activeQueue,            \* ActiveProposalQueuePrefix, as [time, id] keys
    quorumQueue,            \* QuorumCheckQueuePrefix, keys with their entries
    inactiveNumber,         \* InactiveProposalsNumberKey
    activeNumber,           \* ActiveProposalsNumberKey
    lastMinDeposit,         \* LastMinDepositKey
    lastMinInitialDeposit,  \* LastMinInitialDepositKey
    deposits,               \* deposits[p][a], 0 where there is none
    votes,                  \* votes[p][v], NoVote where there is none
    balances,               \* bank: balance of every account
    moduleBalance,          \* bank: balance of the gov module account
    burnt,                  \* history: burned deposits of every account
    ema,                    \* participation EMA of every proposal kind
    panic                   \* history: reasons EndBlocker panicked for

bankVars     == <<balances, moduleBalance, burnt>>
queueVars    == <<inactiveQueue, activeQueue, quorumQueue>>
throttleVars == <<lastMinDeposit, lastMinInitialDeposit>>
proposalVars == <<proposals, votingPeriodKeys, proposalID>>
vars == <<now, phase, params, proposalVars, queueVars, inactiveNumber, activeNumber,
          throttleVars, deposits, votes, bankVars, ema, panic>>

-----------------------------------------------------------------------------

ProposalIds == 1 .. MaxProposals

\* The messages of a proposal, by what governance can tell apart: their kinds,
\* whether a handler fails or panics, and the parameters a MsgUpdateParams installs.
NoParams == [none |-> TRUE]
Content  == [kinds : SUBSET Kinds, fails : BOOLEAN, params : ParamSets \cup {NoParams}]

Statuses == {"None", "DepositPeriod", "VotingPeriod", "Passed", "Rejected", "Failed", "Vetoed"}
Live     == {"DepositPeriod", "VotingPeriod"}
Final    == {"Passed", "Rejected", "Failed", "Vetoed"}

NoContent  == [kinds |-> {}, fails |-> FALSE, params |-> NoParams]
NoProposal == [Status |-> "None", Content |-> NoContent, TotalDeposit |-> 0,
               DepositEndTime |-> 0, VotingStartTime |-> 0, VotingEndTime |-> 0,
               Endorsed |-> FALSE, Annotation |-> FALSE,
               TimesVotingPeriodExtended |-> 0]

\* v1.Proposal, without what governance does not read again (title, summary, proposer,
\* final tally).
Proposal ==
    [Status : Statuses, Content : Contents \cup {NoContent}, TotalDeposit : Nat,
     DepositEndTime : Nat, VotingStartTime : Nat, VotingEndTime : Nat,
     Endorsed : BOOLEAN, Annotation : BOOLEAN, TimesVotingPeriodExtended : Nat]

\* A key of the inactive and of the active queue, and a v1.QuorumCheckQueueEntry with
\* its key.
QueueKey   == [time : Nat, id : ProposalIds]
QuorumKey  == [time : Nat, id : ProposalIds, QuorumTimeoutTime : Nat,
               QuorumCheckCount : Nat \ {0}, QuorumChecksDone : Nat]

\* Params.ValidateBasic, for the parameters the model has.
ValidParams(p) ==
    /\ p.MaxDepositPeriod > 0
    /\ p.VotingPeriod > 0
    /\ \A k \in Kinds : /\ p.QuorumMin[k] <= p.QuorumMax[k]
                        /\ p.QuorumMax[k] <= One
                        /\ p.Threshold[k] \in 1 .. One
                        /\ p.BurnDepositNoThreshold >= One - p.Threshold[k]
    /\ p.Threshold["Any"] <= p.Threshold["Law"]
    /\ p.Threshold["Law"] <= p.Threshold["ConstitutionAmendment"]
    /\ p.MinDepositRatio <= One
    /\ p.BurnDepositNoThreshold <= One
    /\ p.QuorumCheckCount > 0 =>
          /\ p.QuorumTimeout # Nil /\ p.MaxVotingPeriodExtension # Nil
          /\ 0 <= p.QuorumTimeout /\ p.QuorumTimeout < p.VotingPeriod
          /\ p.MaxVotingPeriodExtension >= p.VotingPeriod - p.QuorumTimeout
    /\ \A th \in {p.MinDepositThrottler, p.MinInitialDepositThrottler} :
          /\ th.FloorValue > 0
          /\ th.UpdatePeriod \in 1 .. p.VotingPeriod
          /\ th.Sensitivity > 0
          /\ th.IncreaseRatio \in 1 .. One - 1
          /\ th.DecreaseRatio \in 1 .. One - 1

\* The parameter fields with their types (durations in units of block time).  Without
\* quorum checks their two durations may be anything, nil included.
ParamsType ==
    [MaxDepositPeriod : Nat, VotingPeriod : Nat, QuorumTimeout : Int \cup {Nil},
     QuorumCheckCount : Nat, MaxVotingPeriodExtension : Int \cup {Nil},
     BurnProposalDepositPrevote : BOOLEAN, BurnVoteQuorum : BOOLEAN,
     BurnDepositNoThreshold : Nat, MinDepositRatio : Nat,
     QuorumMin : [Kinds -> Nat], QuorumMax : [Kinds -> Nat], Threshold : [Kinds -> Nat],
     MinDepositThrottler : ThrottlerParams, MinInitialDepositThrottler : ThrottlerParams]

ASSUME ParamsAssumption ==
    /\ \A p \in ParamSets : p \in ParamsType /\ ValidParams(p)
    /\ InitParams \in ParamSets

ASSUME InstanceAssumption ==
    /\ Contents \subseteq Content
    /\ VoteOptions \subseteq Options
    /\ Amounts \subseteq Nat \ {0}
    /\ IsFiniteSet(Accounts) /\ IsFiniteSet(Voters)
    /\ Power \in [Voters -> Nat] /\ TotalBonded \in Nat
    /\ InitialBalance \in Nat /\ InitEMA \in 0 .. One
    /\ StakingErrors \subseteq BOOLEAN
    /\ BlockGaps \subseteq Nat \ {0}
    /\ StartTime \in Nat /\ MaxProposals \in Nat /\ MaxTime \in Nat

-----------------------------------------------------------------------------
(* Store helpers *)

Init ==
    /\ now = StartTime
    /\ phase = "txs"
    /\ params = InitParams
    /\ proposals = [p \in ProposalIds |-> NoProposal]
    /\ proposalID = 1
    /\ votingPeriodKeys = {}
    /\ inactiveQueue = {} /\ activeQueue = {} /\ quorumQueue = {}
    /\ inactiveNumber = 0 /\ activeNumber = 0
    /\ lastMinDeposit = [Value |-> InitParams.MinDepositThrottler.FloorValue,
                         Time  |-> StartTime]
    /\ lastMinInitialDeposit =
          [Value |-> InitParams.MinInitialDepositThrottler.FloorValue, Time |-> StartTime]
    /\ deposits = [p \in ProposalIds |-> [a \in Accounts |-> 0]]
    /\ votes = [p \in ProposalIds |-> [v \in Voters |-> NoVote]]
    /\ balances = [a \in Accounts |-> InitialBalance]
    /\ moduleBalance = 0
    /\ burnt = [a \in Accounts |-> 0]
    /\ ema = [k \in Kinds |-> InitEMA]
    /\ panic = {}

\* A transaction may run: the block is open and the chain has not halted.
InTx == phase = "txs" /\ panic = {}

Key(p, time) == [time |-> time, id |-> p]

\* The key the queue's iterator visits next: the first one, by time and then by
\* id, whose time has come.
IsFirstDue(queue, e) ==
    /\ e \in queue
    /\ e.time <= now
    /\ \A f \in queue : \/ e.time < f.time
                        \/ e.time = f.time /\ e.id <= f.id

NoneDue(queue) == \A e \in queue : e.time > now

\* Mutant of SetProposal: the voting-period key is never deleted.
SetProposal_KeepsKey(p, prop) ==
    /\ proposals' = [proposals EXCEPT ![p] = prop]
    /\ votingPeriodKeys' = votingPeriodKeys \cup
                             (IF prop.Status = "VotingPeriod" THEN {p} ELSE {})

\* SetProposal keeps the voting-period key in step with the status.
SetProposal(p, prop) ==
    /\ proposals' = [proposals EXCEPT ![p] = prop]
    /\ votingPeriodKeys' = IF prop.Status = "VotingPeriod"
                             THEN votingPeriodKeys \cup {p}
                             ELSE votingPeriodKeys \ {p}

\* Mutant of Increment: the counter is not written.
Increment_Lost(num) == num

\* IncrementActiveProposalsNumber, IncrementInactiveProposalsNumber: the new count.
Increment(num) == num + 1

\* Mutant of Decrement: the counter is not written.
Decrement_Lost(num) == num

\* DecrementActiveProposalsNumber, DecrementInactiveProposalsNumber: the new count;
\* both panic at zero.
Decrement(num) == num - 1

\* The two throttlers, driven by the number num of proposals.
MinDepositUpdate(num, checkElapsedTime) ==
    UpdateMinDeposit(params.MinDepositThrottler, lastMinDeposit, num, now,
                     checkElapsedTime)

MinInitialDepositUpdate(num, checkElapsedTime) ==
    UpdateMinDeposit(params.MinInitialDepositThrottler, lastMinInitialDeposit, num, now,
                     checkElapsedTime)

DepositSum(p) == SumOver(deposits[p], Accounts)

\* Mutant of SettleDeposits: the deposits are paid back but stay recorded.
SettleDeposits_KeepsRecord(p, burn) ==
    /\ UNCHANGED <<deposits, burnt>>
    /\ moduleBalance' = moduleBalance - DepositSum(p)
    /\ balances' = [a \in Accounts |-> balances[a] + deposits[p][a]]

\* DeleteAndBurnDeposits / RefundAndDeleteDeposits.
SettleDeposits(p, burn) ==
    /\ deposits' = [deposits EXCEPT ![p] = [a \in Accounts |-> 0]]
    /\ moduleBalance' = moduleBalance - DepositSum(p)
    /\ IF burn
         THEN /\ burnt' = [a \in Accounts |-> burnt[a] + deposits[p][a]]
              /\ UNCHANGED balances
         ELSE /\ balances' = [a \in Accounts |-> balances[a] + deposits[p][a]]
              /\ UNCHANGED burnt

\* Mutant of DeleteVotes: the votes stay in the store.
DeleteVotes_Skipped(p) == UNCHANGED votes

\* DeleteVotes, and what a final tallyVotes deletes.
DeleteVotes(p) == votes' = [votes EXCEPT ![p] = [v \in Voters |-> NoVote]]

\* Mutant of MoveActiveKey: the proposal is not put back into the queue.
MoveActiveKey_Lost(p, from, to) == activeQueue' = activeQueue \ {Key(p, from)}

\* The active queue follows a new voting end.
MoveActiveKey(p, from, to) ==
    activeQueue' = (activeQueue \ {Key(p, from)}) \cup {Key(p, to)}

\* Why EndBlocker panics on a queue entry of p: the bank refuses to move the
\* deposits, a counter would become negative, or the proposal is not in the store.
FundsPanic(p)     == IF moduleBalance < DepositSum(p) THEN {"funds"} ELSE {}
CounterPanic(num) == IF num = 0 THEN {"counter"} ELSE {}
MissingPanic(p)   == IF proposals[p].Status = "None" THEN {"missing"} ELSE {}

\* A late quorum dereferences MaxVotingPeriodExtension of the parameters in force.
NilPanic(e) == IF e.QuorumChecksDone > 0 /\ params.MaxVotingPeriodExtension = Nil
                 THEN {"nil"} ELSE {}

-----------------------------------------------------------------------------
(* Deposits and submission *)

\* NewQuorumCheckQueueEntry under its key.
QuorumEntry(p, time, timeoutTime, count, done) ==
    [time |-> time, id |-> p, QuorumTimeoutTime |-> timeoutTime,
     QuorumCheckCount |-> count, QuorumChecksDone |-> done]

(***************************************************************************)
(* ActivateVotingPeriod for proposal p with contents prop, given the        *)
(* inactive queue and the inactive counter left by the caller's own writes. *)
(* One more active proposal may raise the minimum deposit.                  *)
(***************************************************************************)
ActivateVotingPeriod(p, prop, queue, num) ==
    LET endTime     == now + params.VotingPeriod
        timeoutTime == now + params.QuorumTimeout
    IN  /\ SetProposal(p, [prop EXCEPT !.Status = "VotingPeriod",
                                       !.VotingStartTime = now,
                                       !.VotingEndTime = endTime])
        /\ inactiveQueue' = queue \ {Key(p, prop.DepositEndTime)}
        /\ inactiveNumber' = Decrement(num)
        /\ activeQueue' = activeQueue \cup {Key(p, endTime)}
        /\ quorumQueue' = IF params.QuorumCheckCount > 0
                            THEN quorumQueue \cup
                                   {QuorumEntry(p, timeoutTime, timeoutTime,
                                                params.QuorumCheckCount, 0)}
                            ELSE quorumQueue
        /\ activeNumber' = Increment(activeNumber)
        /\ lastMinDeposit' = MinDepositUpdate(Increment(activeNumber), FALSE)

\* The minimum deposit ratio check of AddDeposit lets the deposit through.
MeetsDepositRatio(prop, amount, skip) ==
    LET skips == \/ skip
                 \/ /\ prop.Status = "DepositPeriod"
                    /\ prop.TotalDeposit >= lastMinDeposit.Value
        threshold == (lastMinDeposit.Value * params.MinDepositRatio) \div One
    IN  \/ params.MinDepositRatio = 0 /\ skips
        \/ amount >= threshold

\* Mutant of Depositable: deposits on closed proposals are accepted.
Depositable_Known(prop) == prop.Status # "None"

\* Deposits are accepted in the deposit and in the voting period.
Depositable(prop) == prop.Status \in Live

\* Mutant of CanPay: the bank lets an account overdraw.
CanPay_Unchecked(a, amount) == TRUE

\* SendCoinsFromAccountToModule succeeds.
CanPay(a, amount) == balances[a] >= amount

(***************************************************************************)
(* AddDeposit by account a on proposal p with contents prop; queue and num  *)
(* as above.  A panic of the counter fails the transaction.                 *)
(***************************************************************************)
AddDeposit(p, prop, queue, num, a, amount, skip) ==
    LET funded    == [prop EXCEPT !.TotalDeposit = @ + amount]
        activates == /\ prop.Status = "DepositPeriod"
                     /\ funded.TotalDeposit >= lastMinDeposit.Value
    IN  /\ Depositable(prop)
        /\ MeetsDepositRatio(prop, amount, skip)
        /\ CanPay(a, amount)
        /\ balances' = [balances EXCEPT ![a] = @ - amount]
        /\ moduleBalance' = moduleBalance + amount
        /\ deposits' = [deposits EXCEPT ![p][a] = @ + amount]
        /\ IF activates
             THEN /\ num > 0
                  /\ ActivateVotingPeriod(p, funded, queue, num)
             ELSE /\ SetProposal(p, funded)
                  /\ inactiveQueue' = queue
                  /\ inactiveNumber' = num
                  /\ UNCHANGED <<activeQueue, quorumQueue, activeNumber, lastMinDeposit>>

\* MsgDeposit.
Deposit(a, p, amount) ==
    /\ InTx
    /\ AddDeposit(p, proposals[p], inactiveQueue, inactiveNumber, a, amount, FALSE)
    /\ UNCHANGED <<now, phase, params, proposalID, lastMinInitialDeposit, votes, burnt,
                   ema, panic>>

(***************************************************************************)
(* MsgSubmitProposal: the initial deposit is checked, the proposal enters   *)
(* the deposit period and the inactive queue, one more inactive proposal    *)
(* may raise the minimum initial deposit, and the initial deposit is added, *)
(* which may already start the voting period.                               *)
(***************************************************************************)
SubmitProposal(a, content, amount) ==
    LET p    == proposalID
        prop == [NoProposal EXCEPT !.Status = "DepositPeriod",
                                   !.Content = content,
                                   !.DepositEndTime = now + params.MaxDepositPeriod]
    IN  /\ InTx
        /\ p <= MaxProposals
        /\ amount >= lastMinInitialDeposit.Value
        /\ proposalID' = p + 1
        /\ lastMinInitialDeposit' = MinInitialDepositUpdate(Increment(inactiveNumber), FALSE)
        /\ AddDeposit(p, prop, inactiveQueue \cup {Key(p, prop.DepositEndTime)},
                      Increment(inactiveNumber), a, amount, TRUE)
        /\ UNCHANGED <<now, phase, params, votes, burnt, ema, panic>>

\* MsgVote / MsgVoteWeighted: the last vote of a voter counts.
AddVote(v, p, option) ==
    /\ InTx
    /\ p \in votingPeriodKeys
    /\ votes' = [votes EXCEPT ![p][v] = option]
    /\ UNCHANGED <<now, phase, params, proposalVars, queueVars, inactiveNumber,
                   activeNumber, throttleVars, deposits, bankVars, ema, panic>>

\* Anyone may send coins to the gov module account: it is not a blocked address.
SendToModule(a, amount) ==
    /\ InTx
    /\ CanPay(a, amount)
    /\ balances' = [balances EXCEPT ![a] = @ - amount]
    /\ moduleBalance' = moduleBalance + amount
    /\ UNCHANGED <<now, phase, params, proposalVars, queueVars, inactiveNumber,
                   activeNumber, throttleVars, deposits, votes, burnt, ema, panic>>

-----------------------------------------------------------------------------
(* EndBlocker *)

\* The last transaction of the block has run.
BeginEndBlock ==
    /\ InTx
    /\ phase' = "inactive"
    /\ UNCHANGED <<now, params, proposalVars, queueVars, inactiveNumber, activeNumber,
                   throttleVars, deposits, votes, bankVars, ema, panic>>

Walking(ph) == phase = ph /\ panic = {}

\* The deposit period of e.id is over and its deposits meet the current minimum:
\* it is activated after all.
ActivateDue(e) ==
    /\ Walking("inactive")
    /\ IsFirstDue(inactiveQueue, e)
    /\ proposals[e.id].Status = "DepositPeriod"
    /\ proposals[e.id].TotalDeposit >= lastMinDeposit.Value
    /\ ActivateVotingPeriod(e.id, proposals[e.id], inactiveQueue, inactiveNumber)
    /\ panic' = CounterPanic(inactiveNumber)
    /\ UNCHANGED <<now, phase, params, proposalID, lastMinInitialDeposit, deposits, votes,
                   bankVars, ema>>

\* It is not: the proposal is deleted, its deposits are burned or refunded.
DropDue(e) ==
    LET p    == e.id
        prop == proposals[p]
    IN  /\ Walking("inactive")
        /\ IsFirstDue(inactiveQueue, e)
        /\ ~(prop.Status = "DepositPeriod" /\ prop.TotalDeposit >= lastMinDeposit.Value)
        /\ SetProposal(p, NoProposal)
        /\ inactiveQueue' = inactiveQueue \ {Key(p, prop.DepositEndTime)}
        /\ activeQueue' = activeQueue \ {Key(p, prop.VotingEndTime)}
        /\ SettleDeposits(p, params.BurnProposalDepositPrevote)
        /\ inactiveNumber' = Decrement(inactiveNumber)
        /\ panic' = MissingPanic(p) \cup FundsPanic(p) \cup CounterPanic(inactiveNumber)
        /\ UNCHANGED <<now, phase, params, proposalID, quorumQueue, activeNumber,
                       throttleVars, votes, ema>>

InactiveWalked ==
    /\ Walking("inactive")
    /\ NoneDue(inactiveQueue)
    /\ phase' = "quorum"
    /\ UNCHANGED <<now, params, proposalVars, queueVars, inactiveNumber, activeNumber,
                   throttleVars, deposits, votes, bankVars, ema, panic>>

ProposalQuorum(p) == GetQuorum(params, ema, proposals[p].Content.kinds)

QuorumReached(p) ==
    HasReachedQuorum(votes[p], Power, TotalBonded, ProposalQuorum(p))

\* Time between two quorum checks of the proposal with entry e.
CheckInterval(e) ==
    (proposals[e.id].VotingEndTime - e.QuorumTimeoutTime) \div e.QuorumCheckCount

\* Mutant of NextCheckTime: a late block can schedule a check after the voting end.
NextCheckTime_Uncapped(e) ==
    LET t    == CheckInterval(e)
        next == e.time + t
    IN  IF next > now THEN next ELSE next + t * ((now - next) \div t + 1)

\* Mutant of NextCheckTime: one interval is added even if that is not enough.
NextCheckTime_OneStep(e) ==
    LET next == e.time + CheckInterval(e)
        end  == proposals[e.id].VotingEndTime
    IN  IF next > end THEN end ELSE next

\* The next check: one interval later, moved into the future by whole intervals,
\* and no later than the end of the voting period.
NextCheckTime(e) ==
    LET t    == CheckInterval(e)
        next == e.time + t
        skip == IF next > now THEN next ELSE next + t * ((now - next) \div t + 1)
        end  == proposals[e.id].VotingEndTime
    IN  IF skip > end THEN end ELSE skip

\* The quorum came after a failed check, and the extended end is later.
LateQuorumExtends(e) ==
    /\ e.QuorumChecksDone > 0
    /\ params.MaxVotingPeriodExtension # Nil
    /\ now + params.MaxVotingPeriodExtension > proposals[e.id].VotingEndTime

\* The proposal reached its quorum: if an earlier check had failed, the voting
\* period is extended so that MaxVotingPeriodExtension remains.  The parameters may
\* have changed since the check was scheduled.
CheckQuorumReached(e) ==
    LET p       == e.id
        prop    == proposals[p]
        endTime == now + params.MaxVotingPeriodExtension
    IN  /\ Walking("quorum")
        /\ IsFirstDue(quorumQueue, e)
        /\ QuorumReached(p)
        /\ quorumQueue' = quorumQueue \ {e}
        /\ IF LateQuorumExtends(e)
             THEN /\ SetProposal(p, [prop EXCEPT !.VotingEndTime = endTime])
                  /\ MoveActiveKey(p, prop.VotingEndTime, endTime)
             ELSE UNCHANGED <<proposals, votingPeriodKeys, activeQueue>>
        /\ panic' = MissingPanic(p) \cup NilPanic(e)
        /\ UNCHANGED <<now, phase, params, proposalID, inactiveQueue, inactiveNumber,
                       activeNumber, throttleVars, deposits, votes, bankVars, ema>>

\* It did not: another check is scheduled while checks and voting time are left.
\* An interval that rounds down to zero is a division by zero once the next
\* check has to be moved into the future.
CheckQuorumMissed(e) ==
    LET p     == e.id
        again == /\ e.QuorumChecksDone < e.QuorumCheckCount
                 /\ proposals[p].VotingEndTime > now
        entry == [e EXCEPT !.time = NextCheckTime(e), !.QuorumChecksDone = @ + 1]
    IN  /\ Walking("quorum")
        /\ IsFirstDue(quorumQueue, e)
        /\ ~QuorumReached(p)
        /\ IF again /\ CheckInterval(e) = 0
             THEN /\ panic' = {"division"}
                  /\ UNCHANGED quorumQueue
             ELSE /\ panic' = MissingPanic(p)
                  /\ quorumQueue' = (quorumQueue \ {e}) \cup (IF again THEN {entry} ELSE {})
        /\ UNCHANGED <<now, phase, params, proposalVars, inactiveQueue, activeQueue,
                       inactiveNumber, activeNumber, throttleVars, deposits, votes,
                       bankVars, ema>>

\* HasReachedQuorum failed: the entry is gone and the proposal is not checked again.
CheckQuorumError(e) ==
    /\ Walking("quorum")
    /\ TRUE \in StakingErrors
    /\ IsFirstDue(quorumQueue, e)
    /\ quorumQueue' = quorumQueue \ {e}
    /\ panic' = MissingPanic(e.id)
    /\ UNCHANGED <<now, phase, params, proposalVars, inactiveQueue, activeQueue,
                   inactiveNumber, activeNumber, throttleVars, deposits, votes, bankVars,
                   ema>>

QuorumWalked ==
    /\ Walking("quorum")
    /\ NoneDue(quorumQueue)
    /\ phase' = "active"
    /\ UNCHANGED <<now, params, proposalVars, queueVars, inactiveNumber, activeNumber,
                   throttleVars, deposits, votes, bankVars, ema, panic>>

\* Mutant of ExecuteMessages: the messages before the failing one take effect.
ExecuteMessages_NoCache(content) ==
    IF content.params = NoParams
      THEN UNCHANGED <<params, throttleVars>>
      ELSE /\ params' = content.params
           /\ UNCHANGED throttleVars

\* What the messages of a passed proposal leave behind.  They run in a cached
\* context that is written only if every handler succeeds; MsgUpdateParams first
\* stores the current minimum deposits again, with the block time.
ExecuteMessages(content) ==
    IF content.fails \/ content.params = NoParams
      THEN UNCHANGED <<params, throttleVars>>
      ELSE /\ params' = content.params
           /\ lastMinDeposit' = [lastMinDeposit EXCEPT !.Time = now]
           /\ lastMinInitialDeposit' = [lastMinInitialDeposit EXCEPT !.Time = now]

\* The writes that end the voting period of p, whatever the outcome.
CloseVoting(p, status, burn, participation) ==
    LET prop == proposals[p]
    IN  /\ SettleDeposits(p, burn)
        /\ SetProposal(p, [prop EXCEPT !.Status = status])
        /\ activeQueue' = activeQueue \ {Key(p, prop.VotingEndTime)}
        /\ activeNumber' = Decrement(activeNumber)
        /\ ema' = UpdateParticipationEMA(ema, prop.Content.kinds, participation)
        /\ panic' = MissingPanic(p) \cup FundsPanic(p) \cup CounterPanic(activeNumber)
        /\ UNCHANGED <<now, phase, proposalID, inactiveQueue, quorumQueue, inactiveNumber>>

\* The voting period of e.id is over: tally (which deletes the votes), settle the
\* deposits, execute the messages of a passed proposal.
TallyDue(e) ==
    LET p             == e.id
        prop          == proposals[p]
        quorum        == ProposalQuorum(p)
        threshold     == GetThreshold(params, prop.Content.kinds, prop.Endorsed)
        passes        == Passes(votes[p], Power, TotalBonded, quorum, threshold)
        burn          == BurnsDeposits(votes[p], Power, TotalBonded, quorum, threshold, params)
        participation == Participation(votes[p], Power, TotalBonded)
    IN  /\ Walking("active")
        /\ IsFirstDue(activeQueue, e)
        /\ DeleteVotes(p)
        /\ IF passes
             THEN /\ CloseVoting(p, IF prop.Content.fails THEN "Failed" ELSE "Passed",
                                 FALSE, participation)
                  /\ ExecuteMessages(prop.Content)
             ELSE /\ CloseVoting(p, "Rejected", burn, participation)
                  /\ UNCHANGED <<params, throttleVars>>

\* The staking module failed during the tally: the votes counted so far are
\* deleted, the others stay; the proposal is rejected and its deposits refunded.
TallyDueError(e) ==
    LET p == e.id
    IN  /\ Walking("active")
        /\ TRUE \in StakingErrors
        /\ IsFirstDue(activeQueue, e)
        /\ \E kept \in SUBSET Voters :
              votes' = [votes EXCEPT ![p] =
                           [v \in Voters |-> IF v \in kept THEN votes[p][v] ELSE NoVote]]
        /\ CloseVoting(p, "Rejected", FALSE, 0)
        /\ UNCHANGED <<params, throttleVars>>

\* After the last queue: the time-based updates of both throttlers.
ActiveWalked ==
    /\ Walking("active")
    /\ NoneDue(activeQueue)
    /\ phase' = "commit"
    /\ lastMinInitialDeposit' = MinInitialDepositUpdate(inactiveNumber, TRUE)
    /\ lastMinDeposit' = MinDepositUpdate(activeNumber, TRUE)
    /\ UNCHANGED <<now, params, proposalVars, queueVars, inactiveNumber, activeNumber,
                   deposits, votes, bankVars, ema, panic>>

\* Consensus starts the next block; block times strictly increase.
NextBlock(gap) ==
    /\ Walking("commit")
    /\ now + gap <= MaxTime
    /\ now' = now + gap
    /\ phase' = "txs"
    /\ UNCHANGED <<params, proposalVars, queueVars, inactiveNumber, activeNumber,
                   throttleVars, deposits, votes, bankVars, ema, panic>>

-----------------------------------------------------------------------------

Transaction ==
    \/ \E a \in Accounts, content \in Contents, amount \in Amounts :
          SubmitProposal(a, content, amount)
    \/ \E a \in Accounts, p \in ProposalIds, amount \in Amounts : Deposit(a, p, amount)
    \/ \E v \in Voters, p \in ProposalIds, option \in VoteOptions : AddVote(v, p, option)

EndBlocker ==
    \/ BeginEndBlock
    \/ \E e \in inactiveQueue : ActivateDue(e) \/ DropDue(e)
    \/ InactiveWalked
    \/ \E e \in quorumQueue :
          CheckQuorumReached(e) \/ CheckQuorumMissed(e) \/ CheckQuorumError(e)
    \/ QuorumWalked
    \/ \E e \in activeQueue : TallyDue(e) \/ TallyDueError(e)
    \/ ActiveWalked
=============================================================================
