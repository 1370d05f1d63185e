# Verification of hikari-chain

This directory is a TLA+ development of hikari-chain (an AtomOne-derived Cosmos SDK chain).
It has three parts: on-chain governance (`x/gov`) together with the messages of the two DAOs that
act on proposals (`x/coredaos`); what passed proposals do to the constitution and to the addresses
of the DAOs, and who may stake and vote; and the fees of transactions (`x/dynamicfee`,
`x/photon`).  The modules are translated from the Go source; `PROJECT.json` maps every definition to the lines it
models.

## 1. Inventory

| Component | State | Operations | Interacts with |
|---|---|---|---|
| `x/gov` proposals, deposits, votes (`x/gov/keeper`) | proposals, deposits, votes, next id, voting-period keys, inactive / active / quorum-check queue | `MsgSubmitProposal`, `MsgDeposit`, `MsgVote`, `MsgVoteWeighted` | bank (deposits), throttlers, EndBlocker |
| `x/gov` EndBlocker (`x/gov/abci.go`) | none of its own | walks the three queues: drop or activate, quorum check, tally; then updates the throttlers | all of `x/gov`, the message router, staking |
| deposit throttlers (`min_deposit.go`, `min_initial_deposit.go`) | last value and its time, active and inactive proposal counters | increment, decrement, update | called by submission, activation, EndBlocker and the veto |
| tally and dynamic quorum (`tally.go`, `participation_ema.go`) | three participation averages | `Tally`, `HasReachedQuorum`, `UpdateParticipationEMA` | staking (stake of the voters), parameters |
| `x/gov` parameters | `Params` | `MsgUpdateParams`, only from a passed proposal | everything above |
| `x/gov` genesis (`genesis.go`, `app/export.go`) | - | `ExportGenesis`, `InitGenesis` | rebuilds the stores |
| `x/coredaos` messages | DAO addresses and extension limits | annotate, endorse, extend, veto | writes `x/gov`'s stores through its keeper |
| `x/coredaos` parameters and staking hooks | the two DAO addresses | `MsgUpdateParams` (from a passed proposal), refuse delegations of the DAOs | staking, run by a passed proposal |
| constitution and laws | constitution text | `MsgProposeConstitutionAmendment`, `MsgProposeLaw`; the client's `generate-unified-diff` | run by a passed proposal |
| `x/dynamicfee` | parameters, gas window, index, base gas price, learning rate, enabled height | ante check and deduction of fees, post handler (counts gas), EndBlock (reprices), `MsgUpdateParams`, export and import | bank, fee grants, x/photon (conversion of prices), consensus parameters |
| `x/photon` | parameters (supplies are the bank's) | `MsgMintPhoton` (burns atone), `MsgUpdateParams`, fee validation, conversion rate | bank, staking |
| ante handlers | - | order of the fee decorators, vote decorator (minimum stake to vote) | staking, x/photon, x/dynamicfee |
| queries, command line, app wiring, upgrades, migrations, simulation | - | - | - |

What is hard here:

* **Shared indexes.**  A proposal is recorded in up to five places (its record, a voting-period
  key, one of two time queues, the quorum-check queue, one of two counters).  Six handlers in two
  modules update them, each with the end time it read itself.
* **Order inside a block.**  Transactions run before EndBlocker, also in a block whose time is past
  a voting end; EndBlocker writes to the queues it iterates over; activating or executing one
  proposal changes the parameters and the minimum deposit under which the next one is handled.
* **Timers.**  Quorum checks are spaced by integer division, skip forward over late blocks and are
  capped by a voting end that the DAOs and the checks themselves move.
* **Partial failure.**  Messages of a passed proposal may fail half-way, after one of them changed
  the constitution or another module; the staking module may fail during a tally that deletes votes
  as it counts.
* **Checked early, used late.**  An amendment is a patch drafted against the constitution of its
  day and applied to whatever it is when the proposal passes.  An account is a DAO from the moment
  a proposal is executed, with the stake it has, or still has unbonding, by then.
* **Line numbers.**  Patches count lines from 1, the code from 0; hunks may be empty, overlap, lie
  behind the end, or come out of order; a text may end with a line break or be empty.
* **Restart.**  Queues and counters are not exported and have to be rebuilt from the proposals.
* **Halting.**  A panic in EndBlocker stops the chain: negative counter, missing proposal,
  insufficient module balance, zero quorum-check interval, an extension that is not set, an empty
  gas window, a gas target beyond an int64.
* **Two passes over a transaction.**  A fee is checked against the gas limit at the price of the
  block before the messages run, and kept when they fail; the gas consumed is counted after them.
  The messages may spend, burn or mint the coins fees are paid in.
* **Recovered panics.**  Overflow or division by zero in one of the two pricing updates falls back
  to a minimum, while the other update goes on.
* **Rounding.**  Photon is minted at a rate that falls to zero at the maximum supply, rounding up
  or down twice; prices fall by rounded products.

`PROJECT.json` lists these hazards at their lines, with the properties that cover them.

## 2. Modules

```
Throttler  <-  Tally  <-  Gov  <-  GovDaos  <-  GovGenesis
               Sums  <-/             |  \           |
                                     |   MCGov  <- MCGovGenesis
ProposalEscrow  <--(refinement)------+

UnifiedDiff  <-  Enactment  <-  MCEnactment
CoreDaos     <-/                (CoreDaos uses Sums)

Decimals  <-  Photon  <-  TxFees  <-  MCTxFees
    \    Sums <-/  |      /
     \-- Aimd  <---|-----/            MCPhoton extends Photon
PhotonSupply  <----+ (refinement)

Sums_proofs  <-  GovDaos_proofs  <-  GovDaosSteps_proofs  <-  GovGenesis_proofs
             <-  Photon_proofs   <-  TxFees_proofs
             <-  UnifiedDiff_proofs  <-  Enactment_proofs
```

* **Throttler**: `UpdateMinDeposit`, `GetNewMinDeposit` as operators.  The two Go files are the
  same algorithm on two values, so one set of operators serves both.  Decimals are hundredths.
* **Sums**: sums over finite sets and occurrences in a sequence, defined as cardinalities so that they
  can be reasoned about.
* **Tally**: quorum, threshold, outcome, burning of deposits, participation averages.
* **Gov**: the state machine.  One variable per store prefix (see the declarations), plus the bank
  balances it touches, the block time and the phase of the block.  One action per message handler;
  EndBlocker is one action per visited queue entry and outcome, plus one at the end of each walk.
  A transaction that returns an error or panics is rolled back by the SDK: it is an action that is
  not enabled.  A panic in EndBlocker is recorded in `panic`, after which nothing happens.
  `IsFirstDue` is the iterator: the first key by time and id that is due.
* **GovDaos**: adds the four DAO messages, `Next`, `Spec`, `FairSpec` and the properties.
* **GovGenesis**: adds coins sent to the module account, and a restart of the chain through
  `ExportGenesis` and `InitGenesis` after any committed block.
* **ProposalEscrow**: what depositors are promised, with no queue, vote, counter, block or DAO.
* **UnifiedDiff**: parsing, validation and application of patches, and the patches the client
  drafts, as operators.  A text is the sequence of its lines, a patch the sequence of its hunks.  A draft
  is an edit script cut into hunks, one for each run of the lines that are printed.
* **CoreDaos**: the addresses of the DAOs, delegations and unbonding tokens, the staking hooks in
  front of the staking transactions, and the vote decorator of the ante handlers.
* **Enactment**: proposals that amend the constitution, pass a law or change the DAO addresses, over
  `UnifiedDiff` and `CoreDaos`.  The messages of a passed proposal run one per step on a cached
  context, which is written at the end or dropped at the first error.
* **Decimals**: `math.LegacyDec` with its rounding, for any precision `One`.
* **Photon**: x/photon over the bank's balances and supplies: minting, parameters, rewards.
* **PhotonSupply**: what holders of either coin are promised about the two supplies.
* **Aimd**: the pricing state of `x/dynamicfee/types` as operators: window, learning rate, price.
* **TxFees**: x/dynamicfee composed with x/photon.  A block runs transactions (`DeliverTx`,
  `FailTx`), then `EndBlock` of x/dynamicfee, then what proposals may execute in the EndBlocker of
  x/gov (`UpdateFeeParams`, `GovUpdatesPhoton`, `UpdateMaxGas`), the order of `app/modules.go`.
  `Restart` exports and imports the genesis.  A transaction is its payer, fee granter, fee, gas
  limit and messages; `DeliverTx` is the whole of ante handlers, messages and post handler.
* **MCGov**, **MCGovGenesis**, **MCEnactment**, **MCPhoton**, **MCTxFees**: parameter sets and
  contents for TLC.
* **Sums_proofs**, **GovDaos_proofs**, **GovDaosSteps_proofs**, **GovGenesis_proofs**,
  **UnifiedDiff_proofs**, **Enactment_proofs**, **Photon_proofs**, **TxFees_proofs**: the proofs.

### Abstractions in governance

* One denomination; block time in small units instead of nanoseconds; decimals in hundredths.
* A vote is one option (a weighted vote splits a voter's stake between options and changes only
  `VotingPower`).  The stake of the voters and the total bonded stake are constant.
* The messages of a proposal are their kinds, whether one of them fails or panics, and the
  parameters a `MsgUpdateParams` installs.  Amendments, laws and `MsgUpdateParams` of `x/coredaos`
  are in `Enactment`; other effects of messages are outside the model, including messages to `x/gov`
  itself signed by the governance account.
* Titles, metadata, gas, events, logging and the hooks (no module registers one that changes state)
  are left out.
* In `Gov` and the modules over it the DAO addresses and limits are constants.
* `Params.ValidateBasic` is an assumption on the parameter sets (`ParamsAssumption`).  It asks
  nothing of the quorum timeout and the extension of a set without quorum checks: they may be
  negative or `Nil`, the nil pointer.
* The number of quorum checks may exceed the time units they are spread over, as in the code, where
  the unit is a nanosecond and the count a `uint64`; the interval is then zero and EndBlocker divides
  by it.  `SpacedChecks` says that no parameter set does this; it is a hypothesis inside the
  properties that need it, not an assumption of the modules.

### Abstractions in enactment

* Proposals here are submitted, refused or passed at any time: how that is decided is `Gov`'s
  matter.  Staking and voting happen between executions, never during one, as in a block.
* Stake is counted in tokens, not shares, so a delegation of less than a token, or one whose
  validator was slashed to nothing, is no delegation.  Validators are numbered in the order in which the
  store lists them, which decides what the vote decorator adds up.
* The extension limits of `x/coredaos` are left out of its parameters here; `Gov` has them.
* The vote decorator looks at `MsgVote` among the messages of a transaction and among those of its
  `MsgExec`s, one level deep.  A `MsgVote` in a `MsgExec` of a `MsgExec`, and any `MsgVoteWeighted`,
  pass it unchecked: they are actions of their own, and `DaosPassNoStakeCheck` says nothing of them.
* The default genesis of `x/coredaos` sets no DAO.  A genesis may name an account with stake, which
  `InitGenesis` does not check, and then the account keeps its stake.
* A hunk is its header and its lines; what the regular expression of the header accepts, and the
  line breaks in the text of a patch, are left out.  The Myers algorithm of the client's library is
  any shortest edit script.

### Abstractions in fees

* Decimals have `One` units (100 in the runs, 10^18 in the SDK); `Photon_proofs` is for every
  `One`.  `PrecisionAssumption` (the supply of bond denom is below `One`) holds by a wide margin for
  the chain: about 10^14 base units against 10^18.
* `MaxDec` stands for the largest decimal, beyond which `LegacyDec` panics, in the result of every
  operation on the way to a new rate or price; `MaxInt64` for the largest int64, beyond which the
  conversion of the target block gas panics.  Sums of gas are `uint64` in the code and cannot wrap
  before the block limit refuses them, so they are natural numbers here.
* The fee denom of x/dynamicfee is photon, the default of both parameter sets.
* The enabled height is only compared with the current height: `justEnabled`.
* The gas a transaction consumes is any number from 1 to its limit.  A transaction that fails, for
  whatever reason, keeps the writes of the ante handlers and counts no gas.  The SDK's own block
  gas meter is left out: it could only refuse more transactions.
* Left out: the priority of a transaction, which only the mempool uses; simulation mode; signature
  and size decorators; spending limits of fee allowances.
* `Staked` stands for bond denom that cannot be burned because it is bonded; rewards come from the
  mint module.  Both are external.
* The parameters of x/dynamicfee are whatever a proposal carries: `UpdateParams` validates nothing.
  The passing runs use parameter sets that satisfy `Params.ValidateBasic` and have positive minima;
  `fee_window` shows what happens without the first.  The second matters to restarts only:
  `State.ValidateBasic` refuses a price or rate of zero, which `Params.ValidateBasic` accepts as a
  minimum, so a chain whose price is zero cannot import the genesis it exports.

## 3. Runs

Every governance run uses one account and one voter, which owns all the stake: its vote decides
both quorum and outcome, and the voting, abstaining-by-silence and late-voting cases all occur.  Deposits by
several accounts are covered by the proofs.  Clock and proposal bounds (`MaxTime`, `MaxProposals`)
are chosen per run so that a proposal can pass through submission, late activation, every quorum
check, an extension and the tally.

| Run | Question | Bounds |
|---|---|---|
| `lifecycle` | Do indexes, counters, throttlers and money agree along the whole life of concurrent proposals?  Do parameters change only with a passing tally, also when two proposals are tallied in one block, a message fails, or the Oversight DAO vetoes one?  Does governance implement `ProposalEscrow`? | 2 proposals, 2 parameter sets, of which one raises the floor of the minimum deposit and disables the quorum checks, with durations that are not set; no extensions by the DAOs, time to 6 |
| `late_quorum` | Are quorum checks right when blocks are late, both DAOs extend and veto, and the staking module fails?  Is the inductive invariant `Inv` true?  Is every proposal eventually decided or dropped? | 1 proposal, gaps 2 and 4 against intervals of 2 to 4, one extension of 2 and the extension of a late quorum, time to 28 |
| `enactment` | Does a DAO never hold stake nor pass the check of stake for a vote?  Does the constitution account for exactly the amendments that passed?  Does the patch algorithm do what the hunks say, also for the drafts of the client? | 1 account, which may be both DAOs, 2 validators, 2 tokens, 2 proposals of up to 2 messages; 25 000 patches against the short texts over two words |
| `photon` | Do rounding and rewards keep the supplies in bounds?  Does x/photon implement `PhotonSupply`? | 2 accounts, maximum supply 37, bond denom to 20: the maximum is reached |
| `fee_prices` | Do window, price, rate and block gas fit the parameters in force, through parameter changes, limit changes, overflows and restarts?  Does the price follow the demand, and reach its minimum when blocks stay empty? | windows 1 and 2, gas limits 0, 1 and 3, block limits default, 1 and 3; decimals to 2.1, beyond which prices and adjustments overflow |
| `fee_mixed` | Do fees in both denoms, grants, minting and changing exceptions keep balances and supplies right? | 2 accounts, one granting the other |
| `genesis` | Does a restart at any block keep queues, quorum checks and solvency right? | 1 proposal, transfers to the module account |

One account suffices in `enactment` because the hooks and the decorator look at one account at a
time; the proofs are for any number.  `PatchReplacesHunks` is about an
algorithm without state, so it is evaluated in the initial state only, over all texts of up to
three lines and a few longer ones; that is enough for hunks that touch, overlap, lie behind the end
or leave unchanged lines between them.  `DraftsApplyCleanly` is evaluated for all pairs of these texts
in the initial state, and from every constitution that is reached to each of the targets.

The text a draft makes has the lines its author wants, and ends with a line break just if the text it
was drafted from did: `GenerateUnifiedDiff` adds a missing line break to both texts, so a draft never
adds or removes the last one.  A text with two line breaks at its end, drafted from one without,
keeps one of them.  `DraftsApplyCleanly` states this exactly, with `FinalBreak`.

Five runs show that the code does not do what a comment, a document or an error message says
(`findings` in `PROJECT.json`):

| Run | Counterexample |
|---|---|
| `genesis_counters` | After an import the counters are zero; the first imported proposal to leave its period makes `Decrement...ProposalsNumber` panic in EndBlocker. |
| `genesis_funds` | A transfer to the gov module account makes `InitGenesis` panic on the exported state. |
| `initial_deposit` | With the default ratio of 1%, the deposit ratio check is not skipped on submission; once the minimum deposit has risen, the minimum initial deposit is refused. |
| `fee_window` | A proposal sets the window of x/dynamicfee to zero, which nothing validates; the next EndBlock divides by the length of the window and panics, in every block. |
| `disabled_checks` | A proposal disables the quorum checks and sets no extension, which is valid; another vote still has a check pending, reaches its quorum late, and EndBlocker dereferences nil. |

Three smaller disagreements have no run of their own:

* ADR-002 says that the photon supply "will never reach this cap" while bond denom is staked.  It
  does: `MintPhoton` rounds the rate and the product to the nearest, so the last photon can be minted
  for a part of the bond denom.  In `photon`, eight steps lead to a supply of 37, the maximum, with the
  bonded coin still there.  What holds, and is proved, is that the supply never exceeds the cap.
* `GetTargetBlockGas` panics beyond the largest int64.  `UpdateBaseGasPrice` recovers that panic, the
  log call of the same EndBlock does not, and `Params.ValidateBasic` accepts a `DefaultMaxBlockGas`
  that brings it about while the consensus parameters set no limit.  The model has the panic; the
  parameter sets of the runs stay below it, and `FeesHaltOnlyOnLargeTarget` names it.
* `parseHunkRange` subtracts one from every line number, so a hunk with an empty source range,
  `-k,0`, inserts before line k, where the GNU manual that the README of `x/gov` refers to inserts
  after it.  Drafts of the client print context and are not affected.

**Fairness.**  `FairSpec` assumes weak fairness of EndBlocker's steps and of the next block:
consensus produces blocks, and a block runs EndBlocker to its end.  No transaction is assumed.
`EventuallySettled` is restricted to proposals that can be over before the bounded clock stops
(`FitsTheClock`).  `FairSpec` of `TxFees` assumes that blocks end and begin, nothing else: no
transaction and no parameter change.  The governance runs stop at the bounded clock
(`CHECK_DEADLOCK FALSE`), and so does `photon`, whose supplies are bounded; the other runs have no
such bound and check deadlock.

Every property of a passing run has a mutant: a plausible bug (`..._Lost`, `..._Uncapped`, ...),
defined next to the definition it replaces, under which TLC finds the property violated.

## 4. Proofs

### Governance

`GovDaos_proofs` proves, for every number of proposals, accounts and voters, every amount and every
parameter set:

* `Invariance`: `Spec => []Inv`;
* from it `TypeCorrect`, `QueuesConsistent`, `CountersConsistent`, `HaltsOnlyFromParams`,
  `DepositsSafe` and `QuorumChecksScheduled`, the invariants of the runs by their own names.

`GovDaosSteps_proofs` proves what single steps may do, from that invariant:

* `EndedStaysEnded` and `VotingEndMovesForward`: every step takes every proposal along its life
  (`AllMove`), so a proposal that has ended never changes and a running voting end never moves back;
* `ParamsChangeByTally` (`OnlyPassedProposalsAct`): parameters change only where a tally passes a
  proposal;
* `InsertionsInFuture`: the walks of EndBlocker end;
* `NothingLeftBehind`: `SettledHoldsNothing`, through a second invariant: only a proposal in its
  voting period has votes (`VotesInVoting`);
* `DepositsThrottled` (`ThrottlersFollowCounters`): each minimum deposit rises only in the step that
  adds a proposal to its own stage and brings their number to the target or above.  Without a new
  proposal it changes only below the target and after the ticks of time it has to wait for: it
  falls, or is lifted to a floor that the parameters have raised;
* `VotingIsBounded` (`VotingPeriodBounded`), the longest voting any sequence of late blocks, quorum
  checks and extensions by the DAOs can bring about;
* `EscrowRefinement`: `Spec` implements `ProposalEscrow`.  Only submissions, deposits, activations
  and the three ways to close a proposal are steps of the escrow; all others, a late quorum and the
  DAO messages included, leave its variables alone.  A closing step refunds or burns all deposits,
  which `Escrow!Close` splits by a sum over the accounts.

`VotingIsBounded` needs an invariant of its own, `VotingBound`: a proposal whose quorum check is
pending has had no extension for a late quorum yet, and a check that is due has been due for less
than the time between two blocks.  So an extension, which counts from the block that finds the
quorum, exceeds the planned one by at most that gap.  The theorem assumes `FiniteSchedule`: finitely
many parameter sets and block gaps, without which there is no longest.

**The invariant.**  The properties need each other.  That EndBlocker does not panic on a counter
follows from the counters counting right, which needs the queues to match the proposals (a queue
entry stands for a live proposal); that the bank can pay needs conservation; that a counter is
decremented only once needs that a tallied proposal is in no queue.  Four facts had to be added:

* `ChecksFitVoting`: under `SpacedChecks`, an entry's checks fit between its timeout and the voting
  end, so the interval is at least one unit and no division by zero happens.  Extensions keep it
  because they only move the end forward.
* `ChecksBeforeTally`: while the active queue is walked no quorum check is due.  Together with
  `QuorumChecksInTime` it shows that a tallied proposal has no check left.
* `FreeIds`: ids from `proposalID` on are unused.
* `VetoedHasNoVotes`: the check a veto leaves behind counts no votes.

**Halting.**  `HaltsOnlyFromParams` says what can still stop the chain, with no assumption but
`PositiveQuorum`: not a counter, a missing proposal or the funds of the module account.  A division
by zero needs a parameter set that breaks `SpacedChecks`, which `ValidateBasic` accepts.  A nil
dereference needs parameters that disable the quorum checks and set no extension, while a check
scheduled under earlier parameters is pending: the run `disabled_checks` shows it.

**Assumptions.**  The theorems assume `PositiveQuorum`: no parameter set has a zero generic minimum
quorum, although `Params.ValidateBasic` accepts one.  Without it they are false: a veto leaves its
quorum check behind, which counts no votes and, under a zero quorum, would put the vetoed proposal
back into the active queue.  `ParamsAssumption`, `NilAssumption`, `InstanceAssumption` and
`DaoAssumption` are the assumptions of the modules, evaluated by TLC on every run.

`InsertionsInFuture` also assumes `PositiveExtension`: every parameter set that has an extension
extends a late quorum by something.  `ValidateBasic` demands it only of parameter sets with quorum
checks.  A change to a set without them, and with an extension of zero, while a check is pending may
let that check extend the voting period by nothing, and then the new end may be the block time; the
walk of the active queue, which comes later in the block, takes care of it.  `NothingLeftBehind` also
assumes `NoStakingErrors`: a tally that fails half-way leaves votes behind, in the code as in the
model.

**Restarts.**  `GovGenesis_proofs` is about `GenesisSpec`, with exports, imports and coins sent to
the module account.  `Inv` does not survive there: the imported counters are zero, a transfer breaks
the equality of balance and deposits, and EndBlocker may panic (the runs `genesis_counters` and
`genesis_funds`).  What does survive:

* `AccountCoversDeposits` (`ModuleAccountInvariant`): the module account holds at least the recorded
  deposits, without any assumption on the parameters, through `FundsInv`, which knows of the queues
  only that their keys are ids;
* `QueuesSurviveRestarts` (`QueuesMatchProposals`): the queues `InitGenesis` rebuilds from the
  proposals match them, and stay so, under `PositiveQuorum` and `NoStakingErrors`;
* `ChecksSurviveRestarts` (`QuorumChecksInTime`): so do the quorum checks `InitGenesis` schedules
  anew, one per running vote and none after its end, under the same two assumptions and
  `TimeoutsFit`.

`InitGenesis` counts the quorum timeout of the imported parameters from the old voting start, and
the vote may have begun under other parameters.  The invariant `ChecksInv` therefore remembers that
every running vote spans the voting period of some parameter set (`VotingSpan`), and `TimeoutsFit`
says that the quorum timeout of every set with checks lies within the voting period of every other.  `ValidateBasic` only
compares the two within one set.  Without `TimeoutsFit` the statement is false: a vote of 3 units,
a change to a longer period with a timeout of 4, and a restart leave a check after the voting end.

**Layout.**  `Sums_proofs` has the facts on sums (splitting off an element, updating one) and
`LeastNat`, the induction principle of this project: the provers cannot instantiate the library's,
which take an operator, but the least counterexample of a set of numbers serves as well.
`GovDaos_proofs` first proves types of the operators, then lemmas on one index each (`QueuesStep`,
`CountersStep`, `DepositsStep`, `ChecksKept`, ...), then one lemma per action, grouped by shape:
`AddDepositInv` (submission, deposit), `RewriteVotingInv` (extensions, annotations, late quorum),
`CloseInv` (drop, tally, veto), `PhaseInv` (the steps between the walks).

### Enactment

`Enactment_proofs` proves, for every set of accounts, validators, proposals and texts:

* `DaosInvariance`, from which `CoreDaosCannotStake` (`DaosHoldNoStake`): an account that is a DAO
  has neither delegated nor unbonding tokens;
* `CoreDaosPassNoStakeCheck` (`DaosPassNoStakeCheck`), for every positive minimum stake: the check
  counts the stake of the moment, and a DAO has none.  Votes that are not checked are not meant;
* `ConstitutionInvariance`, from which `ConstitutionAccountedFor` (`LinesAccountedFor`): the
  constitution is the first one, less the lines that the passed proposals delete and plus those they
  insert;
* `EnactmentTypeCorrect`: `EnactmentTypeOK`;
* `PatchesReplaceHunks`: `PatchReplacesHunks`, from the theorem on patches below;
* `DraftsAreClean`: `DraftsApplyCleanly`, from the theorem on drafts below and `ConstitutionInv`, by
  which the constitution is always a text of at least one line.

The invariant of the DAOs, `DaosInv`, adds to `DaosHoldNoStake` the same fact about the addresses in the cached context:
they are checked against the stake when the message runs, and are written steps later, between which
no staking transaction can happen.  Among the staking transactions the one to watch is the
cancellation of an unbonding, which delegates again: a DAO has nothing left to cancel.

`ConstitutionInv` adds to `LinesAccountedFor` the same balance for the text in the cached context:
compared with the stored text, it accounts for the messages that have run so far.  A proposal that
fails is dropped together with that text, a proposal that passes has run all its messages, and its
changes are added to those of the passed proposals once (`TotalOneMore`), because it was open.

What one patch does is the subject of `UnifiedDiff_proofs`, which has three main results.
`PatchAccountsForLines` says how many lines there are: for every text and every patch that applies, the occurrences of a line in
the result are those in the source, less its deletions and plus its insertions in the hunks.  It is an
induction over the hunks and, inside, over the lines of a hunk, on the text in progress, `Whole`: what
is collected so far followed by the rest of the source.  Copying the lines before a hunk leaves it as
it is, also when the hunk starts behind the current line and nothing is copied (`CopyKeepsWhole`);
context lines leave it as it is; an insertion or deletion changes one line.  So no order or overlap of
hunks is assumed.  The empty line is left out, because a text that loses all its lines gets one back.
The two loops are recursive functions in `UnifiedDiff`, shown to have a solution in
`IterationExists`; the induction is `InductionUpTo`, over a set of numbers.

`PatchDoesWhatItSays` says where they stand: a patch whose hunks follow each other (`InOrder`) applies
just if each hunk's context and deletions stand in the source from its line on (`Fits`), and the
result is `Patched`, the source with each of these stretches replaced by the hunk's context and
insertions.  `Fits` and `Patched` are defined without the walk, from `SubSeq` and `FlattenSeq`.  The
proof is again two inductions.  Inside a hunk (`LinesProgress`), the state has succeeded just if the
part of the hunk seen so far stands in the source, and has then collected what replaces it
(`Agrees`).  Over the hunks (`HunksProgress`), it has succeeded just if the hunks so far fit, stands
behind the last of them, and has collected their pieces.  The header's count, checked by
`validateHunk`, is what makes the end of a hunk by its lines agree with its end by its header; the
order of the hunks is what makes the walk arrive at each hunk's own line.  Out of order a hunk is
applied at the current line instead, and only `PatchAccountsForLines` holds.

`DraftGivesTarget` joins the client to the chain: for all texts with different lines and every number
of context lines there is a draft, every draft applies to its source, and the result is the lines of the
target followed by the source's last line break.  It shows that a draft is in order, fits its source and
says the target, and concludes by `PatchDoesWhatItSays`.  There are four steps.
(1) `EditScriptsEdit`: a script's kept and deleted lines are the source, its kept and inserted lines the
target, by induction over the table of positions in both texts; the table, a recursive function, has
a solution (`ScriptTableExists`) because each entry looks only at shorter positions.
(2) `SideConcat`: a side of consecutive stretches of a script is the sides of the stretches put
together, so the header of a hunk, which counts the script up to it, names the place where its lines
stand.
(3) `UnifiedCuts`: the runs of printed lines are disjoint, in ascending order and have every change;
the lines between them are kept, and read the same in both texts.
(4) `CutsMakeText`: by induction over the hunks, the pieces up to a hunk are the target up to the end of
its run.  That the script is a shortest one is not needed, only that it is one.  The proof uses that
the empty line is a string (`EmptyLineAssumption`), which the provers do not know of `""`.

### Photon

`Photon_proofs` proves, for every precision, maximum supply, set of accounts, genesis and sequence
of burns and rewards:

* `PhotonTypeCorrect`: `PhotonTypeOK`;
* `PhotonNeverExceedsMaximum`: `SupplyBounded`;
* `BondSupplyNeverZero`: `BondSupplyCoversBalances`;
* `MintIsTheQuotient`: `MintFollowsFormula`;
* `PhotonRefinement`: `PhotonSpec` implements `PhotonSupply`.

The heart is the arithmetic of `MintBounded`: burning `a` of a bond supply `b` while `m` photon are
left yields at most `m`, although the rate `m / b` is rounded to the nearest unit and the product
again to the nearest integer.  The rate exceeds the quotient by at most half a unit, so the product
exceeds `m * a / b` by at most `a / (2 * One)`, which is below a half because `a < One`
(`PrecisionAssumption`); then rounding cannot pass the integer `m`.  `MintKeepsBank` adds that the
balance of the account bounds `a`, and that balances and bonded coins are covered by the supply, so
some bond denom remains.

`MintIsTheQuotient` bounds the error from both sides.  `RateBounds` shows the rate at most half a
unit above the quotient `m / b`, and at most half a unit and `1 / (One * One)` below it, because
`Quo` truncates an intermediate result before it rounds.  Times an amount of at most `One - 2`, and
with the half of the last rounding, that stays below one photon.  Such an amount is every one that
can be burned: the bonded coins, at least one, are not.

### Fees

`TxFees_proofs` proves, for every set of transactions, limits, grants, window size and precision:

* `WindowNeverOutgrown`: `WindowMatchesParams`;
* `PricesRespectParams`: `PriceAndRateWithinParams`;
* `GasNeverExceedsLimit`: `BlockGasWithinLimit`;
* `FeesHaltOnlyOnLargeTarget`: if EndBlock stops the chain, the target block gas exceeds an int64;
* `FeesNeverHalt`: `NotHalted`, if the default block limits do not bring that about (`TargetsFit`);
* `DemandMovesThePrice`: `PriceFollowsDemand`.

It also proves what the same specification does to the supplies and what the fees are worth:

* `FeesLeaveBondSupply`: `BondSupplyCoversBalances`;
* `FeesRefineSupply`: `Spec` implements `PhotonSupply`;
* `FeesTypeCorrect`: `FeesTypeOK`;
* `RevenuePaysForGas`: `RevenueCoversGas`.

All but `FeesLeaveBondSupply` and `FeesRefineSupply` assume `SoundFeeParams`: every parameter set that
governance may install is valid and has a positive minimum price and learning rate.  `UpdateParams` checks none of it, and the run
`fee_window` shows a chain that halts without it.  `FeesNeverHalt` needs `TargetsFit` besides, which
`Params.ValidateBasic` does not check; without it EndBlock of a chain without a consensus limit panics.
A limit in the consensus parameters is an int64 itself and cannot.

The invariant `FeeInv` joins the four properties with the types of the state and one more fact,
`CurrentSlotCleared`: after EndBlock, and while the pricing is disabled, the current slot holds no
gas.  That is why lowering the limit in EndBlock of x/gov, which runs after that of x/dynamicfee,
cannot leave more gas counted than the new limit allows.  The rate stays below its maximum through
the multiplicative decrease because a product with a factor of at most 1.0 is not rounded up past
its other factor (`MulShrinks`, from `ChopUpper` of `Photon_proofs`).

`DemandMovesThePrice` follows a price through three roundings: the relative excess over the target
(`QuoBounds`), its product with the learning rate, and the product with the old price.  Signs survive
rounding (`ChopRoundSign`), so the price never moves the wrong way.  That it moves at all takes an
excess, an adjustment and a rise of two units each (`RiseShows`); with less, the rounding errors,
about half a unit each and magnified by the factors that follow, may swallow the rise.  A rise of
one unit is not enough.

The supplies need no such assumption: `SupplyInv`, the invariant of `Photon_proofs` with the type of
the fee collector, holds whatever the pricing does, since fees only move coins from accounts to the
collector and `MintKeepsBank` covers the messages, which see what the fee left.  `RevenuePaysForGas`
adds up two facts per transaction: the fee, checked for the gas limit and rounded up, pays for the
gas consumed, and the price does not change before EndBlock, after which the slot is empty.  A coin
of another denom passes only with amount zero, which a positive price refuses, so the fee is photon.

### Limits

**Only model-checked.**  Liveness: `EventuallySettled` and `PriceDecays`.  The prover has no rules for
fairness or `ENABLED`.  Every other property of the passing runs is a theorem.  Of the client's library it
is taken, not proved, that Myers' algorithm returns an edit script and that `ToUnified` prints it with
its context: both are external, and any shortest script is allowed.

## 5. Plan

What is left, in order:

1. Governance and enactment, and governance and fees, composed: proposals whose messages are those
   of `Enactment` and the parameter changes of `TxFees`, with the tally and the clock of `Gov`.
2. Changing stake, several validators and weighted votes in the tally; DAO addresses that change
   while `Gov`'s proposals are open.
3. Restarts of `Enactment` and a zero-height export of governance.

**Not modelled.**  The legacy message server (adapters to the modelled handlers); queries and the
command line, apart from the drafts of patches (no state of their own); application wiring,
upgrades and store migrations (construction and one-off rewrites of stores); simulation and test
utilities; the swagger files of the client (vendored).  Of the modelled components: transaction
priority and the mempool; the zero-height preparation of an export and `ValidateGenesis` of `x/gov`;
the decorators of the Cosmos SDK and IBC, other than the deduction of fees; Myers' diff algorithm.

## 6. Running

```
tlc -workers 2 -config lifecycle.cfg MCGov
tlc -workers 2 -config genesis.cfg MCGovGenesis
tlc -workers 2 -config enactment.cfg MCEnactment
tlc -workers 2 -config fee_prices.cfg MCTxFees
tlapm GovDaos_proofs.tla
tlapm GovDaosSteps_proofs.tla
tlapm GovGenesis_proofs.tla
tlapm UnifiedDiff_proofs.tla
tlapm Enactment_proofs.tla
tlapm Photon_proofs.tla
tlapm TxFees_proofs.tla
```
