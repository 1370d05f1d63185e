------------------------- MODULE GovGenesis_proofs -------------------------
(***************************************************************************)
(* Governance across restarts, with coins sent straight to the module       *)
(* account: the counters no longer count and EndBlocker may panic, so the   *)
(* invariant of GovDaos_proofs is gone.  What is left of it is proved here: *)
(* the module account covers the deposits, the rebuilt queues match the     *)
(* proposals, and the quorum checks are scheduled once and in time.         *)
(***************************************************************************)
EXTENDS GovGenesis, GovDaosSteps_proofs

-----------------------------------------------------------------------------
(* The module account *)

\* The queues hold keys of proposals, the quorum-check queue records of them.
KeyIds ==
    /\ \A e \in inactiveQueue \cup activeQueue \cup quorumQueue : e.id \in ProposalIds
    /\ \A e \in quorumQueue : "id" \in DOMAIN e

\* The inductive invariant: the balance covers the deposits whatever the counters say.
FundsInv ==
    /\ proposalID \in Nat \ {0}
    /\ KeyIds
    /\ deposits \in [ProposalIds -> [Accounts -> Nat]]
    /\ moduleBalance \in Int
    /\ ModuleAccountInvariant

\* It is enough to look at the keys a step adds.
LEMMA KeyIdsStep ==
    ASSUME KeyIds, NEW p \in ProposalIds,
           \A e \in inactiveQueue' \cup activeQueue' \cup quorumQueue' :
              e \in inactiveQueue \cup activeQueue \cup quorumQueue \/ e.id = p,
           \A e \in quorumQueue' : e \in quorumQueue \/ "id" \in DOMAIN e
    PROVE  KeyIds'
BY DEF KeyIds

LEMMA KeyIdsKept ==
    ASSUME KeyIds, inactiveQueue' \subseteq inactiveQueue, activeQueue' \subseteq activeQueue,
           quorumQueue' \subseteq quorumQueue
    PROVE  KeyIds'
BY DEF KeyIds

\* A step that moves no coins of the module.
LEMMA FundsKept ==
    ASSUME FundsInv, KeyIds', UNCHANGED <<proposalID, deposits, moduleBalance>>
    PROVE  FundsInv'
BY DEF FundsInv, ModuleAccountInvariant, TotalDeposits, DepositSum

\* A step that settles the deposits of p takes as much from the account as from the books.
LEMMA FundsSettled ==
    ASSUME FundsInv, KeyIds', UNCHANGED proposalID, NEW p \in ProposalIds, NEW burn,
           SettleDeposits(p, burn)
    PROVE  FundsInv'
<1>1. /\ deposits \in [ProposalIds -> [Accounts -> Nat]]
      /\ deposits' \in [ProposalIds -> [Accounts -> Nat]]
      /\ \A a \in Accounts : deposits'[p][a] = 0
      /\ \A q \in ProposalIds : q # p => deposits'[q] = deposits[q]
      /\ moduleBalance' = moduleBalance - DepositSum(p)
      /\ moduleBalance \in Int /\ moduleBalance >= TotalDeposits
  BY DEF FundsInv, SettleDeposits, ModuleAccountInvariant
<1>2. DepositSum(p)' = 0
  BY <1>1, SumZero DEF DepositSum
<1>3. DepositSum(p) \in Nat /\ TotalDeposits \in Nat
  BY <1>1, DepositSumsType
<1>4. TotalDeposits' = TotalDeposits - DepositSum(p) + DepositSum(p)'
  BY <1>1, DepositsStep
<1>5. moduleBalance' \in Int /\ moduleBalance' >= TotalDeposits'
  BY <1>1, <1>2, <1>3, <1>4
<1> QED
  BY <1>1, <1>5 DEF FundsInv, ModuleAccountInvariant

\* A late quorum moves the voting end to a later time.
LEMMA ExtendedEnd ==
    ASSUME now \in Nat, params \in ParamSets, NEW e, LateQuorumExtends(e),
           proposals[e.id].VotingEndTime \in Nat
    PROVE  /\ now + params.MaxVotingPeriodExtension \in Nat
           /\ now + params.MaxVotingPeriodExtension >= proposals[e.id].VotingEndTime
<1>1. params.MaxVotingPeriodExtension \in Int \cup {Nil}
  BY ParamsAssumption DEF ParamsType
<1> QED
  BY <1>1 DEF LateQuorumExtends

\* The keys of a proposal that is activated.
LEMMA ActivatedKeys ==
    ASSUME KeyIds, NEW p \in ProposalIds, NEW prop, NEW queue, NEW num,
           ActivateVotingPeriod(p, prop, queue, num),
           \A e \in queue : e \in inactiveQueue \/ e.id = p
    PROVE  KeyIds'
<1> DEFINE key == Key(p, now + params.VotingPeriod)
           time == now + params.QuorumTimeout
           entry == QuorumEntry(p, time, time, params.QuorumCheckCount, 0)
<1>1. key.id = p /\ entry.id = p /\ "id" \in DOMAIN entry
  BY DEF Key, QuorumEntry
<1>2. /\ inactiveQueue' \subseteq queue /\ activeQueue' = activeQueue \cup {key}
      /\ quorumQueue' \subseteq quorumQueue \cup {entry}
  BY DEF ActivateVotingPeriod
<1> HIDE DEF key, entry
<1> QED
  BY <1>1, <1>2, KeyIdsStep

\* A deposit adds as much to the account as to the books.
LEMMA FundsPaid ==
    ASSUME FundsInv, NEW p \in ProposalIds, NEW prop, NEW queue, NEW num, NEW a \in Accounts,
           NEW amount \in Amounts, NEW skip,
           AddDeposit(p, prop, queue, num, a, amount, skip),
           \A e \in queue : e \in inactiveQueue \/ e.id = p,
           proposalID' \in Nat \ {0}
    PROVE  FundsInv'
<1>1. /\ deposits \in [ProposalIds -> [Accounts -> Nat]] /\ amount \in Nat
      /\ Paid(p, a, amount) /\ moduleBalance' = moduleBalance + amount
      /\ moduleBalance \in Int /\ moduleBalance >= TotalDeposits
  BY InstanceAssumption DEF FundsInv, AddDeposit, Paid, ModuleAccountInvariant
<1>2. /\ deposits' \in [ProposalIds -> [Accounts -> Nat]]
      /\ TotalDeposits' = TotalDeposits + amount
  BY <1>1, DepositPaid
<1>3. TotalDeposits \in Nat
  BY <1>1, DepositSumsType
<1>4. moduleBalance' \in Int /\ moduleBalance' >= TotalDeposits'
  BY <1>1, <1>2, <1>3
<1>5. KeyIds'
  <2>1. CASE UNCHANGED <<activeQueue, quorumQueue>> /\ inactiveQueue' = queue
    BY <2>1, KeyIdsStep DEF FundsInv
  <2>2. CASE \E new : ActivateVotingPeriod(p, new, queue, num)
    BY <2>2, ActivatedKeys DEF FundsInv
  <2> QED
    BY <2>1, <2>2 DEF AddDeposit
<1> QED
  BY <1>2, <1>4, <1>5 DEF FundsInv, ModuleAccountInvariant

LEMMA TransactionFunds ==
    ASSUME FundsInv, Transaction
    PROVE  FundsInv'
<1>1. ASSUME NEW a \in Accounts, NEW content \in Contents, NEW amount \in Amounts,
             SubmitProposal(a, content, amount)
      PROVE  FundsInv'
  <2> DEFINE p == proposalID
             prop == [NoProposal EXCEPT !.Status = "DepositPeriod", !.Content = content,
                                        !.DepositEndTime = now + params.MaxDepositPeriod]
             queue == inactiveQueue \cup {Key(p, prop.DepositEndTime)}
             num == Increment(inactiveNumber)
  <2>1. p \in ProposalIds /\ proposalID' \in Nat \ {0}
    BY <1>1, InstanceAssumption DEF FundsInv, SubmitProposal, ProposalIds
  <2>2. AddDeposit(p, prop, queue, num, a, amount, TRUE)
    BY <1>1 DEF SubmitProposal
  <2>3. \A e \in queue : e \in inactiveQueue \/ e.id = p
    BY DEF Key
  <2> HIDE DEF p, prop, queue, num
  <2> QED
    BY <2>1, <2>2, <2>3, FundsPaid
<1>2. ASSUME NEW a \in Accounts, NEW p \in ProposalIds, NEW amount \in Amounts,
             Deposit(a, p, amount)
      PROVE  FundsInv'
  <2>1. /\ AddDeposit(p, proposals[p], inactiveQueue, inactiveNumber, a, amount, FALSE)
        /\ proposalID' \in Nat \ {0}
    BY <1>2 DEF Deposit, FundsInv
  <2> QED
    BY <2>1, FundsPaid
<1>3. ASSUME NEW v \in Voters, NEW p \in ProposalIds, NEW option \in VoteOptions,
             AddVote(v, p, option)
      PROVE  FundsInv'
  BY <1>3, KeyIdsKept, FundsKept DEF AddVote, proposalVars, queueVars, bankVars, FundsInv
<1> QED
  BY <1>1, <1>2, <1>3 DEF Transaction

LEMMA DaoFunds ==
    ASSUME FundsInv, DaoTransaction
    PROVE  FundsInv'
<1>1. PICK signer \in Signers, p \in ProposalIds :
         \/ \E overwrite \in BOOLEAN : AnnotateProposal(signer, p, overwrite)
         \/ EndorseProposal(signer, p)
         \/ ExtendVotingPeriod(signer, p)
         \/ \E burnDeposit \in BOOLEAN : VetoProposal(signer, p, burnDeposit)
  BY DEF DaoTransaction
<1>2. ASSUME NEW prop, RewriteProposal(p, prop),
             \A e \in activeQueue' : e \in activeQueue \/ e.id = p
      PROVE  FundsInv'
  <2>1. UNCHANGED <<proposalID, deposits, moduleBalance, inactiveQueue, quorumQueue>>
    BY <1>2 DEF RewriteProposal, bankVars
  <2>2. KeyIds'
    BY <1>2, <2>1, KeyIdsStep DEF FundsInv
  <2> QED
    BY <2>1, <2>2, FundsKept
<1>3. CASE \E overwrite \in BOOLEAN : AnnotateProposal(signer, p, overwrite)
  BY <1>2, <1>3 DEF AnnotateProposal
<1>4. CASE EndorseProposal(signer, p)
  BY <1>2, <1>4 DEF EndorseProposal
<1>5. CASE ExtendVotingPeriod(signer, p)
  BY <1>2, <1>5 DEF ExtendVotingPeriod, MoveActiveKey, Key
<1>6. CASE \E burnDeposit \in BOOLEAN : VetoProposal(signer, p, burnDeposit)
  <2>1. PICK burnDeposit \in BOOLEAN : VetoProposal(signer, p, burnDeposit)
    BY <1>6
  <2>2. KeyIds'
    BY <2>1, KeyIdsKept DEF VetoProposal, FundsInv
  <2> QED
    BY <2>1, <2>2, FundsSettled DEF VetoProposal
<1> QED
  BY <1>1, <1>3, <1>4, <1>5, <1>6

LEMMA EndBlockerFunds ==
    ASSUME FundsInv, EndBlocker
    PROVE  FundsInv'
<1>1. /\ \A e \in inactiveQueue : e.id \in ProposalIds
      /\ \A e \in activeQueue : e.id \in ProposalIds
      /\ \A e \in quorumQueue : e.id \in ProposalIds
  BY DEF FundsInv, KeyIds
<1>2. CASE BeginEndBlock \/ InactiveWalked \/ QuorumWalked \/ ActiveWalked
  BY <1>2, KeyIdsKept, FundsKept DEF BeginEndBlock, InactiveWalked, QuorumWalked, ActiveWalked,
                                     proposalVars, queueVars, bankVars, FundsInv
<1>3. ASSUME NEW e \in inactiveQueue, ActivateDue(e) PROVE FundsInv'
  <2>1. UNCHANGED <<proposalID, deposits, moduleBalance>>
    BY <1>3 DEF ActivateDue, bankVars
  <2>2. KeyIds'
    BY <1>1, <1>3, ActivatedKeys DEF ActivateDue, FundsInv
  <2> QED
    BY <2>1, <2>2, FundsKept
<1>4. ASSUME NEW e \in inactiveQueue, DropDue(e) PROVE FundsInv'
  <2>1. KeyIds'
    BY <1>4, KeyIdsKept DEF DropDue, FundsInv
  <2> QED
    BY <1>1, <1>4, <2>1, FundsSettled DEF DropDue
<1>5. ASSUME NEW e \in quorumQueue, CheckQuorumReached(e) PROVE FundsInv'
  <2>1. KeyIds'
    <3>1. \A f \in inactiveQueue' \cup activeQueue' \cup quorumQueue' :
             f \in inactiveQueue \cup activeQueue \cup quorumQueue \/ f.id = e.id
      BY <1>5 DEF CheckQuorumReached, MoveActiveKey, Key
    <3>2. quorumQueue' \subseteq quorumQueue
      BY <1>5 DEF CheckQuorumReached
    <3> QED
      BY <1>1, <3>1, <3>2, KeyIdsStep DEF FundsInv
  <2> QED
    BY <1>5, <2>1, FundsKept DEF CheckQuorumReached, bankVars
<1>6. ASSUME NEW e \in quorumQueue, CheckQuorumMissed(e) PROVE FundsInv'
  <2>1. KeyIds'
    <3> DEFINE entry == [e EXCEPT !.time = NextCheckTime(e), !.QuorumChecksDone = @ + 1]
    <3>1. UNCHANGED <<inactiveQueue, activeQueue>> /\ quorumQueue' \subseteq quorumQueue \cup {entry}
      BY <1>6 DEF CheckQuorumMissed
    <3>2. "id" \in DOMAIN entry /\ entry.id = e.id
      BY DEF FundsInv, KeyIds
    <3> HIDE DEF entry
    <3> QED
      BY <1>1, <3>1, <3>2, KeyIdsStep DEF FundsInv
  <2> QED
    BY <1>6, <2>1, FundsKept DEF CheckQuorumMissed, proposalVars, bankVars
<1>7. ASSUME NEW e \in quorumQueue, CheckQuorumError(e) PROVE FundsInv'
  BY <1>7, KeyIdsKept, FundsKept DEF CheckQuorumError, proposalVars, bankVars, FundsInv
<1>8. ASSUME NEW e \in activeQueue, TallyDue(e) \/ TallyDueError(e) PROVE FundsInv'
  <2>1. ASSUME NEW status, NEW burn, NEW part, CloseVoting(e.id, status, burn, part)
        PROVE  FundsInv'
    <3>1. KeyIds'
      BY <2>1, KeyIdsKept DEF CloseVoting, FundsInv
    <3> QED
      BY <1>1, <2>1, <3>1, FundsSettled DEF CloseVoting
  <2> QED
    BY <1>8, <2>1 DEF TallyDue, TallyDueError
<1> QED
  BY <1>2, <1>3, <1>4, <1>5, <1>6, <1>7, <1>8 DEF EndBlocker

LEMMA InitFunds ==
    ASSUME Init
    PROVE  FundsInv
<1>1. /\ deposits = [p \in ProposalIds |-> [a \in Accounts |-> 0]] /\ moduleBalance = 0
      /\ proposalID = 1 /\ KeyIds
  BY DEF Init, KeyIds
<1>2. \A p \in ProposalIds : DepositSum(p) = 0
  BY <1>1, SumZero DEF DepositSum
<1>3. TotalDeposits = 0
  BY <1>2, SumZero DEF TotalDeposits
<1> QED
  BY <1>1, <1>3 DEF FundsInv, ModuleAccountInvariant

LEMMA NextFunds ==
    ASSUME FundsInv, [GenesisNext]_vars
    PROVE  FundsInv'
<1>1. CASE \E gap \in BlockGaps : NextBlock(gap)
  BY <1>1, KeyIdsKept, FundsKept DEF NextBlock, proposalVars, queueVars, bankVars, FundsInv
<1>2. CASE UNCHANGED vars
  BY <1>2, KeyIdsKept, FundsKept DEF vars, proposalVars, queueVars, bankVars, FundsInv
<1>3. ASSUME NEW a \in Accounts, NEW amount \in Amounts, SendToModule(a, amount)
      PROVE  FundsInv'
  <2>1. /\ moduleBalance' = moduleBalance + amount /\ amount \in Nat
        /\ UNCHANGED <<proposalID, deposits>>
    BY <1>3, InstanceAssumption DEF SendToModule, proposalVars
  <2>2. KeyIds'
    BY <1>3, KeyIdsKept DEF SendToModule, queueVars, FundsInv
  <2>3. /\ deposits \in [ProposalIds -> [Accounts -> Nat]] /\ moduleBalance \in Int
        /\ moduleBalance >= TotalDeposits
    BY DEF FundsInv, ModuleAccountInvariant
  <2>4. TotalDeposits \in Nat /\ TotalDeposits' = TotalDeposits
    BY <2>1, <2>3, DepositSumsType DEF TotalDeposits, DepositSum
  <2>5. moduleBalance' \in Int /\ moduleBalance' >= TotalDeposits'
    BY <2>1, <2>3, <2>4
  <2> QED
    BY <2>1, <2>2, <2>3, <2>5 DEF FundsInv, ModuleAccountInvariant
<1>4. ASSUME NEW gap \in BlockGaps, ExportImport(gap) PROVE FundsInv'
  <2>1. UNCHANGED <<proposalID, deposits, moduleBalance>>
    BY <1>4 DEF ExportImport, bankVars
  <2>2. /\ \A e \in inactiveQueue' \cup activeQueue' : e.id \in ProposalIds
        /\ \A e \in quorumQueue' : "id" \in DOMAIN e /\ e.id \in ProposalIds
    <3>1. \A e \in inactiveQueue' \cup activeQueue' : e.id \in ProposalIds
      BY <1>4 DEF ExportImport, Ids, Key
    <3>2. quorumQueue' = UNION {GenesisQuorumEntries(p, now + gap) : p \in Ids({"VotingPeriod"})}
      BY <1>4 DEF ExportImport
    <3>3. ASSUME NEW p \in ProposalIds, NEW t, NEW e \in GenesisQuorumEntries(p, t)
          PROVE  "id" \in DOMAIN e /\ e.id \in ProposalIds
      BY <3>3 DEF GenesisQuorumEntries, QuorumEntry
    <3> QED
      BY <3>1, <3>2, <3>3 DEF Ids
  <2>3. KeyIds'
    BY <2>2 DEF KeyIds
  <2> QED
    BY <2>1, <2>3, FundsKept
<1> QED
  BY <1>1, <1>2, <1>3, <1>4, TransactionFunds, DaoFunds, EndBlockerFunds DEF GenesisNext, Next

\* In every reachable state, also after restarts and with coins sent by others, the
\* module account can pay back all deposits.
THEOREM AccountCoversDeposits == GenesisSpec => []ModuleAccountInvariant
<1>1. FundsInv => ModuleAccountInvariant
  BY DEF FundsInv
<1> QED
  BY <1>1, InitFunds, NextFunds, PTL DEF GenesisSpec

-----------------------------------------------------------------------------
(* The queues *)

\* The inductive invariant.  Without the counters and the conservation of coins, what
\* keeps the queues right is that only a proposal in its voting period has votes: a
\* check that outlived it cannot find a quorum and move its end.
GenesisInv ==
    /\ now \in Nat /\ params \in ParamSets
    /\ proposals \in [ProposalIds -> Proposal]
    /\ votes \in [ProposalIds -> [Voters -> Options \cup {NoVote}]]
    /\ ema \in [Kinds -> Nat]
    /\ FundsInv
    /\ QueuesMatchProposals /\ FreeIds /\ VotesInVoting

\* What a step that writes proposal p has to show.
LEMMA GenesisWrite ==
    ASSUME GenesisInv, FundsInv', NEW p \in ProposalIds, NEW prop \in Proposal,
           SetProposal(p, prop),
           inactiveQueue' = Others(inactiveQueue, p) \cup
              (IF prop.Status = "DepositPeriod" THEN {Key(p, prop.DepositEndTime)} ELSE {}),
           activeQueue' = Others(activeQueue, p) \cup
              (IF prop.Status = "VotingPeriod" THEN {Key(p, prop.VotingEndTime)} ELSE {}),
           \/ votes' = votes /\ (proposals[p].Status = "VotingPeriod" => prop.Status = "VotingPeriod")
           \/ DeleteVotes(p),
           prop.Status # "None" => p < proposalID', proposalID' >= proposalID,
           now' \in Nat, params' \in ParamSets, ema' \in [Kinds -> Nat]
    PROVE  GenesisInv'
<1>1. /\ proposals \in [ProposalIds -> Proposal]
      /\ votes \in [ProposalIds -> [Voters -> Options \cup {NoVote}]]
      /\ QueuesMatchProposals /\ FreeIds /\ VotesInVoting
      /\ proposalID \in Nat /\ proposalID' \in Nat
  BY DEF GenesisInv, FundsInv
<1>2. /\ \A q \in ProposalIds : proposals'[q] = IF q = p THEN prop ELSE proposals[q]
      /\ proposals' \in [ProposalIds -> Proposal]
  BY <1>1 DEF SetProposal
<1>3. /\ votes' \in [ProposalIds -> [Voters -> Options \cup {NoVote}]]
      /\ VotesInVoting'
  <2>1. CASE /\ votes' = votes
             /\ proposals[p].Status = "VotingPeriod" => prop.Status = "VotingPeriod"
    BY <1>1, <1>2, <2>1 DEF VotesInVoting
  <2>2. CASE DeleteVotes(p)
    <3>1. /\ votes' \in [ProposalIds -> [Voters -> Options \cup {NoVote}]]
          /\ \A q \in ProposalIds :
                votes'[q] = IF q = p THEN [v \in Voters |-> NoVote] ELSE votes[q]
      BY <1>1, <2>2 DEF DeleteVotes
    <3> QED
      BY <1>1, <1>2, <3>1 DEF VotesInVoting
  <2> QED
    BY <2>1, <2>2
<1>4. QueuesMatchProposals'
  BY <1>1, QueuesStep
<1>5. FreeIds'
  <2> SUFFICES ASSUME NEW q \in ProposalIds, q >= proposalID'
               PROVE  proposals'[q].Status = "None"
    BY DEF FreeIds
  <2>1. q \in Int /\ p \in Int
    BY DEF ProposalIds
  <2>2. q >= proposalID
    BY <1>1, <2>1
  <2>3. q = p => ~(p < proposalID')
    BY <1>1, <2>1
  <2> QED
    BY <1>1, <1>2, <2>2, <2>3 DEF FreeIds
<1> QED
  BY <1>2, <1>3, <1>4, <1>5 DEF GenesisInv

\* A step that writes neither proposals nor votes and keeps the two queues.
LEMMA GenesisKept ==
    ASSUME GenesisInv, FundsInv', now' \in Nat,
           UNCHANGED <<params, proposals, votingPeriodKeys, proposalID, inactiveQueue,
                       activeQueue, votes, ema>>
    PROVE  GenesisInv'
BY DEF GenesisInv, QueuesMatchProposals, FreeIds, VotesInVoting, Ids

\* A live proposal has been submitted.
LEMMA SubmittedId ==
    ASSUME GenesisInv, NEW p \in ProposalIds, proposals[p].Status # "None"
    PROVE  p < proposalID
<1>1. p \in Int /\ proposalID \in Int /\ ~(p >= proposalID)
  BY DEF GenesisInv, FundsInv, FreeIds, ProposalIds
<1> QED
  BY <1>1

\* ActivateVotingPeriod of a proposal in its deposit period, or new.
LEMMA ActivateQueues ==
    ASSUME GenesisInv, FundsInv', NEW p \in ProposalIds, NEW prop \in Proposal,
           NEW queue, NEW num, ActivateVotingPeriod(p, prop, queue, num),
           proposals[p].Status \in {"None", "DepositPeriod"},
           queue = Others(inactiveQueue, p) \cup {Key(p, prop.DepositEndTime)},
           UNCHANGED <<now, params, votes, ema>>,
           p < proposalID', proposalID' >= proposalID
    PROVE  GenesisInv'
<1> DEFINE end == now + params.VotingPeriod
           new == [prop EXCEPT !.Status = "VotingPeriod", !.VotingStartTime = now,
                               !.VotingEndTime = end]
<1>1. now \in Nat /\ end \in Nat /\ QueuesMatchProposals
      /\ params \in ParamSets /\ ema \in [Kinds -> Nat]
  BY ParamsAssumption DEF GenesisInv, ParamsType
<1>2. new \in Proposal
  BY <1>1 DEF Proposal, Statuses
<1>3. new.Status = "VotingPeriod" /\ new.VotingEndTime = end
  BY DEF Proposal
<1>4. SetProposal(p, new)
  BY DEF ActivateVotingPeriod
<1> HIDE DEF end, new
<1>5. /\ inactiveQueue' = Others(inactiveQueue, p)
      /\ activeQueue' = Others(activeQueue, p) \cup {Key(p, end)}
  <2>1. /\ inactiveQueue' = queue \ {Key(p, prop.DepositEndTime)}
        /\ activeQueue' = activeQueue \cup {Key(p, end)}
    BY DEF ActivateVotingPeriod, end
  <2>2. Key(p, prop.DepositEndTime) \notin Others(inactiveQueue, p)
    BY <1>1, QueuesSplit
  <2>3. activeQueue = Others(activeQueue, p)
    BY <1>1, QueuesSplit
  <2> QED
    BY <2>1, <2>2, <2>3
<1>6. votes' = votes /\ (proposals[p].Status = "VotingPeriod" => new.Status = "VotingPeriod")
  BY <1>3
<1>7. /\ inactiveQueue' = Others(inactiveQueue, p) \cup
            (IF new.Status = "DepositPeriod" THEN {Key(p, new.DepositEndTime)} ELSE {})
      /\ activeQueue' = Others(activeQueue, p) \cup
            (IF new.Status = "VotingPeriod" THEN {Key(p, new.VotingEndTime)} ELSE {})
  BY <1>3, <1>5
<1> QED
  BY <1>1, <1>2, <1>4, <1>6, <1>7, GenesisWrite

\* A deposit on a proposal in the store, or on one that enters it.
LEMMA AddDepositQueues ==
    ASSUME GenesisInv, FundsInv', NEW p \in ProposalIds, NEW prop \in Proposal,
           NEW queue, NEW num, NEW a, NEW amount \in Amounts, NEW skip,
           AddDeposit(p, prop, queue, num, a, amount, skip),
           \/ proposals[p] = prop
           \/ proposals[p].Status = "None" /\ prop.Status = "DepositPeriod",
           queue = Others(inactiveQueue, p) \cup
              (IF prop.Status = "DepositPeriod" THEN {Key(p, prop.DepositEndTime)} ELSE {}),
           UNCHANGED <<now, params, votes, ema>>,
           p < proposalID', proposalID' >= proposalID
    PROVE  GenesisInv'
<1> DEFINE total == prop.TotalDeposit + amount
           funded == [prop EXCEPT !.TotalDeposit = total]
<1>1. total \in Nat
  BY InstanceAssumption DEF Proposal
<1>2. [prop EXCEPT !.TotalDeposit = @ + amount] = funded
  BY DEF Proposal
<1> HIDE DEF total
<1>3. /\ funded \in Proposal /\ funded.Status = prop.Status
      /\ funded.DepositEndTime = prop.DepositEndTime
      /\ funded.VotingEndTime = prop.VotingEndTime
  BY <1>1 DEF Proposal
<1>4. \/ /\ prop.Status = "DepositPeriod"
         /\ ActivateVotingPeriod(p, funded, queue, num)
      \/ SetProposal(p, funded) /\ UNCHANGED activeQueue /\ inactiveQueue' = queue
  BY <1>2 DEF AddDeposit
<1> HIDE DEF funded
<1>5. CASE prop.Status = "DepositPeriod" /\ ActivateVotingPeriod(p, funded, queue, num)
  BY <1>3, <1>5, ActivateQueues
<1>6. CASE SetProposal(p, funded) /\ UNCHANGED activeQueue /\ inactiveQueue' = queue
  <2>1. inactiveQueue' = Others(inactiveQueue, p) \cup
           (IF funded.Status = "DepositPeriod" THEN {Key(p, funded.DepositEndTime)} ELSE {})
    BY <1>3, <1>6
  <2>2. activeQueue' = Others(activeQueue, p) \cup
           (IF funded.Status = "VotingPeriod" THEN {Key(p, funded.VotingEndTime)} ELSE {})
    <3>1. activeQueue = Others(activeQueue, p) \cup
            (IF proposals[p].Status = "VotingPeriod"
               THEN {Key(p, proposals[p].VotingEndTime)} ELSE {})
      BY QueuesSplit DEF GenesisInv
    <3> QED
      BY <3>1, <1>3, <1>6
  <2>3. /\ votes' = votes
        /\ proposals[p].Status = "VotingPeriod" => funded.Status = "VotingPeriod"
    BY <1>3
  <2>4. now' \in Nat /\ params' \in ParamSets /\ ema' \in [Kinds -> Nat]
    BY DEF GenesisInv
  <2> QED
    BY <1>3, <1>6, <2>1, <2>2, <2>3, <2>4, GenesisWrite
<1> QED
  BY <1>4, <1>5, <1>6

LEMMA TransactionQueues ==
    ASSUME GenesisInv, Transaction
    PROVE  GenesisInv'
<1>0. FundsInv'
  BY TransactionFunds DEF GenesisInv
<1>1. /\ now \in Nat /\ params \in ParamSets /\ proposalID \in Nat \ {0}
      /\ proposals \in [ProposalIds -> Proposal] /\ FreeIds /\ QueuesMatchProposals
  BY DEF GenesisInv, FundsInv
<1>2. ASSUME NEW a \in Accounts, NEW content \in Contents, NEW amount \in Amounts,
             SubmitProposal(a, content, amount)
      PROVE  GenesisInv'
  <2> DEFINE p == proposalID
             end == now + params.MaxDepositPeriod
             prop == [NoProposal EXCEPT !.Status = "DepositPeriod", !.Content = content,
                                        !.DepositEndTime = end]
             queue == inactiveQueue \cup {Key(p, prop.DepositEndTime)}
             num == Increment(inactiveNumber)
  <2>1. /\ p \in ProposalIds /\ proposals[p].Status = "None"
        /\ p < proposalID' /\ proposalID' >= proposalID
        /\ UNCHANGED <<now, params, votes, ema>>
    BY <1>1, <1>2, InstanceAssumption DEF FreeIds, SubmitProposal, ProposalIds
  <2>2. end \in Nat
    BY <1>1, ParamsAssumption DEF ParamsType
  <2>3. AddDeposit(p, prop, queue, num, a, amount, TRUE)
    BY <1>2 DEF SubmitProposal
  <2> HIDE DEF end
  <2>4. prop \in Proposal /\ prop.Status = "DepositPeriod"
    BY <2>2 DEF NoProposal, Proposal, Statuses
  <2>5. inactiveQueue = Others(inactiveQueue, p)
    BY <1>1, <2>1, QueuesSplit
  <2>6. queue = Others(inactiveQueue, p) \cup
           (IF prop.Status = "DepositPeriod" THEN {Key(p, prop.DepositEndTime)} ELSE {})
    BY <2>4, <2>5
  <2> HIDE DEF prop, p, queue, num
  <2> QED
    BY <1>0, <2>1, <2>3, <2>4, <2>6, AddDepositQueues
<1>3. ASSUME NEW a \in Accounts, NEW p \in ProposalIds, NEW amount \in Amounts,
             Deposit(a, p, amount)
      PROVE  GenesisInv'
  <2> DEFINE prop == proposals[p]
  <2>1. /\ AddDeposit(p, prop, inactiveQueue, inactiveNumber, a, amount, FALSE)
        /\ UNCHANGED <<now, params, votes, ema, proposalID>>
    BY <1>3 DEF Deposit
  <2>2. prop \in Proposal /\ prop.Status # "None"
    BY <1>1, <2>1 DEF AddDeposit, Depositable, Live
  <2>3. inactiveQueue = Others(inactiveQueue, p) \cup
           (IF prop.Status = "DepositPeriod" THEN {Key(p, prop.DepositEndTime)} ELSE {})
    BY <1>1, QueuesSplit
  <2>4. p < proposalID' /\ proposalID' >= proposalID
    BY <1>1, <2>1, <2>2, SubmittedId
  <2>5. proposals[p] = prop
    OBVIOUS
  <2> HIDE DEF prop
  <2> QED
    BY <1>0, <2>1, <2>2, <2>3, <2>4, <2>5, AddDepositQueues
<1>4. ASSUME NEW v \in Voters, NEW p \in ProposalIds, NEW option \in VoteOptions,
             AddVote(v, p, option)
      PROVE  GenesisInv'
  <2>1. /\ proposals[p].Status = "VotingPeriod"
        /\ UNCHANGED <<now, params, proposals, votingPeriodKeys, proposalID, inactiveQueue,
                       activeQueue, ema>>
        /\ votes' = [votes EXCEPT ![p][v] = option] /\ option \in Options
    BY <1>1, <1>4, InstanceAssumption
       DEF AddVote, QueuesMatchProposals, Ids, proposalVars, queueVars
  <2>2. /\ votes' \in [ProposalIds -> [Voters -> Options \cup {NoVote}]]
        /\ \A q \in ProposalIds : q # p => votes'[q] = votes[q]
    BY <2>1 DEF GenesisInv
  <2> QED
    BY <1>0, <2>1, <2>2 DEF GenesisInv, QueuesMatchProposals, FreeIds, VotesInVoting, Ids
<1> QED
  BY <1>2, <1>3, <1>4 DEF Transaction

\* A step that rewrites a proposal in its voting period and moves its key with its end.
LEMMA RewriteQueues ==
    ASSUME GenesisInv, FundsInv', NEW p \in ProposalIds, NEW prop \in Proposal,
           proposals[p].Status = "VotingPeriod", prop.Status = "VotingPeriod",
           SetProposal(p, prop), UNCHANGED <<now, params, proposalID, inactiveQueue, votes, ema>>,
           activeQueue' = (activeQueue \ {Key(p, proposals[p].VotingEndTime)})
                             \cup {Key(p, prop.VotingEndTime)}
    PROVE  GenesisInv'
<1>1. /\ inactiveQueue = Others(inactiveQueue, p)
      /\ activeQueue \ {Key(p, proposals[p].VotingEndTime)} = Others(activeQueue, p)
  BY VotingSplit DEF GenesisInv
<1>2. p < proposalID' /\ proposalID' >= proposalID
  BY SubmittedId DEF GenesisInv, FundsInv
<1>3. now' \in Nat /\ params' \in ParamSets /\ ema' \in [Kinds -> Nat]
  BY DEF GenesisInv
<1>4. /\ inactiveQueue' = Others(inactiveQueue, p) \cup
            (IF prop.Status = "DepositPeriod" THEN {Key(p, prop.DepositEndTime)} ELSE {})
      /\ activeQueue' = Others(activeQueue, p) \cup
            (IF prop.Status = "VotingPeriod" THEN {Key(p, prop.VotingEndTime)} ELSE {})
  BY <1>1
<1> QED
  BY <1>2, <1>3, <1>4, GenesisWrite

\* A step that ends the voting period of a proposal and deletes its votes.
LEMMA CloseQueues ==
    ASSUME GenesisInv, FundsInv', NEW p \in ProposalIds, NEW status \in Final,
           proposals[p].Status = "VotingPeriod",
           SetProposal(p, [proposals[p] EXCEPT !.Status = status]), DeleteVotes(p),
           UNCHANGED <<now, proposalID, inactiveQueue>>,
           activeQueue' = activeQueue \ {Key(p, proposals[p].VotingEndTime)},
           params' \in ParamSets, ema' \in [Kinds -> Nat]
    PROVE  GenesisInv'
<1> DEFINE prop == [proposals[p] EXCEPT !.Status = status]
<1>1. /\ inactiveQueue = Others(inactiveQueue, p)
      /\ activeQueue \ {Key(p, proposals[p].VotingEndTime)} = Others(activeQueue, p)
  BY VotingSplit DEF GenesisInv
<1>2. p < proposalID' /\ proposalID' >= proposalID
  BY SubmittedId DEF GenesisInv, FundsInv
<1>3. now' \in Nat
  BY DEF GenesisInv
<1>4. prop \in Proposal /\ prop.Status = status
  BY DEF GenesisInv, Proposal, Statuses, Final
<1>5. SetProposal(p, prop)
  OBVIOUS
<1> HIDE DEF prop
<1>6. /\ inactiveQueue' = Others(inactiveQueue, p) \cup
            (IF prop.Status = "DepositPeriod" THEN {Key(p, prop.DepositEndTime)} ELSE {})
      /\ activeQueue' = Others(activeQueue, p) \cup
            (IF prop.Status = "VotingPeriod" THEN {Key(p, prop.VotingEndTime)} ELSE {})
  BY <1>1, <1>4 DEF Final
<1> QED
  BY <1>2, <1>3, <1>4, <1>5, <1>6, GenesisWrite

LEMMA DaoQueues ==
    ASSUME GenesisInv, DaoTransaction
    PROVE  GenesisInv'
<1>0. FundsInv'
  BY DaoFunds DEF GenesisInv
<1>1. PICK signer \in Signers, p \in ProposalIds :
         \/ \E overwrite \in BOOLEAN : AnnotateProposal(signer, p, overwrite)
         \/ EndorseProposal(signer, p)
         \/ ExtendVotingPeriod(signer, p)
         \/ \E burnDeposit \in BOOLEAN : VetoProposal(signer, p, burnDeposit)
  BY DEF DaoTransaction
<1>2. proposals[p] \in Proposal /\ proposals[p].Status = "VotingPeriod"
  BY <1>1 DEF AnnotateProposal, EndorseProposal, ExtendVotingPeriod, VetoProposal,
     InVotingPeriod, GenesisInv
<1>3. ASSUME NEW prop \in {[proposals[p] EXCEPT !.Annotation = TRUE],
                           [proposals[p] EXCEPT !.Endorsed = TRUE]},
             RewriteProposal(p, prop), UNCHANGED activeQueue
      PROVE  GenesisInv'
  <2>1. /\ prop \in Proposal /\ prop.Status = "VotingPeriod"
        /\ prop.VotingEndTime = proposals[p].VotingEndTime
    BY <1>2, <1>3 DEF Proposal
  <2>2. activeQueue' = (activeQueue \ {Key(p, proposals[p].VotingEndTime)})
                          \cup {Key(p, prop.VotingEndTime)}
    BY <1>2, <1>3, <2>1, VotingSplit DEF GenesisInv
  <2> QED
    BY <1>0, <1>2, <1>3, <2>1, <2>2, RewriteQueues DEF RewriteProposal
<1>4. CASE \E overwrite \in BOOLEAN : AnnotateProposal(signer, p, overwrite)
  BY <1>3, <1>4 DEF AnnotateProposal
<1>5. CASE EndorseProposal(signer, p)
  BY <1>3, <1>5 DEF EndorseProposal
<1>6. CASE ExtendVotingPeriod(signer, p)
  <2> DEFINE end == proposals[p].VotingEndTime + ExtensionDuration
             times == proposals[p].TimesVotingPeriodExtended + 1
             prop == [proposals[p] EXCEPT !.VotingEndTime = end,
                                          !.TimesVotingPeriodExtended = times]
  <2>1. RewriteProposal(p, prop) /\ MoveActiveKey(p, proposals[p].VotingEndTime, end)
    BY <1>6 DEF ExtendVotingPeriod, NewEndTime
  <2>2. end \in Nat /\ times \in Nat
    BY <1>2, DaoAssumption DEF Proposal
  <2> HIDE DEF end, times
  <2>3. prop \in Proposal /\ prop.Status = "VotingPeriod" /\ prop.VotingEndTime = end
    BY <1>2, <2>2 DEF Proposal
  <2> HIDE DEF prop
  <2> QED
    BY <1>0, <1>2, <2>1, <2>3, RewriteQueues DEF RewriteProposal, MoveActiveKey
<1>7. CASE \E burnDeposit \in BOOLEAN : VetoProposal(signer, p, burnDeposit)
  <2>1. /\ SetProposal(p, [proposals[p] EXCEPT !.Status = "Vetoed"]) /\ DeleteVotes(p)
        /\ UNCHANGED <<now, proposalID, inactiveQueue, params, ema>>
        /\ activeQueue' = activeQueue \ {Key(p, proposals[p].VotingEndTime)}
    BY <1>7 DEF VetoProposal
  <2>2. params' \in ParamSets /\ ema' \in [Kinds -> Nat]
    BY <2>1 DEF GenesisInv
  <2> QED
    BY <1>0, <1>2, <2>1, <2>2, CloseQueues DEF Final
<1> QED
  BY <1>1, <1>4, <1>5, <1>6, <1>7

LEMMA EndBlockerQueues ==
    ASSUME PositiveQuorum, NoStakingErrors, GenesisInv, EndBlocker
    PROVE  GenesisInv'
<1>0. FundsInv'
  BY EndBlockerFunds DEF GenesisInv
<1>1. /\ now \in Nat /\ params \in ParamSets /\ ema \in [Kinds -> Nat]
      /\ proposals \in [ProposalIds -> Proposal] /\ QueuesMatchProposals
      /\ votes \in [ProposalIds -> [Voters -> Options \cup {NoVote}]] /\ VotesInVoting
      /\ proposalID \in Nat
  BY DEF GenesisInv, FundsInv
<1>2. CASE BeginEndBlock \/ InactiveWalked \/ QuorumWalked \/ ActiveWalked
  <2>1. UNCHANGED <<now, params, proposals, votingPeriodKeys, proposalID, inactiveQueue,
                    activeQueue, votes, ema>>
    BY <1>2 DEF BeginEndBlock, InactiveWalked, QuorumWalked, ActiveWalked, proposalVars, queueVars
  <2> QED
    BY <1>0, <1>1, <2>1, GenesisKept
<1>3. \A e \in inactiveQueue : /\ e.id \in ProposalIds
                               /\ proposals[e.id].Status = "DepositPeriod"
                               /\ e = Key(e.id, proposals[e.id].DepositEndTime)
  BY <1>1 DEF QueuesMatchProposals, Ids, Key
<1>4. ASSUME NEW e \in inactiveQueue, ActivateDue(e) PROVE GenesisInv'
  <2> DEFINE p == e.id
             prop == proposals[p]
  <2>1. /\ p \in ProposalIds /\ prop \in Proposal /\ prop.Status = "DepositPeriod"
        /\ ActivateVotingPeriod(p, prop, inactiveQueue, inactiveNumber)
        /\ UNCHANGED <<now, params, votes, ema, proposalID>>
    BY <1>1, <1>3, <1>4 DEF ActivateDue
  <2>2. inactiveQueue = Others(inactiveQueue, p) \cup {Key(p, prop.DepositEndTime)}
    BY <1>1, <2>1, QueuesSplit
  <2>3. p < proposalID' /\ proposalID' >= proposalID
    BY <1>1, <2>1, SubmittedId
  <2>4. proposals[p].Status \in {"None", "DepositPeriod"}
    BY <2>1
  <2> HIDE DEF p, prop
  <2> QED
    BY <1>0, <2>1, <2>2, <2>3, <2>4, ActivateQueues
<1>5. ASSUME NEW e \in inactiveQueue, DropDue(e) PROVE GenesisInv'
  <2> DEFINE p == e.id
  <2>1. /\ p \in ProposalIds /\ proposals[p].Status = "DepositPeriod"
        /\ SetProposal(p, NoProposal)
        /\ inactiveQueue' = inactiveQueue \ {Key(p, proposals[p].DepositEndTime)}
        /\ activeQueue' = activeQueue \ {Key(p, proposals[p].VotingEndTime)}
        /\ UNCHANGED <<now, params, votes, ema, proposalID>>
    BY <1>3, <1>5 DEF DropDue
  <2>2. NoProposal \in Proposal /\ NoProposal.Status = "None"
    BY DEF NoProposal, Proposal, Statuses
  <2> HIDE DEF p
  <2>3. /\ inactiveQueue = Others(inactiveQueue, p) \cup {Key(p, proposals[p].DepositEndTime)}
        /\ activeQueue = Others(activeQueue, p)
        /\ Key(p, proposals[p].DepositEndTime) \notin Others(inactiveQueue, p)
        /\ Key(p, proposals[p].VotingEndTime) \notin Others(activeQueue, p)
    BY <1>1, <2>1, QueuesSplit, "DepositPeriod" # "VotingPeriod"
  <2>4. /\ inactiveQueue' = Others(inactiveQueue, p) \cup
              (IF NoProposal.Status = "DepositPeriod"
                 THEN {Key(p, NoProposal.DepositEndTime)} ELSE {})
        /\ activeQueue' = Others(activeQueue, p) \cup
              (IF NoProposal.Status = "VotingPeriod"
                 THEN {Key(p, NoProposal.VotingEndTime)} ELSE {})
    BY <2>1, <2>2, <2>3
  <2>5. proposalID' >= proposalID
    BY <1>1, <2>1
  <2> QED
    BY <1>0, <1>1, <2>1, <2>2, <2>4, <2>5, GenesisWrite
<1>6. ASSUME NEW e \in quorumQueue, CheckQuorumReached(e) PROVE GenesisInv'
  <2> DEFINE p == e.id
             end == now + params.MaxVotingPeriodExtension
             prop == [proposals[p] EXCEPT !.VotingEndTime = end]
  <2>1. /\ p \in ProposalIds /\ proposals[p] \in Proposal
        /\ votes[p] \in [Voters -> Options \cup {NoVote}]
    BY <1>1 DEF GenesisInv, FundsInv, KeyIds
  <2>2. proposals[p].Status = "VotingPeriod"
    <3>1. QuorumReached(p)
      BY <1>6 DEF CheckQuorumReached
    <3> QED
      BY <1>1, <2>1, <3>1, NoVotesNoQuorum DEF VotesInVoting
  <2>3. UNCHANGED <<now, params, proposalID, inactiveQueue, votes, ema>>
    BY <1>6 DEF CheckQuorumReached
  <2>4. CASE UNCHANGED <<proposals, votingPeriodKeys, activeQueue>>
    BY <1>0, <1>1, <2>3, <2>4, GenesisKept
  <2>5. CASE /\ LateQuorumExtends(e) /\ SetProposal(p, prop)
             /\ MoveActiveKey(p, proposals[p].VotingEndTime, end)
    <3>1. end \in Nat
      BY <1>1, <2>1, <2>5, ExtendedEnd DEF Proposal
    <3> HIDE DEF end, p
    <3>2. prop \in Proposal /\ prop.Status = "VotingPeriod" /\ prop.VotingEndTime = end
      BY <2>1, <2>2, <3>1 DEF Proposal
    <3> HIDE DEF prop
    <3> QED
      BY <1>0, <2>1, <2>2, <2>3, <2>5, <3>2, RewriteQueues DEF MoveActiveKey
  <2> QED
    BY <1>6, <2>4, <2>5 DEF CheckQuorumReached
<1>7. ASSUME NEW e \in quorumQueue, CheckQuorumMissed(e) \/ CheckQuorumError(e)
      PROVE  GenesisInv'
  <2>1. UNCHANGED <<now, params, proposals, votingPeriodKeys, proposalID, inactiveQueue,
                    activeQueue, votes, ema>>
    BY <1>7 DEF CheckQuorumMissed, CheckQuorumError, proposalVars
  <2> QED
    BY <1>0, <1>1, <2>1, GenesisKept
<1>8. ASSUME NEW e \in activeQueue, TallyDue(e) PROVE GenesisInv'
  <2> DEFINE p == e.id
             content == proposals[p].Content
             part == Participation(votes[p], Power, TotalBonded)
  <2>1. /\ p \in ProposalIds /\ proposals[p].Status = "VotingPeriod"
        /\ proposals[p] \in Proposal /\ votes[p] \in [Voters -> Options \cup {NoVote}]
    BY <1>1 DEF QueuesMatchProposals, Ids, Key
  <2>2. part \in Nat
    BY <2>1, ParticipationType
  <2>3. ASSUME NEW status \in Final, NEW burn, CloseVoting(p, status, burn, part),
               params' \in ParamSets
        PROVE  GenesisInv'
    <3>1. /\ SetProposal(p, [proposals[p] EXCEPT !.Status = status])
          /\ activeQueue' = activeQueue \ {Key(p, proposals[p].VotingEndTime)}
          /\ ema' = UpdateParticipationEMA(ema, content.kinds, part)
          /\ UNCHANGED <<now, proposalID, inactiveQueue>>
      BY <2>3 DEF CloseVoting
    <3>2. ema' \in [Kinds -> Nat]
      BY <1>1, <2>2, <3>1, UpdateParticipationEMAType
    <3>3. DeleteVotes(p)
      BY <1>8 DEF TallyDue
    <3> QED
      BY <1>0, <2>1, <2>3, <3>1, <3>2, <3>3, CloseQueues
  <2>4. params' \in ParamSets
    <3>1. ExecuteMessages(content) => params' \in ParamSets
      BY <1>1, <2>1, InstanceAssumption DEF ExecuteMessages, Proposal, Content, NoContent
    <3> QED
      BY <1>1, <1>8, <3>1 DEF TallyDue
  <2>5. PICK status \in Final, burn \in {FALSE, BurnsDeposits(votes[p], Power, TotalBonded,
                 ProposalQuorum(p), GetThreshold(params, content.kinds, proposals[p].Endorsed),
                 params)} :
           CloseVoting(p, status, burn, part)
    BY <1>8 DEF TallyDue, Final
  <2> QED
    BY <2>3, <2>4, <2>5
<1>9. \A e \in activeQueue : ~TallyDueError(e)
  BY DEF TallyDueError, NoStakingErrors
<1> QED
  BY <1>2, <1>4, <1>5, <1>6, <1>7, <1>8, <1>9 DEF EndBlocker

\* A restart rebuilds the queues from the proposals.
LEMMA RestartQueues ==
    ASSUME GenesisInv, FundsInv', NEW gap \in BlockGaps, ExportImport(gap)
    PROVE  GenesisInv'
<1>1. /\ UNCHANGED <<params, proposals, proposalID, votes, ema>>
      /\ now' = now + gap
      /\ votingPeriodKeys' = Ids({"VotingPeriod"})
      /\ inactiveQueue' = {Key(p, proposals[p].DepositEndTime) : p \in Ids({"DepositPeriod"})}
      /\ activeQueue' = {Key(p, proposals[p].VotingEndTime) : p \in Ids({"VotingPeriod"})}
  BY DEF ExportImport
<1>2. now' \in Nat
  BY <1>1, InstanceAssumption DEF GenesisInv
<1>3. QueuesMatchProposals'
  BY <1>1 DEF QueuesMatchProposals, Ids
<1> QED
  BY <1>1, <1>2, <1>3 DEF GenesisInv, FreeIds, VotesInVoting

LEMMA GenesisInitInv ==
    ASSUME Init
    PROVE  GenesisInv
<1>1. FundsInv
  BY InitFunds
<1>2. Inv
  BY InitInv
<1>3. VotesInVoting
  BY DEF Init, VotesInVoting
<1> QED
  BY <1>1, <1>2, <1>3 DEF Inv, TypeOK, GenesisInv

LEMMA GenesisNextInv ==
    ASSUME PositiveQuorum, NoStakingErrors, GenesisInv, [GenesisNext]_vars
    PROVE  GenesisInv'
<1>1. FundsInv'
  BY NextFunds DEF GenesisInv
<1>2. CASE \E gap \in BlockGaps : NextBlock(gap)
  <2>1. PICK gap \in BlockGaps : NextBlock(gap)
    BY <1>2
  <2>2. /\ now' = now + gap
        /\ UNCHANGED <<params, proposals, votingPeriodKeys, proposalID, inactiveQueue,
                       activeQueue, votes, ema>>
    BY <2>1 DEF NextBlock, proposalVars, queueVars
  <2>3. now' \in Nat
    BY <2>2, InstanceAssumption DEF GenesisInv
  <2> QED
    BY <1>1, <2>2, <2>3, GenesisKept
<1>3. CASE UNCHANGED vars
  <2>1. /\ now' \in Nat
        /\ UNCHANGED <<params, proposals, votingPeriodKeys, proposalID, inactiveQueue,
                       activeQueue, votes, ema>>
    BY <1>3 DEF vars, proposalVars, queueVars, GenesisInv
  <2> QED
    BY <1>1, <2>1, GenesisKept
<1>4. ASSUME NEW a \in Accounts, NEW amount \in Amounts, SendToModule(a, amount)
      PROVE  GenesisInv'
  <2>1. /\ now' \in Nat
        /\ UNCHANGED <<params, proposals, votingPeriodKeys, proposalID, inactiveQueue,
                       activeQueue, votes, ema>>
    BY <1>4 DEF SendToModule, proposalVars, queueVars, GenesisInv
  <2> QED
    BY <1>1, <2>1, GenesisKept
<1>5. ASSUME NEW gap \in BlockGaps, ExportImport(gap) PROVE GenesisInv'
  BY <1>1, <1>5, RestartQueues
<1> QED
  BY <1>2, <1>3, <1>4, <1>5, TransactionQueues, DaoQueues, EndBlockerQueues DEF GenesisNext, Next

\* As long as the staking module does not fail and no proposal reaches its quorum without
\* votes, the queues match the proposals in every reachable state, also after restarts.
THEOREM QueuesSurviveRestarts ==
    ASSUME PositiveQuorum, NoStakingErrors
    PROVE  GenesisSpec => []QueuesMatchProposals
<1>1. GenesisInv => QueuesMatchProposals
  BY DEF GenesisInv
<1> QED
  BY <1>1, GenesisInitInv, GenesisNextInv, PTL DEF GenesisSpec

-----------------------------------------------------------------------------
(* The quorum checks *)

\* A voting period is as long as the parameters of its day say, or longer.
VotingSpan ==
    \A p \in ProposalIds :
       proposals[p].Status = "VotingPeriod" =>
          \E old \in ParamSets :
             proposals[p].VotingStartTime + old.VotingPeriod <= proposals[p].VotingEndTime

\* The quorum timeout of any parameter set lies in the voting period of any other.
\* InitGenesis computes it from the parameters of the restart, not from those the voting
\* began with.
TimeoutsFit ==
    \A prm, old \in ParamSets :
       prm.QuorumCheckCount # 0 => prm.QuorumTimeout <= old.VotingPeriod

\* The periods of the parameters in force.
LEMMA PeriodFacts ==
    ASSUME params \in ParamSets
    PROVE  /\ params.VotingPeriod \in Nat /\ params.QuorumCheckCount \in Nat
           /\ params.QuorumCheckCount # 0 =>
                 params.QuorumTimeout \in Nat /\ params.QuorumTimeout < params.VotingPeriod
<1>1. params \in ParamsType /\ ValidParams(params)
  BY ParamsAssumption
<1>2. /\ params.VotingPeriod \in Nat /\ params.QuorumCheckCount \in Nat
      /\ params.QuorumTimeout \in Int \cup {Nil}
  BY <1>1 DEF ParamsType
<1>3. params.QuorumCheckCount # 0 =>
         /\ params.QuorumTimeout # Nil
         /\ 0 <= params.QuorumTimeout /\ params.QuorumTimeout < params.VotingPeriod
  BY <1>1, <1>2 DEF ValidParams
<1> QED
  BY <1>2, <1>3

\* The inductive invariant.
ChecksInv ==
    /\ GenesisInv
    /\ quorumQueue \subseteq QuorumKey
    /\ QuorumChecksInTime /\ ChecksBeforeTally
    /\ VotingSpan

\* An entry of the queue.
LEMMA EntryFacts ==
    ASSUME ChecksInv, NEW e \in quorumQueue
    PROVE  /\ e \in QuorumKey /\ e.id \in ProposalIds
           /\ e.time \in Nat /\ e.QuorumTimeoutTime \in Nat
           /\ e.QuorumCheckCount \in Nat \ {0} /\ e.QuorumChecksDone \in Nat
           /\ proposals[e.id] \in Proposal /\ proposals[e.id].VotingEndTime \in Nat
           /\ proposals[e.id].Status \in {"VotingPeriod", "Vetoed"}
           /\ e.QuorumTimeoutTime <= e.time /\ e.time <= proposals[e.id].VotingEndTime
           /\ e.QuorumChecksDone <= e.QuorumCheckCount
           /\ e.QuorumTimeoutTime <= proposals[e.id].VotingEndTime
           /\ \A f \in quorumQueue : f.id = e.id => f = e
<1>1. e \in QuorumKey
  BY DEF ChecksInv
<1>2. /\ e.id \in ProposalIds /\ e.time \in Nat /\ e.QuorumTimeoutTime \in Nat
      /\ e.QuorumCheckCount \in Nat \ {0} /\ e.QuorumChecksDone \in Nat
  BY <1>1 DEF QuorumKey
<1>3. proposals[e.id] \in Proposal /\ proposals[e.id].VotingEndTime \in Nat
  BY <1>2 DEF ChecksInv, GenesisInv, Proposal
<1>4. /\ proposals[e.id].Status \in {"VotingPeriod", "Vetoed"}
      /\ e.QuorumTimeoutTime <= e.time /\ e.time <= proposals[e.id].VotingEndTime
      /\ e.QuorumChecksDone <= e.QuorumCheckCount
      /\ \A f \in quorumQueue : f.id = e.id => f = e
  BY DEF ChecksInv, QuorumChecksInTime
<1>5. e.QuorumTimeoutTime <= proposals[e.id].VotingEndTime
  BY <1>2, <1>3, <1>4
<1> QED
  BY <1>1, <1>2, <1>3, <1>4, <1>5

\* The voting end of a proposal only moves away, and no entry is added.
LEMMA ChecksHeld ==
    ASSUME ChecksInv, GenesisInv', quorumQueue' \subseteq quorumQueue,
           \A e \in quorumQueue' :
              /\ proposals'[e.id].Status \in {"VotingPeriod", "Vetoed"}
              /\ proposals'[e.id].VotingEndTime >= proposals[e.id].VotingEndTime,
           \A p \in ProposalIds : proposals'[p].Status = "VotingPeriod" =>
              /\ proposals[p].Status = "VotingPeriod"
              /\ proposals'[p].VotingStartTime = proposals[p].VotingStartTime
              /\ proposals'[p].VotingEndTime >= proposals[p].VotingEndTime,
           phase' = "active" => \A e \in quorumQueue' : e.time > now'
    PROVE  ChecksInv'
<1>1. proposals \in [ProposalIds -> Proposal] /\ proposals' \in [ProposalIds -> Proposal]
  BY DEF ChecksInv, GenesisInv
<1>2. \A p \in ProposalIds :
         /\ proposals[p].VotingEndTime \in Nat /\ proposals'[p].VotingEndTime \in Nat
         /\ proposals[p].VotingStartTime \in Nat
  BY <1>1 DEF Proposal
<1>3. \A e \in quorumQueue' :
         /\ e \in quorumQueue /\ e.time \in Nat
         /\ e.time <= proposals[e.id].VotingEndTime
         /\ proposals[e.id].VotingEndTime \in Nat /\ proposals'[e.id].VotingEndTime \in Nat
  BY <1>2, EntryFacts
<1>4. QuorumChecksInTime'
  BY <1>3 DEF ChecksInv, QuorumChecksInTime
<1>5. ChecksBeforeTally'
  BY DEF ChecksBeforeTally, NoneDue
<1>6. VotingSpan'
  <2> SUFFICES ASSUME NEW p \in ProposalIds, proposals'[p].Status = "VotingPeriod"
               PROVE  \E old \in ParamSets :
                  proposals'[p].VotingStartTime + old.VotingPeriod <= proposals'[p].VotingEndTime
    BY DEF VotingSpan
  <2>1. PICK old \in ParamSets :
           proposals[p].VotingStartTime + old.VotingPeriod <= proposals[p].VotingEndTime
    BY DEF ChecksInv, VotingSpan
  <2>2. old.VotingPeriod \in Nat
    BY ParamsAssumption DEF ParamsType
  <2>3. proposals'[p].VotingStartTime + old.VotingPeriod <= proposals'[p].VotingEndTime
    BY <1>2, <2>1, <2>2
  <2> QED
    BY <2>3
<1> QED
  BY <1>4, <1>5, <1>6 DEF ChecksInv

\* A step that leaves the proposals and the queue alone.
LEMMA ChecksUntouched ==
    ASSUME ChecksInv, GenesisInv', UNCHANGED <<proposals, quorumQueue>>,
           phase' = "active" => \A e \in quorumQueue' : e.time > now'
    PROVE  ChecksInv'
<1>1. \A p \in ProposalIds : proposals[p].VotingEndTime \in Nat
  BY DEF ChecksInv, GenesisInv, Proposal
<1>2. \A e \in quorumQueue : /\ proposals[e.id].Status \in {"VotingPeriod", "Vetoed"}
                             /\ proposals[e.id].VotingEndTime \in Nat
  BY EntryFacts
<1> QED
  BY <1>1, <1>2, ChecksHeld

\* A step that writes proposal p and drops no more than the entries of p.
LEMMA ChecksWrite ==
    ASSUME ChecksInv, GenesisInv', NEW p \in ProposalIds, NEW prop \in Proposal,
           proposals' = [proposals EXCEPT ![p] = prop], quorumQueue' \subseteq quorumQueue,
           \/ \A e \in quorumQueue' : e.id # p
           \/ prop.Status \in {"VotingPeriod", "Vetoed"}
              /\ prop.VotingEndTime >= proposals[p].VotingEndTime,
           prop.Status = "VotingPeriod" =>
              /\ proposals[p].Status = "VotingPeriod"
              /\ prop.VotingStartTime = proposals[p].VotingStartTime
              /\ prop.VotingEndTime >= proposals[p].VotingEndTime,
           phase' = "active" => \A e \in quorumQueue' : e.time > now'
    PROVE  ChecksInv'
<1>1. proposals \in [ProposalIds -> Proposal]
  BY DEF ChecksInv, GenesisInv
<1>2. \A q \in ProposalIds : /\ proposals'[q] = IF q = p THEN prop ELSE proposals[q]
                             /\ proposals[q].VotingEndTime \in Nat
  BY <1>1 DEF Proposal
<1>3. \A e \in quorumQueue' : /\ e.id \in ProposalIds
                              /\ proposals[e.id].Status \in {"VotingPeriod", "Vetoed"}
  BY EntryFacts
<1>4. \A e \in quorumQueue' :
         /\ proposals'[e.id].Status \in {"VotingPeriod", "Vetoed"}
         /\ proposals'[e.id].VotingEndTime >= proposals[e.id].VotingEndTime
  BY <1>2, <1>3
<1>5. \A q \in ProposalIds : proposals'[q].Status = "VotingPeriod" =>
         /\ proposals[q].Status = "VotingPeriod"
         /\ proposals'[q].VotingStartTime = proposals[q].VotingStartTime
         /\ proposals'[q].VotingEndTime >= proposals[q].VotingEndTime
  BY <1>2
<1> QED
  BY <1>4, <1>5, ChecksHeld

\* ActivateVotingPeriod gives a proposal its entry; it had none.
LEMMA ActivateChecks ==
    ASSUME ChecksInv, GenesisInv', NEW p \in ProposalIds, NEW prop \in Proposal,
           NEW queue, NEW num, ActivateVotingPeriod(p, prop, queue, num),
           proposals[p].Status \in {"None", "DepositPeriod"}, phase' # "active"
    PROVE  ChecksInv'
<1> DEFINE end     == now + params.VotingPeriod
           timeout == now + params.QuorumTimeout
           count   == params.QuorumCheckCount
           new     == [prop EXCEPT !.Status = "VotingPeriod", !.VotingStartTime = now,
                                   !.VotingEndTime = end]
           n       == QuorumEntry(p, timeout, timeout, count, 0)
<1>1. /\ now \in Nat /\ params \in ParamSets /\ proposals \in [ProposalIds -> Proposal]
      /\ proposals' \in [ProposalIds -> Proposal]
  BY DEF ChecksInv, GenesisInv
<1>2. /\ params.VotingPeriod \in Nat /\ count \in Nat
      /\ count # 0 => params.QuorumTimeout \in Nat /\ params.QuorumTimeout < params.VotingPeriod
  BY <1>1, PeriodFacts
<1>3. end \in Nat /\ (count # 0 => timeout \in Nat /\ timeout <= end)
  BY <1>1, <1>2
<1>4. /\ proposals' = [proposals EXCEPT ![p] = new]
      /\ quorumQueue' = IF count > 0 THEN quorumQueue \cup {n} ELSE quorumQueue
  BY DEF ActivateVotingPeriod, SetProposal
<1>5. /\ new.Status = "VotingPeriod" /\ new.VotingStartTime = now /\ new.VotingEndTime = end
  BY DEF Proposal
<1>6. count # 0 => /\ n \in QuorumKey /\ n.id = p /\ n.time = timeout
                   /\ n.QuorumTimeoutTime = timeout /\ n.QuorumCheckCount = count
                   /\ n.QuorumChecksDone = 0
  BY <1>2, <1>3 DEF QuorumEntry, QuorumKey
<1> HIDE DEF new, n
<1>7. \A q \in ProposalIds : proposals'[q] = IF q = p THEN new ELSE proposals[q]
  BY <1>1, <1>4
<1>8. \A e \in quorumQueue : /\ e.id \in ProposalIds /\ e.id # p
                             /\ proposals'[e.id] = proposals[e.id]
  BY <1>7, EntryFacts
<1>9. \A e \in quorumQueue' : e \in quorumQueue \/ (count # 0 /\ e = n)
  BY <1>2, <1>4
<1>10. quorumQueue' \subseteq QuorumKey
  BY <1>6, <1>9 DEF ChecksInv
<1>11. \A e \in quorumQueue' :
          /\ proposals'[e.id].Status \in {"VotingPeriod", "Vetoed"}
          /\ e.QuorumTimeoutTime <= e.time
          /\ e.time <= proposals'[e.id].VotingEndTime
          /\ e.QuorumChecksDone <= e.QuorumCheckCount
  <2> SUFFICES ASSUME NEW e \in quorumQueue'
               PROVE  /\ proposals'[e.id].Status \in {"VotingPeriod", "Vetoed"}
                      /\ e.QuorumTimeoutTime <= e.time
                      /\ e.time <= proposals'[e.id].VotingEndTime
                      /\ e.QuorumChecksDone <= e.QuorumCheckCount
    OBVIOUS
  <2>1. CASE e \in quorumQueue
    BY <1>8, <2>1, EntryFacts
  <2>2. CASE count # 0 /\ e = n
    <3>1. proposals'[e.id] = new
      BY <1>6, <1>7, <2>2
    <3> HIDE DEF end, timeout, count
    <3>2. e.time = timeout /\ e.QuorumTimeoutTime = timeout /\ e.QuorumCheckCount = count
          /\ e.QuorumChecksDone = 0 /\ count \in Nat
      BY <1>2, <1>6, <2>2
    <3> QED
      BY <1>3, <1>5, <2>2, <3>1, <3>2
  <2> QED
    BY <1>9, <2>1, <2>2
<1>12. \A e, f \in quorumQueue' : f.id = e.id => f = e
  BY <1>6, <1>8, <1>9 DEF ChecksInv, QuorumChecksInTime
<1>13. QuorumChecksInTime' /\ ChecksBeforeTally'
  BY <1>11, <1>12 DEF QuorumChecksInTime, ChecksBeforeTally
<1>14. VotingSpan'
  <2> SUFFICES ASSUME NEW q \in ProposalIds, proposals'[q].Status = "VotingPeriod"
               PROVE  \E old \in ParamSets :
                  proposals'[q].VotingStartTime + old.VotingPeriod <= proposals'[q].VotingEndTime
    BY DEF VotingSpan
  <2>1. CASE q = p
    <3>1. now + params.VotingPeriod <= end
      BY <1>3
    <3> HIDE DEF end
    <3> QED
      BY <1>1, <1>5, <1>7, <2>1, <3>1
  <2>2. CASE q # p
    BY <1>7, <2>2 DEF ChecksInv, VotingSpan
  <2> QED
    BY <2>1, <2>2
<1> QED
  BY <1>10, <1>13, <1>14 DEF ChecksInv

\* A deposit.
LEMMA AddDepositChecks ==
    ASSUME ChecksInv, GenesisInv', NEW p \in ProposalIds, NEW prop \in Proposal,
           NEW queue, NEW num, NEW a, NEW amount \in Amounts, NEW skip,
           AddDeposit(p, prop, queue, num, a, amount, skip),
           \/ proposals[p] = prop
           \/ proposals[p].Status = "None" /\ prop.Status = "DepositPeriod",
           phase' # "active"
    PROVE  ChecksInv'
<1> DEFINE total == prop.TotalDeposit + amount
           funded == [prop EXCEPT !.TotalDeposit = total]
<1>1. total \in Nat
  BY InstanceAssumption DEF Proposal
<1>2. [prop EXCEPT !.TotalDeposit = @ + amount] = funded
  BY DEF Proposal
<1> HIDE DEF total
<1>3. /\ funded \in Proposal /\ funded.Status = prop.Status
      /\ funded.VotingStartTime = prop.VotingStartTime
      /\ funded.VotingEndTime = prop.VotingEndTime
  BY <1>1 DEF Proposal
<1>4. \/ /\ prop.Status = "DepositPeriod"
         /\ ActivateVotingPeriod(p, funded, queue, num)
      \/ SetProposal(p, funded) /\ UNCHANGED quorumQueue
  BY <1>2 DEF AddDeposit
<1> HIDE DEF funded
<1>5. CASE prop.Status = "DepositPeriod" /\ ActivateVotingPeriod(p, funded, queue, num)
  BY <1>3, <1>5, ActivateChecks
<1>6. CASE SetProposal(p, funded) /\ UNCHANGED quorumQueue
  <2>1. proposals[p] \in Proposal
    BY DEF ChecksInv, GenesisInv
  <2>2. CASE proposals[p] = prop
    <3>1. /\ funded.Status = proposals[p].Status
          /\ funded.VotingStartTime = proposals[p].VotingStartTime
          /\ funded.VotingEndTime >= proposals[p].VotingEndTime
      BY <1>3, <2>1, <2>2 DEF Proposal
    <3>2. \/ \A e \in quorumQueue' : e.id # p
          \/ funded.Status \in {"VotingPeriod", "Vetoed"}
      BY <1>6, <3>1, EntryFacts
    <3> QED
      BY <1>3, <1>6, <3>1, <3>2, ChecksWrite DEF SetProposal
  <2>3. CASE proposals[p].Status = "None" /\ prop.Status = "DepositPeriod"
    <3>1. \A e \in quorumQueue' : e.id # p
      BY <1>6, <2>3, EntryFacts
    <3> QED
      BY <1>3, <1>6, <2>3, <3>1, ChecksWrite DEF SetProposal
  <2> QED
    BY <2>2, <2>3
<1> QED
  BY <1>4, <1>5, <1>6

LEMMA TransactionChecks ==
    ASSUME ChecksInv, GenesisInv', Transaction
    PROVE  ChecksInv'
<1>1. /\ now \in Nat /\ params \in ParamSets /\ proposalID \in Nat \ {0}
      /\ proposals \in [ProposalIds -> Proposal] /\ FreeIds
  BY DEF ChecksInv, GenesisInv, FundsInv
<1>2. ASSUME NEW a \in Accounts, NEW content \in Contents, NEW amount \in Amounts,
             SubmitProposal(a, content, amount)
      PROVE  ChecksInv'
  <2> DEFINE p == proposalID
             end == now + params.MaxDepositPeriod
             prop == [NoProposal EXCEPT !.Status = "DepositPeriod", !.Content = content,
                                        !.DepositEndTime = end]
             queue == inactiveQueue \cup {Key(p, prop.DepositEndTime)}
             num == Increment(inactiveNumber)
  <2>1. /\ p \in ProposalIds /\ proposals[p].Status = "None" /\ phase' # "active"
    BY <1>1, <1>2, InstanceAssumption DEF FreeIds, SubmitProposal, InTx, ProposalIds
  <2>2. end \in Nat
    BY <1>1, ParamsAssumption DEF ParamsType
  <2>3. AddDeposit(p, prop, queue, num, a, amount, TRUE)
    BY <1>2 DEF SubmitProposal
  <2> HIDE DEF end
  <2>4. prop \in Proposal /\ prop.Status = "DepositPeriod"
    BY <2>2 DEF NoProposal, Proposal, Statuses
  <2> HIDE DEF prop, p, queue, num
  <2> QED
    BY <2>1, <2>3, <2>4, AddDepositChecks
<1>3. ASSUME NEW a \in Accounts, NEW p \in ProposalIds, NEW amount \in Amounts,
             Deposit(a, p, amount)
      PROVE  ChecksInv'
  <2>1. /\ AddDeposit(p, proposals[p], inactiveQueue, inactiveNumber, a, amount, FALSE)
        /\ proposals[p] \in Proposal /\ phase' # "active"
    BY <1>1, <1>3 DEF Deposit, InTx
  <2> QED
    BY <2>1, AddDepositChecks
<1>4. ASSUME NEW v \in Voters, NEW p \in ProposalIds, NEW option \in VoteOptions,
             AddVote(v, p, option)
      PROVE  ChecksInv'
  <2>1. UNCHANGED <<proposals, quorumQueue>> /\ phase' # "active"
    BY <1>4 DEF AddVote, InTx, proposalVars, queueVars
  <2> QED
    BY <2>1, ChecksUntouched
<1> QED
  BY <1>2, <1>3, <1>4 DEF Transaction

LEMMA DaoChecks ==
    ASSUME ChecksInv, GenesisInv', DaoTransaction
    PROVE  ChecksInv'
<1>1. PICK signer \in Signers, p \in ProposalIds :
         \/ \E overwrite \in BOOLEAN : AnnotateProposal(signer, p, overwrite)
         \/ EndorseProposal(signer, p)
         \/ ExtendVotingPeriod(signer, p)
         \/ \E burnDeposit \in BOOLEAN : VetoProposal(signer, p, burnDeposit)
  BY DEF DaoTransaction
<1>2. /\ proposals[p] \in Proposal /\ proposals[p].Status = "VotingPeriod" /\ phase' # "active"
      /\ UNCHANGED quorumQueue
  BY <1>1 DEF AnnotateProposal, EndorseProposal, ExtendVotingPeriod, VetoProposal,
     RewriteProposal, InVotingPeriod, InTx, ChecksInv, GenesisInv
<1>3. ASSUME NEW prop \in Proposal, proposals' = [proposals EXCEPT ![p] = prop],
             prop.Status \in {"VotingPeriod", "Vetoed"},
             prop.VotingStartTime = proposals[p].VotingStartTime,
             prop.VotingEndTime >= proposals[p].VotingEndTime
      PROVE  ChecksInv'
  BY <1>2, <1>3, ChecksWrite
<1>4. proposals[p].VotingEndTime \in Nat /\ proposals[p].TimesVotingPeriodExtended \in Nat
  BY <1>2 DEF Proposal
<1>5. CASE \E overwrite \in BOOLEAN : AnnotateProposal(signer, p, overwrite)
  <2> DEFINE prop == [proposals[p] EXCEPT !.Annotation = TRUE]
  <2>1. proposals' = [proposals EXCEPT ![p] = prop]
    BY <1>5 DEF AnnotateProposal, RewriteProposal, SetProposal
  <2>2. /\ prop \in Proposal /\ prop.Status = "VotingPeriod"
        /\ prop.VotingStartTime = proposals[p].VotingStartTime
        /\ prop.VotingEndTime = proposals[p].VotingEndTime
    BY <1>2 DEF Proposal
  <2>3. prop.Status \in {"VotingPeriod", "Vetoed"}
        /\ prop.VotingEndTime >= proposals[p].VotingEndTime
    BY <1>4, <2>2
  <2> HIDE DEF prop
  <2> QED
    BY <1>3, <2>1, <2>2, <2>3
<1>6. CASE EndorseProposal(signer, p)
  <2> DEFINE prop == [proposals[p] EXCEPT !.Endorsed = TRUE]
  <2>1. proposals' = [proposals EXCEPT ![p] = prop]
    BY <1>6 DEF EndorseProposal, RewriteProposal, SetProposal
  <2>2. /\ prop \in Proposal /\ prop.Status = "VotingPeriod"
        /\ prop.VotingStartTime = proposals[p].VotingStartTime
        /\ prop.VotingEndTime = proposals[p].VotingEndTime
    BY <1>2 DEF Proposal
  <2>3. prop.Status \in {"VotingPeriod", "Vetoed"}
        /\ prop.VotingEndTime >= proposals[p].VotingEndTime
    BY <1>4, <2>2
  <2> HIDE DEF prop
  <2> QED
    BY <1>3, <2>1, <2>2, <2>3
<1>7. CASE ExtendVotingPeriod(signer, p)
  <2> DEFINE end == proposals[p].VotingEndTime + ExtensionDuration
             times == proposals[p].TimesVotingPeriodExtended + 1
             prop == [proposals[p] EXCEPT !.VotingEndTime = end,
                                          !.TimesVotingPeriodExtended = times]
  <2>1. proposals' = [proposals EXCEPT ![p] = prop]
    BY <1>7 DEF ExtendVotingPeriod, NewEndTime, RewriteProposal, SetProposal
  <2>2. end \in Nat /\ times \in Nat /\ end >= proposals[p].VotingEndTime
    BY <1>4, DaoAssumption
  <2> HIDE DEF end, times
  <2>3. /\ prop \in Proposal /\ prop.Status = "VotingPeriod" /\ prop.VotingEndTime = end
        /\ prop.VotingStartTime = proposals[p].VotingStartTime
    BY <1>2, <2>2 DEF Proposal
  <2> HIDE DEF prop
  <2> QED
    BY <1>3, <2>1, <2>2, <2>3
<1>8. CASE \E burnDeposit \in BOOLEAN : VetoProposal(signer, p, burnDeposit)
  <2> DEFINE prop == [proposals[p] EXCEPT !.Status = "Vetoed"]
  <2>1. proposals' = [proposals EXCEPT ![p] = prop]
    BY <1>8 DEF VetoProposal, SetProposal
  <2>2. /\ prop \in Proposal /\ prop.Status = "Vetoed"
        /\ prop.VotingStartTime = proposals[p].VotingStartTime
        /\ prop.VotingEndTime = proposals[p].VotingEndTime
    BY <1>2 DEF Proposal, Statuses
  <2>3. prop.Status \in {"VotingPeriod", "Vetoed"}
        /\ prop.VotingEndTime >= proposals[p].VotingEndTime
    BY <1>4, <2>2
  <2> HIDE DEF prop
  <2> QED
    BY <1>3, <2>1, <2>2, <2>3
<1> QED
  BY <1>1, <1>5, <1>6, <1>7, <1>8

\* A failed check schedules the next one, still within the voting period, or panics.
LEMMA MissedChecks ==
    ASSUME ChecksInv, GenesisInv', NEW e \in quorumQueue, CheckQuorumMissed(e)
    PROVE  ChecksInv'
<1> DEFINE p == e.id
           again == /\ e.QuorumChecksDone < e.QuorumCheckCount
                    /\ proposals[p].VotingEndTime > now
           t == NextCheckTime(e)
           d == e.QuorumChecksDone + 1
           entry == [e EXCEPT !.time = t, !.QuorumChecksDone = d]
<1>1. /\ e \in QuorumKey /\ p \in ProposalIds /\ e.time \in Nat
      /\ e.QuorumCheckCount \in Nat \ {0} /\ e.QuorumChecksDone \in Nat
      /\ e.QuorumTimeoutTime \in Nat /\ e.QuorumTimeoutTime <= e.time
      /\ proposals[p].VotingEndTime \in Nat
      /\ proposals[p].Status \in {"VotingPeriod", "Vetoed"}
      /\ e.QuorumTimeoutTime <= proposals[p].VotingEndTime
      /\ \A f \in quorumQueue : f # e => f.id # p
  BY EntryFacts
<1>2. now \in Nat
  BY DEF ChecksInv, GenesisInv
<1>3. CheckInterval(e) # 0 => /\ t \in Nat /\ e.QuorumTimeoutTime <= t
                              /\ t <= proposals[p].VotingEndTime
  BY <1>1, <1>2, NextCheck
<1>4. d \in Nat /\ (again => d <= e.QuorumCheckCount)
  BY <1>1
<1>5. /\ \/ quorumQueue' \subseteq quorumQueue
         \/ /\ again /\ CheckInterval(e) # 0
            /\ quorumQueue' = (quorumQueue \ {e}) \cup {entry}
      /\ UNCHANGED proposals /\ phase' # "active"
  BY <1>1 DEF CheckQuorumMissed, Walking, proposalVars
<1> HIDE DEF t, d
<1>6. CheckInterval(e) # 0 =>
         /\ entry \in QuorumKey /\ entry.id = p /\ entry.time = t
         /\ entry.QuorumTimeoutTime = e.QuorumTimeoutTime
         /\ entry.QuorumCheckCount = e.QuorumCheckCount
         /\ entry.QuorumChecksDone = d
  BY <1>1, <1>3, <1>4 DEF QuorumKey
<1> HIDE DEF entry, p, again
<1>7. CASE quorumQueue' \subseteq quorumQueue
  BY <1>5, <1>7 DEF ChecksInv, QuorumChecksInTime, VotingSpan, ChecksBeforeTally
<1>8. CASE /\ again /\ CheckInterval(e) # 0
           /\ quorumQueue' = (quorumQueue \ {e}) \cup {entry}
  <2>1. \A f \in quorumQueue' : (f \in quorumQueue /\ f.id # p) \/ f = entry
    BY <1>1, <1>8
  <2>2. quorumQueue' \subseteq QuorumKey
    BY <1>6, <1>8, <2>1 DEF ChecksInv
  <2>3. QuorumChecksInTime'
    <3>1. \A f \in quorumQueue' :
             /\ proposals[f.id].Status \in {"VotingPeriod", "Vetoed"}
             /\ f.QuorumTimeoutTime <= f.time
             /\ f.time <= proposals[f.id].VotingEndTime
             /\ f.QuorumChecksDone <= f.QuorumCheckCount
      BY <1>1, <1>3, <1>4, <1>6, <1>8, <2>1 DEF ChecksInv, QuorumChecksInTime
    <3>2. \A f, g \in quorumQueue' : f.id = g.id => f = g
      BY <1>6, <1>8, <2>1 DEF ChecksInv, QuorumChecksInTime
    <3> QED
      BY <1>5, <3>1, <3>2 DEF QuorumChecksInTime
  <2>4. VotingSpan' /\ ChecksBeforeTally'
    BY <1>5 DEF ChecksInv, VotingSpan, ChecksBeforeTally
  <2> QED
    BY <2>2, <2>3, <2>4 DEF ChecksInv
<1> QED
  BY <1>5, <1>7, <1>8

\* A successful check is of a proposal in its voting period and only moves its end away.
LEMMA ReachedChecks ==
    ASSUME PositiveQuorum, ChecksInv, GenesisInv', NEW e \in quorumQueue,
           CheckQuorumReached(e)
    PROVE  ChecksInv'
<1> DEFINE p == e.id
           end == now + params.MaxVotingPeriodExtension
           prop == [proposals[p] EXCEPT !.VotingEndTime = end]
<1>1. /\ p \in ProposalIds /\ proposals[p] \in Proposal /\ proposals[p].VotingEndTime \in Nat
  BY EntryFacts
<1>2. /\ votes[p] \in [Voters -> Options \cup {NoVote}] /\ VotesInVoting
      /\ now \in Nat /\ params \in ParamSets /\ ema \in [Kinds -> Nat]
  BY <1>1 DEF ChecksInv, GenesisInv
<1>3. proposals[p].Status = "VotingPeriod"
  <2>1. QuorumReached(p)
    BY DEF CheckQuorumReached
  <2> QED
    BY <1>1, <1>2, <2>1, NoVotesNoQuorum DEF VotesInVoting
<1>4. quorumQueue' = quorumQueue \ {e} /\ phase' # "active"
  BY DEF CheckQuorumReached, Walking
<1>5. CASE UNCHANGED proposals
  <2>1. \A q \in ProposalIds : proposals[q].VotingEndTime \in Nat
    BY DEF ChecksInv, GenesisInv, Proposal
  <2>2. \A f \in quorumQueue' :
           /\ proposals'[f.id].Status \in {"VotingPeriod", "Vetoed"}
           /\ proposals'[f.id].VotingEndTime >= proposals[f.id].VotingEndTime
    BY <1>4, <1>5, EntryFacts
  <2>3. \A q \in ProposalIds : proposals'[q].VotingEndTime >= proposals[q].VotingEndTime
    BY <1>5, <2>1
  <2> QED
    BY <1>4, <1>5, <2>2, <2>3, ChecksHeld
<1>6. CASE LateQuorumExtends(e) /\ SetProposal(p, prop)
  <2>1. end \in Nat /\ end >= proposals[p].VotingEndTime
    BY <1>1, <1>2, <1>6, ExtendedEnd
  <2> HIDE DEF end
  <2>2. /\ prop \in Proposal /\ prop.Status = "VotingPeriod" /\ prop.VotingEndTime = end
        /\ prop.VotingStartTime = proposals[p].VotingStartTime
    BY <1>1, <1>3, <2>1 DEF Proposal
  <2>3. /\ proposals' = [proposals EXCEPT ![p] = prop] /\ quorumQueue' \subseteq quorumQueue
        /\ prop.VotingEndTime >= proposals[p].VotingEndTime
        /\ prop.Status \in {"VotingPeriod", "Vetoed"}
    BY <1>4, <1>6, <2>1, <2>2 DEF SetProposal
  <2> HIDE DEF prop, p
  <2> QED
    BY <1>1, <1>3, <1>4, <2>2, <2>3, ChecksWrite
<1> QED
  BY <1>5, <1>6 DEF CheckQuorumReached

\* When the voting period of p is tallied, no check of p is left: it would be due by the
\* voting end, and every due check has been walked.
LEMMA TallyChecks ==
    ASSUME ChecksInv, GenesisInv', NEW e \in activeQueue, TallyDue(e)
    PROVE  ChecksInv'
<1> DEFINE p == e.id
<1>1. /\ p \in ProposalIds /\ proposals[p] \in Proposal /\ e.time = proposals[p].VotingEndTime
      /\ now \in Nat /\ e.time \in Nat
  BY DEF ChecksInv, GenesisInv, QueuesMatchProposals, Ids, Key, Proposal
<1>2. /\ phase = "active" /\ e.time <= now
  BY DEF TallyDue, Walking, IsFirstDue
<1>3. PICK status \in Final, burn \in {FALSE, BurnsDeposits(votes[p], Power, TotalBonded,
               ProposalQuorum(p),
               GetThreshold(params, proposals[p].Content.kinds, proposals[p].Endorsed), params)} :
         CloseVoting(p, status, burn, Participation(votes[p], Power, TotalBonded))
  BY DEF TallyDue, Final
<1>4. \A f \in quorumQueue : f.time > now
  BY <1>2 DEF ChecksInv, ChecksBeforeTally, NoneDue
<1>5. \A f \in quorumQueue : f.id # p
  <2>1. \A f \in quorumQueue : f.time \in Nat /\ f.time <= proposals[f.id].VotingEndTime
    BY EntryFacts
  <2> QED
    BY <1>1, <1>2, <1>4, <2>1
<1> DEFINE prop == [proposals[p] EXCEPT !.Status = status]
<1>6. prop \in Proposal /\ prop.Status # "VotingPeriod"
  BY <1>1, <1>3 DEF Proposal, Final, Statuses
<1>7. /\ proposals' = [proposals EXCEPT ![p] = prop]
      /\ UNCHANGED <<now, phase, quorumQueue>>
  BY <1>3 DEF CloseVoting, SetProposal
<1> HIDE DEF prop, p
<1> QED
  BY <1>1, <1>4, <1>5, <1>6, <1>7, ChecksWrite

LEMMA EndBlockerChecks ==
    ASSUME PositiveQuorum, NoStakingErrors, ChecksInv, GenesisInv', EndBlocker
    PROVE  ChecksInv'
<1>1. /\ proposals \in [ProposalIds -> Proposal] /\ QueuesMatchProposals
  BY DEF ChecksInv, GenesisInv
<1>2. CASE BeginEndBlock \/ InactiveWalked \/ ActiveWalked
  <2>1. UNCHANGED <<proposals, quorumQueue>> /\ phase' # "active"
    BY <1>2 DEF BeginEndBlock, InactiveWalked, ActiveWalked, proposalVars, queueVars
  <2> QED
    BY <2>1, ChecksUntouched
<1>3. CASE QuorumWalked
  <2>1. UNCHANGED <<now, proposals, quorumQueue>> /\ NoneDue(quorumQueue)
    BY <1>3 DEF QuorumWalked, proposalVars, queueVars
  <2> QED
    BY <2>1, ChecksUntouched DEF NoneDue
<1>4. \A e \in inactiveQueue : /\ e.id \in ProposalIds
                               /\ proposals[e.id].Status = "DepositPeriod"
  BY <1>1 DEF QueuesMatchProposals, Ids, Key
<1>5. ASSUME NEW e \in inactiveQueue, ActivateDue(e) PROVE ChecksInv'
  <2>1. /\ e.id \in ProposalIds /\ proposals[e.id] \in Proposal /\ phase' # "active"
        /\ proposals[e.id].Status \in {"None", "DepositPeriod"}
        /\ ActivateVotingPeriod(e.id, proposals[e.id], inactiveQueue, inactiveNumber)
    BY <1>1, <1>4, <1>5 DEF ActivateDue, Walking
  <2> QED
    BY <2>1, ActivateChecks
<1>6. ASSUME NEW e \in inactiveQueue, DropDue(e) PROVE ChecksInv'
  <2>1. /\ e.id \in ProposalIds /\ proposals[e.id].Status = "DepositPeriod"
        /\ proposals' = [proposals EXCEPT ![e.id] = NoProposal]
        /\ UNCHANGED quorumQueue /\ phase' # "active"
    BY <1>4, <1>6 DEF DropDue, SetProposal, Walking
  <2>2. NoProposal \in Proposal /\ NoProposal.Status = "None"
    BY DEF NoProposal, Proposal, Statuses
  <2>3. \A f \in quorumQueue' : f.id # e.id
    BY <2>1, EntryFacts
  <2> QED
    BY <2>1, <2>2, <2>3, ChecksWrite
<1>7. \A e : ~CheckQuorumError(e) /\ ~TallyDueError(e)
  BY DEF CheckQuorumError, TallyDueError, NoStakingErrors
<1> QED
  BY <1>2, <1>3, <1>5, <1>6, <1>7, ReachedChecks, MissedChecks, TallyChecks DEF EndBlocker

\* A restart schedules the checks of the running votes anew, from the parameters of the day.
LEMMA RestartChecks ==
    ASSUME TimeoutsFit, ChecksInv, GenesisInv', NEW gap \in BlockGaps, ExportImport(gap)
    PROVE  ChecksInv'
<1> DEFINE start(p) == proposals[p].VotingStartTime
           end(p) == proposals[p].VotingEndTime
           timeout(p) == start(p) + params.QuorumTimeout
           count == params.QuorumCheckCount
<1>1. /\ proposals \in [ProposalIds -> Proposal] /\ params \in ParamSets
  BY DEF ChecksInv, GenesisInv
<1>2. count \in Nat /\ (count # 0 => params.QuorumTimeout \in Nat)
  BY <1>1, PeriodFacts
<1>3. /\ UNCHANGED <<params, proposals>> /\ phase' = "txs"
      /\ quorumQueue' = UNION {GenesisQuorumEntries(p, now + gap) : p \in Ids({"VotingPeriod"})}
  BY DEF ExportImport
<1>4. \A e \in quorumQueue' :
         /\ e \in QuorumKey /\ e.id \in ProposalIds /\ proposals[e.id].Status = "VotingPeriod"
         /\ e.time = timeout(e.id) /\ e.QuorumTimeoutTime = timeout(e.id)
         /\ e.QuorumCheckCount = count /\ count # 0
         /\ e.QuorumChecksDone \in {0, 1}
         /\ e \in GenesisQuorumEntries(e.id, now + gap)
  <2> SUFFICES ASSUME NEW p \in Ids({"VotingPeriod"}),
                      NEW e \in GenesisQuorumEntries(p, now + gap)
               PROVE  /\ e \in QuorumKey /\ e.id = p
                      /\ p \in ProposalIds /\ proposals[p].Status = "VotingPeriod"
                      /\ e.time = timeout(p) /\ e.QuorumTimeoutTime = timeout(p)
                      /\ e.QuorumCheckCount = count /\ count # 0
                      /\ e.QuorumChecksDone \in {0, 1}
    BY <1>3
  <2>1. p \in ProposalIds /\ proposals[p].Status = "VotingPeriod"
    BY DEF Ids
  <2>2. start(p) \in Nat
    BY <1>1, <2>1 DEF Proposal
  <2>3. count # 0
    BY DEF GenesisQuorumEntries
  <2>4. timeout(p) \in Nat
    BY <1>2, <2>2, <2>3
  <2>5. PICK d \in {0, 1} : e = QuorumEntry(p, timeout(p), timeout(p), count, d)
    BY DEF GenesisQuorumEntries
  <2> HIDE DEF timeout, count
  <2> QED
    BY <1>2, <2>1, <2>3, <2>4, <2>5 DEF QuorumEntry, QuorumKey
<1>5. \A e \in quorumQueue' : timeout(e.id) <= end(e.id)
  <2> SUFFICES ASSUME NEW e \in quorumQueue'
               PROVE  timeout(e.id) <= end(e.id)
    OBVIOUS
  <2>1. e.id \in ProposalIds /\ proposals[e.id].Status = "VotingPeriod" /\ count # 0
    BY <1>4
  <2>2. PICK old \in ParamSets : start(e.id) + old.VotingPeriod <= end(e.id)
    BY <2>1 DEF ChecksInv, VotingSpan
  <2>3. params.QuorumTimeout <= old.VotingPeriod
    BY <1>1, <2>1 DEF TimeoutsFit
  <2>4. start(e.id) \in Nat /\ end(e.id) \in Nat /\ old.VotingPeriod \in Nat
    BY <1>1, <2>1, ParamsAssumption DEF Proposal, ParamsType
  <2>5. params.QuorumTimeout \in Nat
    BY <1>2, <2>1
  <2> HIDE DEF start, end, count
  <2> QED
    BY <2>2, <2>3, <2>4, <2>5
<1>6. \A e, f \in quorumQueue' : f.id = e.id => f = e
  BY <1>4 DEF GenesisQuorumEntries
<1>7. \A e \in quorumQueue' : /\ proposals[e.id].Status \in {"VotingPeriod", "Vetoed"}
                              /\ e.QuorumTimeoutTime <= e.time
                              /\ e.QuorumChecksDone <= e.QuorumCheckCount
  <2>1. \A e \in quorumQueue' : e.time \in Nat
    BY <1>4 DEF QuorumKey
  <2> HIDE DEF timeout, count
  <2> QED
    BY <1>2, <1>4, <2>1
<1>8. QuorumChecksInTime' /\ ChecksBeforeTally'
  BY <1>3, <1>4, <1>5, <1>6, <1>7 DEF QuorumChecksInTime, ChecksBeforeTally
<1>9. VotingSpan' /\ quorumQueue' \subseteq QuorumKey
  BY <1>3, <1>4 DEF ChecksInv, VotingSpan
<1> QED
  BY <1>8, <1>9 DEF ChecksInv

\* As long as the staking module does not fail, no proposal reaches its quorum without
\* votes and every quorum timeout lies in the shortest voting period, the quorum checks are scheduled once and in time in every reachable state, also after a
\* restart has scheduled them anew.
THEOREM ChecksSurviveRestarts ==
    ASSUME PositiveQuorum, NoStakingErrors, TimeoutsFit
    PROVE  GenesisSpec => []QuorumChecksInTime
<1>1. Init => ChecksInv
  BY GenesisInitInv
     DEF Init, ChecksInv, QuorumChecksInTime, ChecksBeforeTally,
         VotingSpan, NoProposal
<1>2. ChecksInv /\ [GenesisNext]_vars => ChecksInv'
  <2> SUFFICES ASSUME ChecksInv, [GenesisNext]_vars PROVE ChecksInv'
    OBVIOUS
  <2>1. GenesisInv'
    BY GenesisNextInv DEF ChecksInv
  <2>2. CASE \/ \E gap \in BlockGaps : NextBlock(gap)
             \/ \E a \in Accounts, amount \in Amounts : SendToModule(a, amount)
    <3>1. UNCHANGED <<proposals, quorumQueue>> /\ phase' # "active"
      BY <2>2 DEF NextBlock, SendToModule, InTx, proposalVars, queueVars
    <3> QED
      BY <2>1, <3>1, ChecksUntouched
  <2>3. CASE UNCHANGED vars
    <3>1. UNCHANGED <<now, phase, proposals, quorumQueue>>
      BY <2>3 DEF vars, proposalVars, queueVars
    <3> QED
      BY <2>1, <3>1, ChecksUntouched DEF ChecksInv, ChecksBeforeTally, NoneDue
  <2> QED
    BY <2>1, <2>2, <2>3, TransactionChecks, DaoChecks, EndBlockerChecks, RestartChecks
       DEF GenesisNext, Next
<1>3. ChecksInv => QuorumChecksInTime
  BY DEF ChecksInv
<1> QED
  BY <1>1, <1>2, <1>3, PTL DEF GenesisSpec
=============================================================================
