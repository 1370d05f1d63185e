------------------------ MODULE GovDaosSteps_proofs ------------------------
(***************************************************************************)
(* What single steps of governance may do, proved from the invariant of     *)
(* GovDaos_proofs: what happens to a proposal, when new queue entries fall  *)
(* due, when votes appear and disappear, when the minimum deposits move,    *)
(* and how long the voting can last.  At the end, every step opens, funds,  *)
(* activates or closes one proposal of ProposalEscrow, or none.             *)
(***************************************************************************)
EXTENDS GovDaos_proofs

-----------------------------------------------------------------------------
(* The life of a proposal *)

\* A step takes a proposal from old to new.
ProposalMoves(old, new) ==
    \/ new = old
    \/ old.Status = "None" /\ new.Status \in Live
    \/ old.Status = "DepositPeriod" /\ new.Status \in Live \cup {"None"}
    \/ /\ old.Status = "VotingPeriod"
       /\ new.Status \in {"VotingPeriod"} \cup Final
       /\ new.VotingStartTime = old.VotingStartTime
       /\ new.VotingEndTime >= old.VotingEndTime

AllMove == \A q \in ProposalIds : ProposalMoves(proposals[q], proposals'[q])

\* It is enough to look at the proposal that is written.
LEMMA OneMoves ==
    ASSUME TypeOK, NEW p \in ProposalIds, NEW prop,
           proposals' = [proposals EXCEPT ![p] = prop], ProposalMoves(proposals[p], prop)
    PROVE  AllMove
<1>1. \A q \in ProposalIds : proposals'[q] = IF q = p THEN prop ELSE proposals[q]
  BY DEF TypeOK
<1> QED
  BY <1>1 DEF AllMove, ProposalMoves

\* A deposit leaves the proposal live, and the schedule of a running voting period alone.
LEMMA AddDepositMoves ==
    ASSUME TypeOK, NEW p \in ProposalIds, NEW prop \in Proposal, NEW queue, NEW num,
           NEW a, NEW amount, NEW skip, AddDeposit(p, prop, queue, num, a, amount, skip)
    PROVE  \E new : /\ proposals' = [proposals EXCEPT ![p] = new]
                    /\ prop.Status \in Live /\ new.Status \in Live
                    /\ prop.Status = "VotingPeriod" =>
                          /\ new.Status = "VotingPeriod"
                          /\ new.VotingStartTime = prop.VotingStartTime
                          /\ new.VotingEndTime = prop.VotingEndTime
<1> DEFINE funded == [prop EXCEPT !.TotalDeposit = @ + amount]
           active == [funded EXCEPT !.Status = "VotingPeriod", !.VotingStartTime = now,
                                    !.VotingEndTime = now + params.VotingPeriod]
<1>1. prop.Status \in Live
  BY DEF AddDeposit, Depositable
<1>2. /\ funded.Status = prop.Status
      /\ funded.VotingStartTime = prop.VotingStartTime
      /\ funded.VotingEndTime = prop.VotingEndTime
  BY DEF Proposal
<1>3. active.Status = "VotingPeriod"
  BY DEF Proposal
<1>4. CASE /\ prop.Status = "DepositPeriod"
           /\ proposals' = [proposals EXCEPT ![p] = active]
  BY <1>1, <1>3, <1>4 DEF Live
<1>5. CASE proposals' = [proposals EXCEPT ![p] = funded]
  BY <1>1, <1>2, <1>5
<1> QED
  BY <1>4, <1>5 DEF AddDeposit, ActivateVotingPeriod, SetProposal

LEMMA TransactionMoves ==
    ASSUME Inv, Transaction
    PROVE  AllMove
<1>1. TypeOK /\ FreeIds
  BY DEF Inv
<1>2. ASSUME NEW a \in Accounts, NEW content \in Contents, NEW amount \in Amounts,
             SubmitProposal(a, content, amount)
      PROVE  AllMove
  <2> DEFINE prop == [NoProposal EXCEPT !.Status = "DepositPeriod", !.Content = content,
                                        !.DepositEndTime = now + params.MaxDepositPeriod]
  <2>1. proposalID \in ProposalIds /\ proposals[proposalID].Status = "None"
    BY <1>1, <1>2, InstanceAssumption DEF TypeOK, FreeIds, SubmitProposal, ProposalIds
  <2>2. prop \in Proposal
    <3>1. now + params.MaxDepositPeriod \in Nat
      BY <1>1, ParamsAssumption DEF TypeOK, ParamsType
    <3> QED
      BY <3>1 DEF NoProposal, Proposal, Statuses
  <2>3. AddDeposit(proposalID, prop, inactiveQueue \cup {Key(proposalID, prop.DepositEndTime)},
                   Increment(inactiveNumber), a, amount, TRUE)
    BY <1>2 DEF SubmitProposal
  <2> HIDE DEF prop
  <2>4. PICK new : /\ proposals' = [proposals EXCEPT ![proposalID] = new]
                   /\ new.Status \in Live
    BY <1>1, <2>1, <2>2, <2>3, AddDepositMoves
  <2> QED
    BY <1>1, <2>1, <2>4, OneMoves DEF ProposalMoves
<1>3. ASSUME NEW a \in Accounts, NEW p \in ProposalIds, NEW amount \in Amounts,
             Deposit(a, p, amount)
      PROVE  AllMove
  <2>1. proposals[p] \in Proposal
    BY <1>1 DEF TypeOK
  <2>2. AddDeposit(p, proposals[p], inactiveQueue, inactiveNumber, a, amount, FALSE)
    BY <1>3 DEF Deposit
  <2>3. PICK new : /\ proposals' = [proposals EXCEPT ![p] = new]
                   /\ proposals[p].Status \in Live /\ new.Status \in Live
                   /\ proposals[p].Status = "VotingPeriod" =>
                         /\ new.Status = "VotingPeriod"
                         /\ new.VotingStartTime = proposals[p].VotingStartTime
                         /\ new.VotingEndTime = proposals[p].VotingEndTime
    BY <1>1, <2>1, <2>2, AddDepositMoves
  <2>4. ProposalMoves(proposals[p], new)
    BY <2>1, <2>3 DEF ProposalMoves, Live, Proposal
  <2> QED
    BY <1>1, <2>3, <2>4, OneMoves
<1>4. ASSUME NEW v \in Voters, NEW p \in ProposalIds, NEW option \in VoteOptions,
             AddVote(v, p, option)
      PROVE  AllMove
  BY <1>4 DEF AddVote, proposalVars, AllMove, ProposalMoves
<1> QED
  BY <1>2, <1>3, <1>4 DEF Transaction

\* A handler that only raises the voting end of p, or other fields of it.
LEMMA RewriteMoves ==
    ASSUME TypeOK, NEW p \in ProposalIds, NEW prop, SetProposal(p, prop),
           proposals[p].Status = "VotingPeriod",
           prop.Status \in {"VotingPeriod"} \cup Final,
           prop.VotingStartTime = proposals[p].VotingStartTime,
           prop.VotingEndTime >= proposals[p].VotingEndTime
    PROVE  AllMove
BY OneMoves DEF SetProposal, ProposalMoves

\* Ending a proposal in its voting period.
LEMMA ClosingMoves ==
    ASSUME TypeOK, NEW p \in ProposalIds, NEW status \in Final,
           proposals[p].Status = "VotingPeriod",
           SetProposal(p, [proposals[p] EXCEPT !.Status = status])
    PROVE  AllMove
<1> DEFINE prop == [proposals[p] EXCEPT !.Status = status]
<1>1. proposals[p] \in Proposal
  BY DEF TypeOK
<1>2. /\ prop.Status = status
      /\ prop.VotingStartTime = proposals[p].VotingStartTime
      /\ prop.VotingEndTime = proposals[p].VotingEndTime
      /\ proposals[p].VotingEndTime \in Nat
  BY <1>1 DEF Proposal
<1> HIDE DEF prop
<1>3. prop.VotingEndTime >= proposals[p].VotingEndTime
  BY <1>2
<1> QED
  BY <1>2, <1>3, RewriteMoves DEF prop

LEMMA DaoMoves ==
    ASSUME Inv, DaoTransaction
    PROVE  AllMove
<1>1. TypeOK
  BY DEF Inv
<1>2. PICK signer \in Signers, p \in ProposalIds :
         \/ \E overwrite \in BOOLEAN : AnnotateProposal(signer, p, overwrite)
         \/ EndorseProposal(signer, p)
         \/ ExtendVotingPeriod(signer, p)
         \/ \E burnDeposit \in BOOLEAN : VetoProposal(signer, p, burnDeposit)
  BY DEF DaoTransaction
<1>3. proposals[p].Status = "VotingPeriod"
  BY <1>2 DEF AnnotateProposal, EndorseProposal, ExtendVotingPeriod, VetoProposal, InVotingPeriod
<1>4. /\ proposals[p] \in Proposal /\ proposals[p].VotingEndTime \in Nat
      /\ proposals[p].TimesVotingPeriodExtended \in Nat
  BY <1>1 DEF TypeOK, Proposal
<1>5. CASE \E overwrite \in BOOLEAN : AnnotateProposal(signer, p, overwrite)
  <2> DEFINE prop == [proposals[p] EXCEPT !.Annotation = TRUE]
  <2>1. SetProposal(p, prop)
    BY <1>5 DEF AnnotateProposal, RewriteProposal
  <2>2. /\ prop.Status = "VotingPeriod"
        /\ prop.VotingStartTime = proposals[p].VotingStartTime
        /\ prop.VotingEndTime >= proposals[p].VotingEndTime
    BY <1>3, <1>4 DEF Proposal
  <2> QED
    BY <1>1, <1>3, <2>1, <2>2, RewriteMoves
<1>6. CASE EndorseProposal(signer, p)
  <2> DEFINE prop == [proposals[p] EXCEPT !.Endorsed = TRUE]
  <2>1. SetProposal(p, prop)
    BY <1>6 DEF EndorseProposal, RewriteProposal
  <2>2. /\ prop.Status = "VotingPeriod"
        /\ prop.VotingStartTime = proposals[p].VotingStartTime
        /\ prop.VotingEndTime >= proposals[p].VotingEndTime
    BY <1>3, <1>4 DEF Proposal
  <2> QED
    BY <1>1, <1>3, <2>1, <2>2, RewriteMoves
<1>7. CASE ExtendVotingPeriod(signer, p)
  <2> DEFINE end == proposals[p].VotingEndTime + ExtensionDuration
             times == proposals[p].TimesVotingPeriodExtended + 1
             prop == [proposals[p] EXCEPT !.VotingEndTime = end,
                                          !.TimesVotingPeriodExtended = times]
  <2>1. SetProposal(p, prop)
    BY <1>7 DEF ExtendVotingPeriod, RewriteProposal, NewEndTime
  <2>2. end >= proposals[p].VotingEndTime
    BY <1>4, DaoAssumption
  <2> HIDE DEF end, times
  <2>3. /\ prop.Status = "VotingPeriod"
        /\ prop.VotingStartTime = proposals[p].VotingStartTime
        /\ prop.VotingEndTime = end
    BY <1>3, <1>4 DEF Proposal
  <2> QED
    BY <1>1, <1>3, <2>1, <2>2, <2>3, RewriteMoves
<1>8. CASE \E burnDeposit \in BOOLEAN : VetoProposal(signer, p, burnDeposit)
  <2>1. SetProposal(p, [proposals[p] EXCEPT !.Status = "Vetoed"])
    BY <1>8 DEF VetoProposal
  <2> QED
    BY <1>1, <1>3, <2>1, ClosingMoves DEF Final
<1> QED
  BY <1>2, <1>5, <1>6, <1>7, <1>8

LEMMA EndBlockerMoves ==
    ASSUME PositiveQuorum, Inv, EndBlocker
    PROVE  AllMove
<1>1. TypeOK
  BY DEF Inv
<1>2. ASSUME UNCHANGED proposals PROVE AllMove
  BY <1>2 DEF AllMove, ProposalMoves
<1>3. CASE BeginEndBlock \/ InactiveWalked \/ QuorumWalked \/ ActiveWalked
  BY <1>2, <1>3 DEF BeginEndBlock, InactiveWalked, QuorumWalked, ActiveWalked, proposalVars
<1>4. ASSUME NEW e \in inactiveQueue, ActivateDue(e) PROVE AllMove
  <2>1. e.id \in ProposalIds /\ proposals[e.id].Status = "DepositPeriod"
    BY InactiveDue
  <2>2. proposals[e.id] \in Proposal
    BY <1>1, <2>1 DEF TypeOK
  <2> DEFINE prop == [proposals[e.id] EXCEPT !.Status = "VotingPeriod", !.VotingStartTime = now,
                                             !.VotingEndTime = now + params.VotingPeriod]
  <2>3. proposals' = [proposals EXCEPT ![e.id] = prop]
    BY <1>4 DEF ActivateDue, ActivateVotingPeriod, SetProposal
  <2>4. prop.Status = "VotingPeriod"
    BY <2>2 DEF Proposal
  <2> HIDE DEF prop
  <2> QED
    BY <1>1, <2>1, <2>3, <2>4, OneMoves DEF ProposalMoves, Live
<1>5. ASSUME NEW e \in inactiveQueue, DropDue(e) PROVE AllMove
  <2>1. e.id \in ProposalIds /\ proposals[e.id].Status = "DepositPeriod"
    BY InactiveDue
  <2>2. proposals' = [proposals EXCEPT ![e.id] = NoProposal]
    BY <1>5 DEF DropDue, SetProposal
  <2> QED
    BY <1>1, <2>1, <2>2, OneMoves DEF ProposalMoves, NoProposal
<1>6. ASSUME NEW e \in quorumQueue, CheckQuorumReached(e) PROVE AllMove
  <2> DEFINE end == now + params.MaxVotingPeriodExtension
             prop == [proposals[e.id] EXCEPT !.VotingEndTime = end]
  <2>1. CASE UNCHANGED proposals
    BY <1>2, <2>1
  <2>2. CASE LateQuorumExtends(e) /\ SetProposal(e.id, prop)
    <3>1. /\ e.id \in ProposalIds /\ proposals[e.id] \in Proposal
          /\ proposals[e.id].Status \in {"VotingPeriod", "Vetoed"}
      BY CheckFacts
    <3>2. proposals[e.id].Status = "VotingPeriod"
      BY <1>6, <3>1, VetoedMissesQuorum DEF CheckQuorumReached
    <3>3. end > proposals[e.id].VotingEndTime /\ end \in Int /\ proposals[e.id].VotingEndTime \in Nat
      BY <1>1, <2>2, <3>1, ParamsFacts DEF LateQuorumExtends, TypeOK, Proposal
    <3> HIDE DEF end
    <3>4. /\ prop.Status = "VotingPeriod"
          /\ prop.VotingStartTime = proposals[e.id].VotingStartTime
          /\ prop.VotingEndTime = end
      BY <3>1, <3>2 DEF Proposal
    <3> HIDE DEF prop
    <3>5. prop.VotingEndTime >= proposals[e.id].VotingEndTime
      BY <3>3, <3>4
    <3>6. SetProposal(e.id, prop)
      BY <2>2
    <3> QED
      BY <1>1, <3>1, <3>2, <3>4, <3>5, <3>6, RewriteMoves
  <2> QED
    BY <1>6, <2>1, <2>2 DEF CheckQuorumReached
<1>7. ASSUME NEW e \in quorumQueue, CheckQuorumMissed(e) \/ CheckQuorumError(e) PROVE AllMove
  BY <1>2, <1>7 DEF CheckQuorumMissed, CheckQuorumError, proposalVars
<1>8. ASSUME NEW e \in activeQueue, TallyDue(e) \/ TallyDueError(e) PROVE AllMove
  <2>1. e.id \in ProposalIds /\ proposals[e.id].Status = "VotingPeriod"
    BY ActiveDue
  <2>2. PICK status \in Final :
           SetProposal(e.id, [proposals[e.id] EXCEPT !.Status = status])
    <3>1. ASSUME NEW status \in Final, NEW burn, NEW part, CloseVoting(e.id, status, burn, part)
          PROVE  \E s \in Final : SetProposal(e.id, [proposals[e.id] EXCEPT !.Status = s])
      BY <3>1 DEF CloseVoting
    <3>2. CASE TallyDueError(e)
      BY <3>1, <3>2 DEF TallyDueError, Final
    <3>3. CASE TallyDue(e)
      <4>1. PICK status \in Final, burn \in {TRUE, FALSE, BurnsDeposits(votes[e.id], Power,
                   TotalBonded, ProposalQuorum(e.id), GetThreshold(params,
                   proposals[e.id].Content.kinds, proposals[e.id].Endorsed), params)} :
               CloseVoting(e.id, status, burn, Participation(votes[e.id], Power, TotalBonded))
        BY <3>3 DEF TallyDue, Final
      <4> QED
        BY <3>1, <4>1
    <3> QED
      BY <1>8, <3>2, <3>3
  <2> QED
    BY <1>1, <2>1, <2>2, ClosingMoves
<1> QED
  BY <1>3, <1>4, <1>5, <1>6, <1>7, <1>8 DEF EndBlocker

\* Every proposal moves as ProposalMoves says, in every step.
LEMMA StepMoves ==
    ASSUME PositiveQuorum, Inv, [Next]_vars
    PROVE  AllMove
<1>1. ASSUME UNCHANGED proposals PROVE AllMove
  BY <1>1 DEF AllMove, ProposalMoves
<1>2. CASE \E gap \in BlockGaps : NextBlock(gap)
  BY <1>1, <1>2 DEF NextBlock, proposalVars
<1>3. CASE UNCHANGED vars
  BY <1>1, <1>3 DEF vars, proposalVars
<1> QED
  BY <1>2, <1>3, TransactionMoves, DaoMoves, EndBlockerMoves DEF Next

\* A proposal that has ended never changes again.
THEOREM EndedStaysEnded ==
    ASSUME PositiveQuorum
    PROVE  Spec => FinalIsFinal
<1>1. Inv /\ [Next]_vars => [\A p \in Ids(Final) : proposals'[p] = proposals[p]]_vars
  BY StepMoves DEF AllMove, ProposalMoves, Ids, Final, Live
<1> QED
  BY <1>1, Invariance, PTL DEF Spec, FinalIsFinal

\* The voting end of a running proposal never moves back, nor does its start move.
THEOREM VotingEndMovesForward ==
    ASSUME PositiveQuorum
    PROVE  Spec => VotingEndOnlyExtends
<1>1. Inv /\ [Next]_vars =>
         [\A p \in Ids({"VotingPeriod"}) :
             /\ proposals[p].VotingEndTime <= proposals'[p].VotingEndTime
             /\ proposals[p].VotingStartTime = proposals'[p].VotingStartTime]_vars
  <2> SUFFICES ASSUME Inv, [Next]_vars, NEW p \in Ids({"VotingPeriod"})
               PROVE  /\ proposals[p].VotingEndTime <= proposals'[p].VotingEndTime
                      /\ proposals[p].VotingStartTime = proposals'[p].VotingStartTime
    OBVIOUS
  <2>1. p \in ProposalIds /\ proposals[p].Status = "VotingPeriod"
    BY DEF Ids
  <2>2. Inv'
    BY NextInv
  <2>3. proposals[p].VotingEndTime \in Nat /\ proposals'[p].VotingEndTime \in Nat
    BY <2>1, <2>2 DEF Inv, TypeOK, Proposal
  <2>4. ProposalMoves(proposals[p], proposals'[p])
    BY <2>1, StepMoves DEF AllMove
  <2> QED
    BY <2>1, <2>3, <2>4 DEF ProposalMoves
<1> QED
  BY <1>1, Invariance, PTL DEF Spec, VotingEndOnlyExtends

-----------------------------------------------------------------------------
(* Insertions into the queues *)

\* The insertions of EndBlocker.
LEMMA EndBlockerInserts ==
    ASSUME PositiveExtension, Inv, EndBlocker, phase \in {"quorum", "active"},
           NEW f \in (quorumQueue' \ quorumQueue) \cup (activeQueue' \ activeQueue)
                        \cup (inactiveQueue' \ inactiveQueue)
    PROVE  f.time > now
<1>1. TypeOK
  BY DEF Inv
<1>2. CASE BeginEndBlock \/ InactiveWalked \/ QuorumWalked \/ ActiveWalked
  BY <1>2 DEF BeginEndBlock, InactiveWalked, QuorumWalked, ActiveWalked, queueVars, InTx
<1>3. CASE \E e \in inactiveQueue : ActivateDue(e) \/ DropDue(e)
  BY <1>3 DEF ActivateDue, DropDue, Walking
<1>4. ASSUME NEW e \in quorumQueue, CheckQuorumReached(e) PROVE f.time > now
  <2> DEFINE end == now + params.MaxVotingPeriodExtension
  <2>1. /\ quorumQueue' = quorumQueue \ {e} /\ inactiveQueue' = inactiveQueue
        /\ \/ activeQueue' = activeQueue
           \/ /\ LateQuorumExtends(e)
              /\ activeQueue' = (activeQueue \ {Key(e.id, proposals[e.id].VotingEndTime)})
                                   \cup {Key(e.id, end)}
    BY <1>4 DEF CheckQuorumReached, MoveActiveKey
  <2>2. LateQuorumExtends(e) => end > now
    BY <1>1, ParamsFacts DEF PositiveExtension, TypeOK, LateQuorumExtends
  <2> HIDE DEF end
  <2>3. f = Key(e.id, end) /\ LateQuorumExtends(e)
    BY <2>1
  <2> QED
    BY <2>2, <2>3 DEF Key
<1>5. ASSUME NEW e \in quorumQueue, CheckQuorumMissed(e) PROVE f.time > now
  <2> DEFINE entry == [e EXCEPT !.time = NextCheckTime(e), !.QuorumChecksDone = @ + 1]
  <2>1. /\ inactiveQueue' = inactiveQueue /\ activeQueue' = activeQueue
        /\ \/ quorumQueue' \subseteq quorumQueue
           \/ /\ quorumQueue' = (quorumQueue \ {e}) \cup {entry}
              /\ proposals[e.id].VotingEndTime > now /\ CheckInterval(e) # 0
    BY <1>5 DEF CheckQuorumMissed
  <2>2. /\ e \in QuorumKey
        /\ CheckInterval(e) # 0 /\ proposals[e.id].VotingEndTime > now => NextCheckTime(e) > now
    BY CheckFacts, NextCheckFacts
  <2>3. entry.time = NextCheckTime(e)
    BY <2>2 DEF QuorumKey
  <2> HIDE DEF entry
  <2> QED
    BY <2>1, <2>2, <2>3
<1>6. ASSUME NEW e \in quorumQueue, CheckQuorumError(e) PROVE f.time > now
  BY <1>6 DEF CheckQuorumError
<1>7. ASSUME NEW e \in activeQueue, TallyDue(e) \/ TallyDueError(e) PROVE f.time > now
  <2>1. ASSUME NEW status, NEW burn, NEW part, CloseVoting(e.id, status, burn, part)
        PROVE  /\ inactiveQueue' = inactiveQueue /\ quorumQueue' = quorumQueue
               /\ activeQueue' \subseteq activeQueue
    BY <2>1 DEF CloseVoting
  <2> QED
    BY <1>7, <2>1 DEF TallyDue, TallyDueError
<1> QED
  BY <1>2, <1>3, <1>4, <1>5, <1>6, <1>7 DEF EndBlocker

\* Whatever EndBlocker inserts into the queue it walks lies in the future, so its loops
\* visit no entry twice and end.
THEOREM InsertionsInFuture ==
    ASSUME PositiveQuorum, PositiveExtension
    PROVE  Spec => InsertsInFuture
<1>1. Inv /\ [Next]_vars =>
         [\A e \in (quorumQueue' \ quorumQueue) \cup (activeQueue' \ activeQueue)
                      \cup (inactiveQueue' \ inactiveQueue) :
             phase \in {"quorum", "active"} => e.time > now]_vars
  <2> SUFFICES ASSUME Inv, Next, phase \in {"quorum", "active"},
                      NEW e \in (quorumQueue' \ quorumQueue) \cup (activeQueue' \ activeQueue)
                                   \cup (inactiveQueue' \ inactiveQueue)
               PROVE  e.time > now
    OBVIOUS
  <2>1. ~Transaction
    BY DEF Transaction, SubmitProposal, Deposit, AddVote, InTx
  <2>2. ~DaoTransaction
    BY DEF DaoTransaction, AnnotateProposal, EndorseProposal, ExtendVotingPeriod,
           VetoProposal, InTx
  <2>3. \A gap \in BlockGaps : ~NextBlock(gap)
    BY DEF NextBlock, Walking
  <2> QED
    BY <2>1, <2>2, <2>3, EndBlockerInserts DEF Next
<1> QED
  BY <1>1, Invariance, PTL DEF Spec, InsertsInFuture

-----------------------------------------------------------------------------
(* Votes *)

\* There are votes only in the voting period.
VotesInVoting ==
    \A p \in ProposalIds :
       proposals[p].Status # "VotingPeriod" => \A v \in Voters : votes[p][v] = NoVote

\* The staking module does not fail, so no tally leaves votes behind.
NoStakingErrors == TRUE \notin StakingErrors

\* A step that keeps the votes and writes one proposal, which does not leave its voting
\* period.
LEMMA VotesKept ==
    ASSUME TypeOK, VotesInVoting, votes' = votes, NEW p \in ProposalIds, NEW prop,
           proposals' = [proposals EXCEPT ![p] = prop],
           proposals[p].Status = "VotingPeriod" => prop.Status = "VotingPeriod"
    PROVE  VotesInVoting'
<1>1. \A q \in ProposalIds : proposals'[q] = IF q = p THEN prop ELSE proposals[q]
  BY DEF TypeOK
<1> QED
  BY <1>1 DEF VotesInVoting

\* A step that deletes the votes of the one proposal it writes.
LEMMA VotesDeleted ==
    ASSUME TypeOK, VotesInVoting, NEW p \in ProposalIds, NEW prop, DeleteVotes(p),
           SetProposal(p, prop)
    PROVE  VotesInVoting'
<1>1. \A q \in ProposalIds : proposals'[q] = IF q = p THEN prop ELSE proposals[q]
  BY DEF TypeOK, SetProposal
<1>2. \A q \in ProposalIds :
         votes'[q] = IF q = p THEN [v \in Voters |-> NoVote] ELSE votes[q]
  BY DEF TypeOK, DeleteVotes
<1> QED
  BY <1>1, <1>2 DEF VotesInVoting

LEMMA VotesUnchanged ==
    ASSUME VotesInVoting, UNCHANGED <<proposals, votes>>
    PROVE  VotesInVoting'
BY DEF VotesInVoting

LEMMA TransactionVotes ==
    ASSUME Inv, VotesInVoting, Transaction
    PROVE  VotesInVoting'
<1>1. TypeOK /\ FreeIds /\ QueuesMatchProposals
  BY DEF Inv
<1>2. ASSUME NEW a \in Accounts, NEW content \in Contents, NEW amount \in Amounts,
             SubmitProposal(a, content, amount)
      PROVE  VotesInVoting'
  <2> DEFINE p == proposalID
             prop == [NoProposal EXCEPT !.Status = "DepositPeriod", !.Content = content,
                                        !.DepositEndTime = now + params.MaxDepositPeriod]
             queue == inactiveQueue \cup {Key(p, prop.DepositEndTime)}
             num == Increment(inactiveNumber)
  <2>1. p \in ProposalIds /\ proposals[p].Status = "None" /\ votes' = votes
    BY <1>1, <1>2, InstanceAssumption DEF TypeOK, FreeIds, SubmitProposal, ProposalIds
  <2>2. prop \in Proposal
    <3>1. now + params.MaxDepositPeriod \in Nat
      BY <1>1, ParamsAssumption DEF TypeOK, ParamsType
    <3> QED
      BY <3>1 DEF NoProposal, Proposal, Statuses
  <2>3. AddDeposit(p, prop, queue, num, a, amount, TRUE)
    BY <1>2 DEF SubmitProposal
  <2> HIDE DEF prop, p, queue, num
  <2>4. PICK new : proposals' = [proposals EXCEPT ![p] = new]
    BY <1>1, <2>1, <2>2, <2>3, AddDepositMoves
  <2> QED
    BY <1>1, <2>1, <2>4, VotesKept
<1>3. ASSUME NEW a \in Accounts, NEW p \in ProposalIds, NEW amount \in Amounts,
             Deposit(a, p, amount)
      PROVE  VotesInVoting'
  <2>1. proposals[p] \in Proposal
    BY <1>1 DEF TypeOK
  <2>2. /\ AddDeposit(p, proposals[p], inactiveQueue, inactiveNumber, a, amount, FALSE)
        /\ votes' = votes
    BY <1>3 DEF Deposit
  <2>3. PICK new : /\ proposals' = [proposals EXCEPT ![p] = new]
                   /\ proposals[p].Status = "VotingPeriod" => new.Status = "VotingPeriod"
    BY <1>1, <2>1, <2>2, AddDepositMoves
  <2> QED
    BY <1>1, <2>2, <2>3, VotesKept
<1>4. ASSUME NEW v \in Voters, NEW p \in ProposalIds, NEW option \in VoteOptions,
             AddVote(v, p, option)
      PROVE  VotesInVoting'
  <2>1. /\ proposals[p].Status = "VotingPeriod" /\ proposals' = proposals
        /\ votes' = [votes EXCEPT ![p][v] = option]
    BY <1>1, <1>4 DEF AddVote, QueuesMatchProposals, Ids, proposalVars
  <2>2. \A q \in ProposalIds : q # p => votes'[q] = votes[q]
    BY <1>1, <2>1 DEF TypeOK
  <2> QED
    BY <2>1, <2>2 DEF VotesInVoting
<1> QED
  BY <1>2, <1>3, <1>4 DEF Transaction

LEMMA DaoVotes ==
    ASSUME Inv, VotesInVoting, DaoTransaction
    PROVE  VotesInVoting'
<1>1. PICK signer \in Signers, p \in ProposalIds :
         \/ \E overwrite \in BOOLEAN : AnnotateProposal(signer, p, overwrite)
         \/ EndorseProposal(signer, p)
         \/ ExtendVotingPeriod(signer, p)
         \/ \E burnDeposit \in BOOLEAN : VetoProposal(signer, p, burnDeposit)
  BY DEF DaoTransaction
<1>2. TypeOK /\ proposals[p].Status = "VotingPeriod" /\ proposals[p] \in Proposal
  BY <1>1 DEF AnnotateProposal, EndorseProposal, ExtendVotingPeriod, VetoProposal,
     InVotingPeriod, Inv, TypeOK
<1>3. ASSUME NEW prop, RewriteProposal(p, prop), prop.Status = "VotingPeriod"
      PROVE  VotesInVoting'
  BY <1>2, <1>3, VotesKept DEF RewriteProposal, SetProposal
<1>4. CASE \E overwrite \in BOOLEAN : AnnotateProposal(signer, p, overwrite)
  <2>1. [proposals[p] EXCEPT !.Annotation = TRUE].Status = "VotingPeriod"
    BY <1>2 DEF Proposal
  <2> QED
    BY <1>3, <1>4, <2>1 DEF AnnotateProposal
<1>5. CASE EndorseProposal(signer, p)
  <2>1. [proposals[p] EXCEPT !.Endorsed = TRUE].Status = "VotingPeriod"
    BY <1>2 DEF Proposal
  <2> QED
    BY <1>3, <1>5, <2>1 DEF EndorseProposal
<1>6. CASE ExtendVotingPeriod(signer, p)
  <2> DEFINE end == NewEndTime(proposals[p])
             times == proposals[p].TimesVotingPeriodExtended + 1
             prop == [proposals[p] EXCEPT !.VotingEndTime = end,
                                          !.TimesVotingPeriodExtended = times]
  <2>1. RewriteProposal(p, prop)
    BY <1>6 DEF ExtendVotingPeriod
  <2> HIDE DEF end, times
  <2>2. prop.Status = "VotingPeriod"
    BY <1>2 DEF Proposal
  <2> QED
    BY <1>3, <2>1, <2>2
<1>7. CASE \E burnDeposit \in BOOLEAN : VetoProposal(signer, p, burnDeposit)
  <2>1. DeleteVotes(p) /\ SetProposal(p, [proposals[p] EXCEPT !.Status = "Vetoed"])
    BY <1>7 DEF VetoProposal
  <2> QED
    BY <1>2, <2>1, VotesDeleted
<1> QED
  BY <1>1, <1>4, <1>5, <1>6, <1>7

LEMMA EndBlockerVotes ==
    ASSUME PositiveQuorum, NoStakingErrors, Inv, VotesInVoting, EndBlocker
    PROVE  VotesInVoting'
<1>1. TypeOK
  BY DEF Inv
<1>2. CASE BeginEndBlock \/ InactiveWalked \/ QuorumWalked \/ ActiveWalked
  BY <1>2, VotesUnchanged
     DEF BeginEndBlock, InactiveWalked, QuorumWalked, ActiveWalked, proposalVars
<1>3. ASSUME NEW e \in inactiveQueue, ActivateDue(e) \/ DropDue(e) PROVE VotesInVoting'
  <2>1. e.id \in ProposalIds /\ proposals[e.id].Status = "DepositPeriod"
    BY InactiveDue
  <2>2. votes' = votes /\ \E prop : proposals' = [proposals EXCEPT ![e.id] = prop]
    BY <1>3 DEF ActivateDue, ActivateVotingPeriod, DropDue, SetProposal
  <2> QED
    BY <1>1, <2>1, <2>2, VotesKept
<1>4. ASSUME NEW e \in quorumQueue, CheckQuorumReached(e) PROVE VotesInVoting'
  <2>1. /\ e.id \in ProposalIds /\ proposals[e.id] \in Proposal
        /\ proposals[e.id].Status = "VotingPeriod"
    BY <1>4, CheckFacts, VetoedMissesQuorum DEF CheckQuorumReached
  <2> DEFINE end == now + params.MaxVotingPeriodExtension
             prop == [proposals[e.id] EXCEPT !.VotingEndTime = end]
  <2>2. /\ votes' = votes
        /\ UNCHANGED proposals \/ proposals' = [proposals EXCEPT ![e.id] = prop]
    BY <1>4 DEF CheckQuorumReached, SetProposal
  <2> HIDE DEF end
  <2>3. prop.Status = "VotingPeriod"
    BY <2>1 DEF Proposal
  <2> HIDE DEF prop
  <2> QED
    BY <1>1, <2>1, <2>2, <2>3, VotesKept, VotesUnchanged
<1>5. ASSUME NEW e \in quorumQueue, CheckQuorumMissed(e) \/ CheckQuorumError(e)
      PROVE  VotesInVoting'
  BY <1>5, VotesUnchanged DEF CheckQuorumMissed, CheckQuorumError, proposalVars
<1>6. ASSUME NEW e \in activeQueue, TallyDue(e) PROVE VotesInVoting'
  <2>1. e.id \in ProposalIds
    BY ActiveDue
  <2>2. DeleteVotes(e.id) /\ \E prop : SetProposal(e.id, prop)
    BY <1>6 DEF TallyDue, CloseVoting
  <2> QED
    BY <1>1, <2>1, <2>2, VotesDeleted
<1>7. \A e \in activeQueue : ~TallyDueError(e)
  BY DEF TallyDueError, NoStakingErrors
<1> QED
  BY <1>2, <1>3, <1>4, <1>5, <1>6, <1>7 DEF EndBlocker

\* As long as the staking module does not fail during a tally, a proposal that is over
\* holds neither deposits nor votes.
THEOREM NothingLeftBehind ==
    ASSUME PositiveQuorum, NoStakingErrors
    PROVE  Spec => []SettledHoldsNothing
<1>1. Init => VotesInVoting
  BY DEF Init, VotesInVoting
<1>2. Inv /\ VotesInVoting /\ [Next]_vars => VotesInVoting'
  <2> SUFFICES ASSUME Inv, VotesInVoting, [Next]_vars PROVE VotesInVoting'
    OBVIOUS
  <2>1. CASE \E gap \in BlockGaps : NextBlock(gap)
    BY <2>1, VotesUnchanged DEF NextBlock, proposalVars
  <2>2. CASE UNCHANGED vars
    BY <2>2, VotesUnchanged DEF vars, proposalVars
  <2> QED
    BY <2>1, <2>2, TransactionVotes, DaoVotes, EndBlockerVotes DEF Next
<1>3. Inv /\ VotesInVoting => SettledHoldsNothing
  BY DEF Inv, VotesInVoting, SettledHoldsNothing
<1> QED
  BY <1>1, <1>2, <1>3, Invariance, PTL DEF Spec

-----------------------------------------------------------------------------
(* The parameters *)

\* A transaction of an account leaves the parameters alone.
LEMMA TransactionKeepsParams ==
    ASSUME Transaction
    PROVE  params' = params
<1>1. ASSUME NEW a \in Accounts, NEW content \in Contents, NEW amount \in Amounts,
             SubmitProposal(a, content, amount)
      PROVE  params' = params
  BY <1>1 DEF SubmitProposal
<1>2. ASSUME NEW a \in Accounts, NEW p \in ProposalIds, NEW amount \in Amounts,
             Deposit(a, p, amount)
      PROVE  params' = params
  BY <1>2 DEF Deposit, AddDeposit
<1>3. ASSUME NEW v \in Voters, NEW p \in ProposalIds, NEW option \in VoteOptions,
             AddVote(v, p, option)
      PROVE  params' = params
  BY <1>3 DEF AddVote
<1> QED
  BY <1>1, <1>2, <1>3 DEF Transaction

\* So does a message of a DAO.
LEMMA DaoKeepsParams ==
    ASSUME DaoTransaction
    PROVE  params' = params
<1>1. PICK signer \in Signers, p \in ProposalIds :
         \/ \E overwrite \in BOOLEAN : AnnotateProposal(signer, p, overwrite)
         \/ EndorseProposal(signer, p)
         \/ ExtendVotingPeriod(signer, p)
         \/ \E burnDeposit \in BOOLEAN : VetoProposal(signer, p, burnDeposit)
  BY DEF DaoTransaction
<1> QED
  BY <1>1 DEF AnnotateProposal, EndorseProposal, ExtendVotingPeriod, VetoProposal, RewriteProposal

\* The tally of a passing proposal is the one step that changes parameters.
LEMMA TallyInstalls ==
    ASSUME Inv, NEW e \in activeQueue, TallyDue(e), params' # params
    PROVE  \E p \in Ids({"VotingPeriod"}) : /\ proposals'[p].Status = "Passed"
                                            /\ proposals[p].Content.params = params'
<1>1. TypeOK
  BY DEF Inv
<1>2. e.id \in ProposalIds /\ proposals[e.id].Status = "VotingPeriod"
  BY ActiveDue DEF TallyDue
<1> DEFINE prop == proposals[e.id]
<1>3. ExecuteMessages(prop.Content) /\ ~prop.Content.fails /\ params' = prop.Content.params
  BY DEF TallyDue, ExecuteMessages
<1>4. SetProposal(e.id, [prop EXCEPT !.Status = "Passed"])
  BY <1>3 DEF TallyDue, CloseVoting
<1>5. prop \in Proposal
  BY <1>1, <1>2 DEF TypeOK
<1>6. proposals'[e.id].Status = "Passed"
  BY <1>1, <1>2, <1>4, <1>5 DEF SetProposal, TypeOK, Proposal
<1> QED
  BY <1>2, <1>3, <1>6 DEF Ids

\* Parameters change only in the step that passes the proposal carrying them, and then
\* become what it carries: neither a failing message, a rejection, a veto nor any
\* transaction touches them.
THEOREM ParamsChangeByTally ==
    ASSUME PositiveQuorum
    PROVE  Spec => OnlyPassedProposalsAct
<1>1. Inv /\ [Next]_vars =>
         [params' # params =>
            \E p \in Ids({"VotingPeriod"}) : /\ proposals'[p].Status = "Passed"
                                             /\ proposals[p].Content.params = params']_vars
  <2> SUFFICES ASSUME Inv, Next, params' # params
               PROVE  \E p \in Ids({"VotingPeriod"}) :
                         /\ proposals'[p].Status = "Passed"
                         /\ proposals[p].Content.params = params'
    OBVIOUS
  <2>1. EndBlocker
    BY TransactionKeepsParams, DaoKeepsParams DEF Next, NextBlock
  <2>2. ASSUME NEW e \in inactiveQueue, ActivateDue(e) \/ DropDue(e) PROVE params' = params
    BY <2>2 DEF ActivateDue, DropDue
  <2>3. ASSUME NEW e \in quorumQueue,
               CheckQuorumReached(e) \/ CheckQuorumMissed(e) \/ CheckQuorumError(e)
        PROVE  params' = params
    BY <2>3 DEF CheckQuorumReached, CheckQuorumMissed, CheckQuorumError
  <2>4. ASSUME NEW e \in activeQueue, TallyDueError(e) PROVE params' = params
    BY <2>4 DEF TallyDueError
  <2>5. PICK e \in activeQueue : TallyDue(e)
    BY <2>1, <2>2, <2>3, <2>4 DEF EndBlocker, BeginEndBlock, InactiveWalked, QuorumWalked,
                                  ActiveWalked
  <2> QED
    BY <2>5, TallyInstalls
<1> QED
  BY <1>1, Invariance, PTL DEF Spec, OnlyPassedProposalsAct

-----------------------------------------------------------------------------
(* The throttlers *)

\* Scaling down clamps at the floor or does not rise, scaling up does not fall.
LEMMA ScaledMinDeposit ==
    ASSUME NEW floor \in Nat, NEW last \in Nat, NEW percChange \in Int
    PROVE  LET new == GetNewMinDeposit(floor, last, percChange)
           IN  /\ new \in Nat /\ new >= floor
               /\ percChange <= One => new = floor \/ new <= last
               /\ percChange >= One => new >= last
<1> DEFINE x == last * percChange
           scaled == x \div 100
<1>1. x \in Int /\ (percChange <= 100 => x <= 100 * last) /\ (percChange >= 100 => x >= 100 * last)
  OBVIOUS
<1> HIDE DEF x
<1>2. /\ scaled \in Int
      /\ percChange <= 100 => scaled <= last
      /\ percChange >= 100 => scaled >= last
  BY <1>1
<1>3. GetNewMinDeposit(floor, last, percChange) = IF scaled < floor THEN floor ELSE scaled
  BY DEF GetNewMinDeposit, One, x
<1> HIDE DEF scaled
<1> QED
  BY <1>2, <1>3 DEF One

\* The update for one more proposal, and the time-based one.
UpdateForOneMore(th, last, num, t) == UpdateMinDeposit(th, last, num, t, FALSE)
UpdateInTime(th, last, num, t)     == UpdateMinDeposit(th, last, num, t, TRUE)

\* What the two updates do to a throttled value.
LEMMA UpdateThrottled ==
    ASSUME NEW th \in ThrottlerParams, NEW last \in LastMinDeposit, NEW num \in Nat,
           NEW t \in Nat
    PROVE  LET more == UpdateForOneMore(th, last, num, t)
               timed == UpdateInTime(th, last, num, t)
               room == num < th.TargetProposals /\ t - last.Time >= th.UpdatePeriod
           IN  /\ more.Value \in Nat /\ timed.Value \in Nat
               /\ more.Value >= last.Value
               /\ more.Value > last.Value => num >= th.TargetProposals
               /\ timed.Value > last.Value => room /\ timed.Value = th.FloorValue
               /\ timed.Value < last.Value => room
               /\ more.Value # last.Value => more.Value >= th.FloorValue
               /\ timed.Value # last.Value => timed.Value >= th.FloorValue
<1> DEFINE more == UpdateForOneMore(th, last, num, t)
           timed == UpdateInTime(th, last, num, t)
           floor == th.FloorValue
           old == last.Value
           up == Increased(th, last, t)
           down == Decreased(th, last, num, t)
<1>1. floor \in Nat /\ old \in Nat /\ th.TargetProposals \in Nat
  BY DEF ThrottlerParams, LastMinDeposit
<1>2. up.Value \in Nat /\ up.Value >= floor /\ up.Value >= old
  <2>1. One + th.IncreaseRatio \in Int /\ One + th.IncreaseRatio >= One
    BY DEF One, ThrottlerParams
  <2>2. up.Value = GetNewMinDeposit(floor, old, One + th.IncreaseRatio)
    BY DEF Increased
  <2> HIDE DEF up, floor, old
  <2> QED
    BY <1>1, <2>1, <2>2, ScaledMinDeposit
<1>3. ASSUME num < th.TargetProposals
      PROVE  down.Value \in Nat /\ down.Value >= floor /\ (down.Value = floor \/ down.Value <= old)
  <2> DEFINE b == ApproxRoot(th.TargetProposals - num, th.Sensitivity)
             perc == One - (th.DecreaseRatio * b) \div One
  <2>1. b \in Nat
    BY <1>1, <1>3, ApproxRootType
  <2> HIDE DEF b
  <2>2. perc \in Int /\ perc <= One
    <3>1. th.DecreaseRatio * b \in Nat
      BY <2>1 DEF ThrottlerParams
    <3> QED
      BY <3>1 DEF One
  <2>3. down.Value = GetNewMinDeposit(floor, old, perc)
    BY DEF Decreased, b
  <2> HIDE DEF down, floor, old, perc
  <2> QED
    BY <1>1, <2>2, <2>3, ScaledMinDeposit
<1>4. /\ more = last \/ (num >= th.TargetProposals /\ more = up)
      /\ \/ timed = last
         \/ num < th.TargetProposals /\ t - last.Time >= th.UpdatePeriod /\ timed = down
  <2>1. num < th.TargetProposals <=> ~(num >= th.TargetProposals)
    BY <1>1
  <2> QED
    BY <2>1 DEF UpdateMinDeposit, UpdateForOneMore, UpdateInTime
<1> HIDE DEF more, timed, up, down
<1> QED
  BY <1>1, <1>2, <1>3, <1>4 DEF more, timed

\* The same of the values that a step stores.
LEMMA StoredInTime ==
    ASSUME NEW th \in ThrottlerParams, NEW last \in LastMinDeposit, NEW num \in Nat,
           NEW t \in Nat, NEW new, new = UpdateInTime(th, last, num, t)
    PROVE  /\ new.Value > last.Value =>
                 /\ num < th.TargetProposals /\ t - last.Time >= th.UpdatePeriod
                 /\ new.Value = th.FloorValue
           /\ new.Value < last.Value =>
                 num < th.TargetProposals /\ t - last.Time >= th.UpdatePeriod
           /\ new.Value # last.Value => new.Value >= th.FloorValue
BY UpdateThrottled

LEMMA StoredForOneMore ==
    ASSUME NEW th \in ThrottlerParams, NEW last \in LastMinDeposit, NEW num \in Nat,
           NEW t \in Nat, NEW new, new = UpdateForOneMore(th, last, num + 1, t)
    PROVE  /\ new.Value > last.Value => num + 1 >= th.TargetProposals
           /\ ~(new.Value < last.Value)
           /\ new.Value # last.Value => new.Value >= th.FloorValue
<1>1. num + 1 \in Nat /\ last.Value \in Nat
  BY DEF LastMinDeposit
<1> QED
  BY <1>1, UpdateThrottled

\* The step adds a proposal to the voting period, or to the store.
EntersVoting == votingPeriodKeys' \ votingPeriodKeys # {}
Submits      == proposalID' > proposalID

\* The minimum deposit, or the minimum initial deposit, of this step.
DepositThrottled ==
    ThrottledBy(params.MinDepositThrottler, lastMinDeposit, lastMinDeposit',
                activeNumber, activeNumber', EntersVoting)
InitialThrottled ==
    ThrottledBy(params.MinInitialDepositThrottler, lastMinInitialDeposit,
                lastMinInitialDeposit', inactiveNumber, inactiveNumber', Submits)

\* A value that stays, a time-based update of a step that adds no proposal, and an update
\* for a proposal that the step adds follow the rules.
LEMMA ThrottleCases ==
    ASSUME TypeOK, activeNumber' \in Nat, inactiveNumber' \in Nat
    PROVE  /\ \/ lastMinDeposit'.Value = lastMinDeposit.Value
              \/ /\ ~EntersVoting
                 /\ lastMinDeposit' = MinDepositUpdate(activeNumber', TRUE)
              \/ /\ EntersVoting
                 /\ lastMinDeposit' = MinDepositUpdate(Increment(activeNumber), FALSE)
              => DepositThrottled
           /\ \/ lastMinInitialDeposit'.Value = lastMinInitialDeposit.Value
              \/ /\ ~Submits
                 /\ lastMinInitialDeposit' = MinInitialDepositUpdate(inactiveNumber', TRUE)
              \/ /\ Submits
                 /\ lastMinInitialDeposit' =
                       MinInitialDepositUpdate(Increment(inactiveNumber), FALSE)
              => InitialThrottled
<1>1. /\ params.MinDepositThrottler \in ThrottlerParams
      /\ params.MinInitialDepositThrottler \in ThrottlerParams
      /\ now \in Nat /\ activeNumber \in Nat /\ inactiveNumber \in Nat
      /\ lastMinDeposit \in LastMinDeposit /\ lastMinInitialDeposit \in LastMinDeposit
      /\ lastMinDeposit.Value \in Nat /\ lastMinInitialDeposit.Value \in Nat
  BY ParamsFacts DEF TypeOK, LastMinDeposit
<1>2. ASSUME lastMinDeposit'.Value = lastMinDeposit.Value
      PROVE  DepositThrottled
  BY <1>1, <1>2 DEF DepositThrottled, ThrottledBy
<1>3. ASSUME ~EntersVoting, lastMinDeposit' = MinDepositUpdate(activeNumber', TRUE)
      PROVE  DepositThrottled
  <2> DEFINE th  == params.MinDepositThrottler
             new == lastMinDeposit'
             n   == activeNumber'
  <2>1. new = UpdateInTime(th, lastMinDeposit, n, now) /\ th \in ThrottlerParams /\ n \in Nat
    BY <1>1, <1>3 DEF MinDepositUpdate, UpdateInTime
  <2> HIDE DEF th, new, n
  <2>2. /\ new.Value > lastMinDeposit.Value =>
              /\ n < th.TargetProposals /\ now - lastMinDeposit.Time >= th.UpdatePeriod
              /\ new.Value = th.FloorValue
        /\ new.Value < lastMinDeposit.Value =>
              n < th.TargetProposals /\ now - lastMinDeposit.Time >= th.UpdatePeriod
        /\ new.Value # lastMinDeposit.Value => new.Value >= th.FloorValue
    BY <1>1, <2>1, StoredInTime
  <2> QED
    BY <1>3, <2>2 DEF DepositThrottled, ThrottledBy, th, new, n
<1>4. ASSUME EntersVoting, lastMinDeposit' = MinDepositUpdate(Increment(activeNumber), FALSE)
      PROVE  DepositThrottled
  <2> DEFINE th  == params.MinDepositThrottler
             new == lastMinDeposit'
  <2>1. new = UpdateForOneMore(th, lastMinDeposit, activeNumber + 1, now) /\ th \in ThrottlerParams
    BY <1>1, <1>4 DEF MinDepositUpdate, UpdateForOneMore, Increment
  <2> HIDE DEF th, new
  <2>2. /\ new.Value > lastMinDeposit.Value => activeNumber + 1 >= th.TargetProposals
        /\ ~(new.Value < lastMinDeposit.Value)
        /\ new.Value # lastMinDeposit.Value => new.Value >= th.FloorValue
    BY <1>1, <2>1, StoredForOneMore
  <2> QED
    BY <1>4, <2>2 DEF DepositThrottled, ThrottledBy, th, new
<1>5. ASSUME lastMinInitialDeposit'.Value = lastMinInitialDeposit.Value
      PROVE  InitialThrottled
  BY <1>1, <1>5 DEF InitialThrottled, ThrottledBy
<1>6. ASSUME ~Submits, lastMinInitialDeposit' = MinInitialDepositUpdate(inactiveNumber', TRUE)
      PROVE  InitialThrottled
  <2> DEFINE th  == params.MinInitialDepositThrottler
             new == lastMinInitialDeposit'
             n   == inactiveNumber'
  <2>1. new = UpdateInTime(th, lastMinInitialDeposit, n, now) /\ th \in ThrottlerParams /\ n \in Nat
    BY <1>1, <1>6 DEF MinInitialDepositUpdate, UpdateInTime
  <2> HIDE DEF th, new, n
  <2>2. /\ new.Value > lastMinInitialDeposit.Value =>
              /\ n < th.TargetProposals /\ now - lastMinInitialDeposit.Time >= th.UpdatePeriod
              /\ new.Value = th.FloorValue
        /\ new.Value < lastMinInitialDeposit.Value =>
              n < th.TargetProposals /\ now - lastMinInitialDeposit.Time >= th.UpdatePeriod
        /\ new.Value # lastMinInitialDeposit.Value => new.Value >= th.FloorValue
    BY <1>1, <2>1, StoredInTime
  <2> QED
    BY <1>6, <2>2 DEF InitialThrottled, ThrottledBy, th, new, n
<1>7. ASSUME Submits, lastMinInitialDeposit' = MinInitialDepositUpdate(Increment(inactiveNumber), FALSE)
      PROVE  InitialThrottled
  <2> DEFINE th  == params.MinInitialDepositThrottler
             new == lastMinInitialDeposit'
  <2>1. new = UpdateForOneMore(th, lastMinInitialDeposit, inactiveNumber + 1, now) /\ th \in ThrottlerParams
    BY <1>1, <1>7 DEF MinInitialDepositUpdate, UpdateForOneMore, Increment
  <2> HIDE DEF th, new
  <2>2. /\ new.Value > lastMinInitialDeposit.Value => inactiveNumber + 1 >= th.TargetProposals
        /\ ~(new.Value < lastMinInitialDeposit.Value)
        /\ new.Value # lastMinInitialDeposit.Value => new.Value >= th.FloorValue
    BY <1>1, <2>1, StoredForOneMore
  <2> QED
    BY <1>7, <2>2 DEF InitialThrottled, ThrottledBy, th, new
<1> QED
  BY <1>2, <1>3, <1>4, <1>5, <1>6, <1>7

\* ActivateVotingPeriod adds a proposal to the voting period, and may raise the minimum
\* deposit for it.
LEMMA ActivationEnters ==
    ASSUME NEW p, NEW prop, NEW queue, NEW num, prop \in Proposal, p \notin votingPeriodKeys,
           ActivateVotingPeriod(p, prop, queue, num)
    PROVE  EntersVoting /\ lastMinDeposit' = MinDepositUpdate(Increment(activeNumber), FALSE)
<1> DEFINE new == [prop EXCEPT !.Status = "VotingPeriod", !.VotingStartTime = now,
                               !.VotingEndTime = now + params.VotingPeriod]
<1>1. new.Status = "VotingPeriod"
  BY DEF Proposal
<1>2. SetProposal(p, new) /\ lastMinDeposit' = MinDepositUpdate(Increment(activeNumber), FALSE)
  BY DEF ActivateVotingPeriod
<1> HIDE DEF new
<1> QED
  BY <1>1, <1>2 DEF EntersVoting, SetProposal

\* Adding a deposit writes the minimum deposit only to raise it for a proposal it activates.
LEMMA AddDepositThrottles ==
    ASSUME NEW p, NEW prop \in Proposal, NEW queue, NEW num, NEW a, NEW amount \in Nat,
           NEW skip, p \notin votingPeriodKeys \/ prop.Status # "DepositPeriod",
           AddDeposit(p, prop, queue, num, a, amount, skip)
    PROVE  \/ lastMinDeposit' = lastMinDeposit
           \/ EntersVoting /\ lastMinDeposit' = MinDepositUpdate(Increment(activeNumber), FALSE)
<1> DEFINE total  == prop.TotalDeposit + amount
           funded == [prop EXCEPT !.TotalDeposit = @ + amount]
<1>1. funded \in Proposal
  <2>1. total \in Nat
    BY DEF Proposal
  <2> HIDE DEF total
  <2>2. [prop EXCEPT !.TotalDeposit = total] \in Proposal
    BY <2>1 DEF Proposal
  <2> QED
    BY <2>2 DEF total
<1>2. \/ lastMinDeposit' = lastMinDeposit
      \/ prop.Status = "DepositPeriod" /\ ActivateVotingPeriod(p, funded, queue, num)
  BY DEF AddDeposit
<1> HIDE DEF funded
<1> QED
  BY <1>1, <1>2, ActivationEnters

\* Every step moves both values by the rules of ADR-003.
LEMMA StepThrottles ==
    ASSUME PositiveQuorum, Inv, Next
    PROVE  DepositThrottled /\ InitialThrottled
<1>1. TypeOK /\ Inv' /\ votingPeriodKeys = Ids({"VotingPeriod"})
  BY NextInv DEF Inv, QueuesMatchProposals
<1>2. activeNumber' \in Nat /\ inactiveNumber' \in Nat /\ proposalID \in Nat
  BY <1>1 DEF Inv, TypeOK
<1>3. ASSUME UNCHANGED throttleVars PROVE DepositThrottled /\ InitialThrottled
  BY <1>1, <1>2, <1>3, ThrottleCases DEF throttleVars
<1>4. CASE Transaction
  <2>1. ASSUME NEW a \in Accounts, NEW content \in Contents, NEW amount \in Amounts,
               SubmitProposal(a, content, amount)
        PROVE  DepositThrottled /\ InitialThrottled
    <3>1. lastMinInitialDeposit' = MinInitialDepositUpdate(Increment(inactiveNumber), FALSE)
      BY <2>1 DEF SubmitProposal
    <3>2. Submits
      BY <1>2, <2>1 DEF SubmitProposal, Submits
    <3>3. \/ lastMinDeposit' = lastMinDeposit
          \/ EntersVoting /\ lastMinDeposit' = MinDepositUpdate(Increment(activeNumber), FALSE)
      <4> DEFINE end  == now + params.MaxDepositPeriod
                 prop == [NoProposal EXCEPT !.Status = "DepositPeriod", !.Content = content,
                                            !.DepositEndTime = end]
      <4>1. AddDeposit(proposalID, prop, inactiveQueue \cup {Key(proposalID, prop.DepositEndTime)},
                       Increment(inactiveNumber), a, amount, TRUE)
        BY <2>1 DEF SubmitProposal
      <4>2. end \in Nat /\ amount \in Nat
        BY <1>1, ParamsFacts, InstanceAssumption DEF TypeOK
      <4> HIDE DEF end
      <4>3. prop \in Proposal
        BY <4>2 DEF NoProposal, Proposal, Statuses
      <4>4. proposalID \notin votingPeriodKeys
        <5>1. ASSUME proposalID \in ProposalIds PROVE proposals[proposalID].Status = "None"
          BY <1>2, <5>1 DEF Inv, FreeIds
        <5> QED
          BY <1>1, <5>1 DEF Ids
      <4> HIDE DEF prop
      <4> QED
        BY <4>1, <4>2, <4>3, <4>4, AddDepositThrottles
    <3> QED
      BY <1>1, <1>2, <3>1, <3>2, <3>3, ThrottleCases
  <2>2. ASSUME NEW a \in Accounts, NEW p \in ProposalIds, NEW amount \in Amounts,
               Deposit(a, p, amount)
        PROVE  DepositThrottled /\ InitialThrottled
    <3>1. lastMinInitialDeposit' = lastMinInitialDeposit
      BY <2>2 DEF Deposit
    <3>2. \/ lastMinDeposit' = lastMinDeposit
          \/ EntersVoting /\ lastMinDeposit' = MinDepositUpdate(Increment(activeNumber), FALSE)
      <4>1. /\ proposals[p] \in Proposal /\ amount \in Nat
            /\ p \notin votingPeriodKeys \/ proposals[p].Status # "DepositPeriod"
        BY <1>1, InstanceAssumption DEF TypeOK, Ids
      <4> QED
        BY <2>2, <4>1, AddDepositThrottles DEF Deposit
    <3> QED
      BY <1>1, <1>2, <3>1, <3>2, ThrottleCases
  <2>3. ASSUME NEW v \in Voters, NEW p \in ProposalIds, NEW option \in VoteOptions,
               AddVote(v, p, option)
        PROVE  DepositThrottled /\ InitialThrottled
    BY <1>3, <2>3 DEF AddVote
  <2> QED
    BY <1>4, <2>1, <2>2, <2>3 DEF Transaction
<1>5. CASE DaoTransaction
  <2>1. PICK signer \in Signers, p \in ProposalIds :
           \/ \E overwrite \in BOOLEAN : AnnotateProposal(signer, p, overwrite)
           \/ EndorseProposal(signer, p)
           \/ ExtendVotingPeriod(signer, p)
           \/ \E burnDeposit \in BOOLEAN : VetoProposal(signer, p, burnDeposit)
    BY <1>5 DEF DaoTransaction
  <2>2. CASE UNCHANGED throttleVars
    BY <1>3, <2>2
  <2>3. CASE \E burnDeposit \in BOOLEAN : VetoProposal(signer, p, burnDeposit)
    <3>1. /\ lastMinInitialDeposit' = MinInitialDepositUpdate(inactiveNumber', TRUE)
          /\ lastMinDeposit' = MinDepositUpdate(activeNumber', TRUE)
      BY <2>3 DEF VetoProposal
    <3>2. ~Submits
      BY <1>2, <2>3 DEF VetoProposal, Submits
    <3>3. ~EntersVoting
      <4>1. SetProposal(p, [proposals[p] EXCEPT !.Status = "Vetoed"])
        BY <2>3 DEF VetoProposal
      <4>2. [proposals[p] EXCEPT !.Status = "Vetoed"].Status = "Vetoed"
        BY <1>1 DEF TypeOK, Proposal
      <4> QED
        BY <4>1, <4>2 DEF SetProposal, EntersVoting
    <3> QED
      BY <1>1, <1>2, <3>1, <3>2, <3>3, ThrottleCases
  <2> QED
    BY <2>1, <2>2, <2>3 DEF AnnotateProposal, EndorseProposal, ExtendVotingPeriod, RewriteProposal
<1>6. CASE EndBlocker
  <2>1. ASSUME NEW e \in inactiveQueue, ActivateDue(e)
        PROVE  DepositThrottled /\ InitialThrottled
    <3>1. /\ lastMinInitialDeposit' = lastMinInitialDeposit
          /\ ActivateVotingPeriod(e.id, proposals[e.id], inactiveQueue, inactiveNumber)
      BY <2>1 DEF ActivateDue
    <3>2. e.id \in ProposalIds /\ proposals[e.id].Status = "DepositPeriod"
      BY InactiveDue
    <3>3. e.id \notin votingPeriodKeys /\ proposals[e.id] \in Proposal
      BY <1>1, <3>2 DEF Ids, TypeOK
    <3>4. EntersVoting /\ lastMinDeposit' = MinDepositUpdate(Increment(activeNumber), FALSE)
      BY <3>1, <3>3, ActivationEnters
    <3> QED
      BY <1>1, <1>2, <3>1, <3>4, ThrottleCases
  <2>2. ASSUME NEW e \in activeQueue, TallyDue(e) PROVE DepositThrottled /\ InitialThrottled
    <3>1. /\ lastMinDeposit \in LastMinDeposit
          /\ lastMinInitialDeposit \in LastMinDeposit
      BY <1>1 DEF TypeOK
    <3>2. /\ [lastMinDeposit EXCEPT !.Time = now].Value = lastMinDeposit.Value
          /\ [lastMinInitialDeposit EXCEPT !.Time = now].Value = lastMinInitialDeposit.Value
      BY <3>1 DEF LastMinDeposit
    <3>3. /\ lastMinDeposit'.Value = lastMinDeposit.Value
          /\ lastMinInitialDeposit'.Value = lastMinInitialDeposit.Value
      BY <2>2, <3>2 DEF TallyDue, ExecuteMessages, throttleVars
    <3> QED
      BY <1>1, <1>2, <3>3, ThrottleCases
  <2>3. CASE ActiveWalked
    <3>1. /\ lastMinInitialDeposit' = MinInitialDepositUpdate(inactiveNumber', TRUE)
          /\ lastMinDeposit' = MinDepositUpdate(activeNumber', TRUE)
          /\ UNCHANGED <<proposalID, votingPeriodKeys>>
      BY <2>3 DEF ActiveWalked, proposalVars
    <3>2. ~Submits /\ ~EntersVoting
      BY <1>2, <3>1 DEF Submits, EntersVoting
    <3> QED
      BY <1>1, <1>2, <3>1, <3>2, ThrottleCases
  <2>4. CASE UNCHANGED throttleVars
    BY <1>3, <2>4
  <2> QED
    BY <1>6, <2>1, <2>2, <2>3, <2>4 DEF EndBlocker, BeginEndBlock, DropDue, InactiveWalked,
       CheckQuorumReached, CheckQuorumMissed, CheckQuorumError, QuorumWalked, TallyDueError
<1>7. CASE \E gap \in BlockGaps : NextBlock(gap)
  BY <1>3, <1>7 DEF NextBlock
<1> QED
  BY <1>4, <1>5, <1>6, <1>7 DEF Next

\* The minimum deposits rise in a step that adds a proposal at or above the target, or to
\* their floor; they fall only with time and below the target, and no update leaves them
\* below their floor, whoever writes them.
THEOREM DepositsThrottled ==
    ASSUME PositiveQuorum
    PROVE  Spec => ThrottlersFollowCounters
<1>1. Inv /\ [Next]_vars =>
         [/\ ThrottledBy(params.MinDepositThrottler, lastMinDeposit, lastMinDeposit',
                         activeNumber, activeNumber',
                         votingPeriodKeys' \ votingPeriodKeys # {})
          /\ ThrottledBy(params.MinInitialDepositThrottler, lastMinInitialDeposit,
                         lastMinInitialDeposit', inactiveNumber, inactiveNumber',
                         proposalID' > proposalID)]_vars
  BY StepThrottles DEF DepositThrottled, InitialThrottled, EntersVoting, Submits
<1> QED
  BY <1>1, Invariance, PTL DEF Spec, ThrottlersFollowCounters

-----------------------------------------------------------------------------
(* The longest voting period *)

MaxVoting    == Max({prm.VotingPeriod : prm \in ParamSets})
MaxExtension == Max({LateExtension(prm) : prm \in ParamSets})
MaxGap       == Max(BlockGaps)

\* The voting end of prop is within its extensions by the DAOs and slack.
Fits(prop, slack) ==
    prop.VotingEndTime <= prop.VotingStartTime + MaxVoting
                            + prop.TimesVotingPeriodExtended * ExtensionDuration + slack

\* The inductive part of VotingPeriodBounded: a proposal whose quorum check is pending
\* has not been extended for a late quorum yet, and a check that is due has been due for
\* less than the time between two blocks.
VotingBound ==
    /\ \A p \in ProposalIds : proposals[p].TimesVotingPeriodExtended <= ExtensionsLimit
    /\ \A p \in Ids({"VotingPeriod"} \cup Final) : Fits(proposals[p], MaxExtension + MaxGap)
    /\ \A e \in quorumQueue : Fits(proposals[e.id], 0) /\ now < e.time + MaxGap
    /\ phase \in {"active", "commit"} => NoneDue(quorumQueue)

\* The extension by the parameters of a set.
LEMMA LateExtensionFacts ==
    ASSUME NEW prm \in ParamSets
    PROVE  /\ LateExtension(prm) \in Nat
           /\ prm.MaxVotingPeriodExtension # Nil =>
                 /\ prm.MaxVotingPeriodExtension \in Int
                 /\ prm.MaxVotingPeriodExtension <= LateExtension(prm)
<1>1. prm.MaxVotingPeriodExtension \in Int \cup {Nil}
  BY ParamsAssumption DEF ParamsType
<1>2. CASE prm.MaxVotingPeriodExtension = Nil
  BY <1>2 DEF LateExtension
<1>3. CASE prm.MaxVotingPeriodExtension # Nil
  <2> DEFINE d == prm.MaxVotingPeriodExtension
             S == {0, d}
             x == IF d > 0 THEN d ELSE 0
  <2>1. d \in Int
    BY <1>1, <1>3
  <2> HIDE DEF d
  <2>2. S \in SUBSET Int /\ x \in S /\ \A y \in S : x >= y
    BY <2>1
  <2>3. Max(S) \in S /\ \A y \in S : Max(S) >= y
    <3> HIDE DEF S, x
    <3> QED
      BY <2>2, MaxIsMax
  <2> QED
    BY <1>3, <2>1, <2>3 DEF LateExtension, d
<1> QED
  BY <1>2, <1>3

\* The maxima exist, and are what their names say.
LEMMA MaximaFacts ==
    ASSUME FiniteSchedule
    PROVE  /\ MaxVoting \in Nat /\ MaxExtension \in Nat /\ MaxGap \in Nat \ {0}
           /\ \A prm \in ParamSets : /\ prm.VotingPeriod <= MaxVoting
                                     /\ LateExtension(prm) <= MaxExtension
           /\ \A gap \in BlockGaps : gap <= MaxGap
<1> DEFINE f == [prm \in ParamSets |-> prm.VotingPeriod]
           g == [prm \in ParamSets |-> LateExtension(prm)]
           F == {prm.VotingPeriod : prm \in ParamSets}
           G == {LateExtension(prm) : prm \in ParamSets}
<1>1. /\ F \in SUBSET Nat /\ F # {} /\ G \in SUBSET Nat /\ G # {}
      /\ BlockGaps \in SUBSET Nat /\ BlockGaps # {} /\ IsFiniteSet(BlockGaps)
      /\ 0 \notin BlockGaps
  BY ParamsAssumption, InstanceAssumption, LateExtensionFacts DEF ParamsType, FiniteSchedule
<1>2. f \in Surjection(ParamSets, F) /\ g \in Surjection(ParamSets, G)
  BY DEF Surjection
<1>3. IsFiniteSet(F) /\ IsFiniteSet(G)
  BY <1>2, FS_Surjection DEF FiniteSchedule
<1>4. /\ MaxVoting \in F /\ \A y \in F : MaxVoting >= y
      /\ MaxExtension \in G /\ \A y \in G : MaxExtension >= y
      /\ MaxGap \in BlockGaps /\ \A y \in BlockGaps : MaxGap >= y
  <2> HIDE DEF F, G
  <2>1. /\ \E x \in F : \A y \in F : x >= y
        /\ \E x \in G : \A y \in G : x >= y
        /\ \E x \in BlockGaps : \A y \in BlockGaps : x >= y
    BY <1>1, <1>3, FiniteHasMax
  <2>2. MaxVoting = Max(F) /\ MaxExtension = Max(G)
    BY DEF MaxVoting, MaxExtension, F, G
  <2> QED
    BY <2>1, <2>2, MaxIsMax DEF MaxGap
<1>5. /\ \A prm \in ParamSets : /\ prm.VotingPeriod \in Nat /\ prm.VotingPeriod \in F
                                /\ LateExtension(prm) \in Nat /\ LateExtension(prm) \in G
  BY ParamsAssumption, LateExtensionFacts DEF ParamsType
<1> HIDE DEF F, G
<1> QED
  BY <1>1, <1>4, <1>5

\* The fields that Fits reads are natural numbers.
LEMMA FitsFacts ==
    ASSUME FiniteSchedule, NEW prop \in Proposal
    PROVE  /\ prop.VotingEndTime \in Nat /\ prop.VotingStartTime \in Nat
           /\ prop.TimesVotingPeriodExtended \in Nat
           /\ prop.TimesVotingPeriodExtended * ExtensionDuration \in Nat
           /\ Fits(prop, 0) => Fits(prop, MaxExtension + MaxGap)
<1>1. /\ prop.VotingEndTime \in Nat /\ prop.VotingStartTime \in Nat
      /\ prop.TimesVotingPeriodExtended \in Nat
  BY DEF Proposal
<1>2. prop.TimesVotingPeriodExtended * ExtensionDuration \in Nat
  BY <1>1, DaoAssumption
<1> DEFINE n == prop.TimesVotingPeriodExtended * ExtensionDuration
<1>3. Fits(prop, 0) => Fits(prop, MaxExtension + MaxGap)
  <2>1. n \in Nat
    BY <1>2
  <2> HIDE DEF n
  <2>2. \A slack : Fits(prop, slack) <=>
           prop.VotingEndTime <= prop.VotingStartTime + MaxVoting + n + slack
    BY DEF Fits, n
  <2> QED
    BY <1>1, <2>1, <2>2, MaximaFacts
<1> QED
  BY <1>1, <1>2, <1>3

\* It is enough to look at the proposal that is written and at the checks that are added.
LEMMA BoundStep ==
    ASSUME Inv, VotingBound, NEW p \in ProposalIds, NEW prop,
           proposals' = [proposals EXCEPT ![p] = prop],
           UNCHANGED <<now, phase>>,
           prop.TimesVotingPeriodExtended <= ExtensionsLimit,
           prop.Status \in {"VotingPeriod"} \cup Final => Fits(prop, MaxExtension + MaxGap),
           \A e \in quorumQueue' : e.id = p => Fits(prop, 0),
           \A e \in quorumQueue' \ quorumQueue :
              e.id = p /\ now < e.time + MaxGap /\ phase \notin {"active", "commit"}
    PROVE  VotingBound'
<1>1. \A q \in ProposalIds : proposals'[q] = IF q = p THEN prop ELSE proposals[q]
  BY DEF Inv, TypeOK
<1>2. \A e \in quorumQueue : e.id \in ProposalIds
  BY DEF Inv, TypeOK, QuorumKey
<1>3. (\A q \in ProposalIds : proposals[q].TimesVotingPeriodExtended <= ExtensionsLimit)'
  BY <1>1 DEF VotingBound
<1>4. (\A q \in Ids({"VotingPeriod"} \cup Final) : Fits(proposals[q], MaxExtension + MaxGap))'
  <2> SUFFICES ASSUME NEW q \in ProposalIds, proposals'[q].Status \in {"VotingPeriod"} \cup Final
               PROVE  Fits(proposals'[q], MaxExtension + MaxGap)
    BY DEF Ids, Fits, MaxExtension, MaxGap, MaxVoting
  <2> QED
    BY <1>1 DEF VotingBound, Ids
<1>5. \A e \in quorumQueue' : Fits(proposals'[e.id], 0) /\ now < e.time + MaxGap
  <2> SUFFICES ASSUME NEW e \in quorumQueue'
               PROVE  Fits(proposals'[e.id], 0) /\ now < e.time + MaxGap
    OBVIOUS
  <2>1. CASE e \in quorumQueue
    BY <1>1, <1>2, <2>1 DEF VotingBound
  <2>2. CASE e \notin quorumQueue
    BY <1>1, <2>2
  <2> QED
    BY <2>1, <2>2
<1>6. (phase \in {"active", "commit"} => NoneDue(quorumQueue))'
  BY DEF VotingBound, NoneDue
<1> QED
  BY <1>3, <1>4, <1>5, <1>6 DEF VotingBound, Fits, MaxExtension, MaxGap, MaxVoting

\* A step that writes no proposal and adds no check.
LEMMA BoundIdle ==
    ASSUME VotingBound, UNCHANGED <<now, proposals>>, quorumQueue' \subseteq quorumQueue,
           phase' \in {"active", "commit"} => phase \in {"active", "commit"} \/ NoneDue(quorumQueue)
    PROVE  VotingBound'
BY DEF VotingBound, Ids, NoneDue, Fits, MaxExtension, MaxGap, MaxVoting

\* A step that keeps the schedule of the proposal it writes.
LEMMA BoundKept ==
    ASSUME FiniteSchedule, Inv, VotingBound, NEW p \in ProposalIds, NEW prop,
           proposals[p].Status = "VotingPeriod",
           proposals' = [proposals EXCEPT ![p] = prop],
           prop.VotingStartTime = proposals[p].VotingStartTime,
           prop.VotingEndTime = proposals[p].VotingEndTime,
           prop.TimesVotingPeriodExtended = proposals[p].TimesVotingPeriodExtended,
           UNCHANGED <<now, phase, quorumQueue>>
    PROVE  VotingBound'
<1>1. \A slack : Fits(proposals[p], slack) => Fits(prop, slack)
  BY DEF Fits
<1>2. /\ Fits(proposals[p], MaxExtension + MaxGap)
      /\ proposals[p].TimesVotingPeriodExtended <= ExtensionsLimit
      /\ \A e \in quorumQueue : e.id = p => Fits(proposals[p], 0)
  BY DEF VotingBound, Ids
<1> QED
  BY <1>1, <1>2, BoundStep

\* The voting period that starts now.
LEMMA Activated ==
    ASSUME FiniteSchedule, Inv, NEW prop \in Proposal
    PROVE  LET new == [prop EXCEPT !.Status = "VotingPeriod", !.VotingStartTime = now,
                                   !.VotingEndTime = now + params.VotingPeriod]
           IN  /\ new.TimesVotingPeriodExtended = prop.TimesVotingPeriodExtended
               /\ Fits(new, 0) /\ Fits(new, MaxExtension + MaxGap)
<1> DEFINE end == now + params.VotingPeriod
           new == [prop EXCEPT !.Status = "VotingPeriod", !.VotingStartTime = now,
                               !.VotingEndTime = end]
           n == prop.TimesVotingPeriodExtended * ExtensionDuration
<1>1. /\ now \in Nat /\ params.VotingPeriod \in Nat /\ params.VotingPeriod <= MaxVoting
      /\ MaxVoting \in Nat
  BY MaximaFacts, ParamsAssumption DEF Inv, TypeOK, ParamsType
<1>2. n \in Nat
  BY FitsFacts
<1>3. end \in Nat /\ end <= now + MaxVoting + n + 0
  <2> HIDE DEF n
  <2> QED
    BY <1>1, <1>2
<1> HIDE DEF end
<1>4. new \in Proposal
  BY <1>1, <1>3 DEF Proposal, Statuses
<1>5. /\ new.TimesVotingPeriodExtended = prop.TimesVotingPeriodExtended
      /\ new.VotingStartTime = now /\ new.VotingEndTime = end
  BY DEF Proposal
<1> HIDE DEF new
<1>6. Fits(new, 0)
  BY <1>3, <1>5 DEF Fits
<1>7. Fits(new, MaxExtension + MaxGap)
  BY <1>4, <1>6, FitsFacts
<1> QED
  BY <1>5, <1>6, <1>7 DEF new, end

\* ActivateVotingPeriod of a proposal without a pending check.
LEMMA ActivateBound ==
    ASSUME FiniteSchedule, Inv, VotingBound, NEW p \in ProposalIds, NEW prop \in Proposal,
           NEW queue, NEW num, ActivateVotingPeriod(p, prop, queue, num),
           proposals[p].Status \in {"None", "DepositPeriod"},
           prop.TimesVotingPeriodExtended <= ExtensionsLimit,
           UNCHANGED <<now, phase>>, phase \notin {"active", "commit"}
    PROVE  VotingBound'
<1> DEFINE new == [prop EXCEPT !.Status = "VotingPeriod", !.VotingStartTime = now,
                               !.VotingEndTime = now + params.VotingPeriod]
           time == now + params.QuorumTimeout
           n == QuorumEntry(p, time, time, params.QuorumCheckCount, 0)
<1>1. proposals' = [proposals EXCEPT ![p] = new]
  BY DEF ActivateVotingPeriod, SetProposal
<1>2. /\ new.TimesVotingPeriodExtended = prop.TimesVotingPeriodExtended
      /\ Fits(new, 0) /\ Fits(new, MaxExtension + MaxGap)
  BY Activated
<1> HIDE DEF new
<1>3. \/ quorumQueue' = quorumQueue
      \/ params.QuorumCheckCount > 0 /\ quorumQueue' = quorumQueue \cup {n}
  BY DEF ActivateVotingPeriod
<1>4. n.id = p /\ n.time = time
  BY DEF QuorumEntry
<1>5. ASSUME params.QuorumCheckCount > 0
      PROVE  now < time + MaxGap
  <2>1. now \in Nat /\ params.QuorumTimeout \in Nat
    BY <1>5, ParamsFacts DEF Inv, TypeOK
  <2> QED
    BY <2>1, MaximaFacts
<1> HIDE DEF n, time
<1>6. \A e \in quorumQueue' \ quorumQueue : e.id = p /\ now < e.time + MaxGap
  BY <1>3, <1>4, <1>5
<1> QED
  BY <1>1, <1>2, <1>6, BoundStep

\* A deposit on a new or an existing proposal.
LEMMA AddDepositBound ==
    ASSUME FiniteSchedule, Inv, VotingBound, NEW p \in ProposalIds, NEW prop \in Proposal,
           NEW queue, NEW num, NEW a, NEW amount \in Amounts, NEW skip,
           AddDeposit(p, prop, queue, num, a, amount, skip),
           \/ proposals[p] = prop
           \/ /\ proposals[p].Status = "None" /\ prop.Status = "DepositPeriod"
              /\ prop.TimesVotingPeriodExtended = 0,
           UNCHANGED <<now, phase>>, phase = "txs"
    PROVE  VotingBound'
<1> DEFINE total == prop.TotalDeposit + amount
           funded == [prop EXCEPT !.TotalDeposit = total]
<1>1. total \in Nat
  BY InstanceAssumption DEF Proposal
<1>2. [prop EXCEPT !.TotalDeposit = @ + amount] = funded
  BY DEF Proposal
<1> HIDE DEF total
<1>3. /\ funded \in Proposal /\ funded.Status = prop.Status
      /\ funded.VotingStartTime = prop.VotingStartTime
      /\ funded.VotingEndTime = prop.VotingEndTime
      /\ funded.TimesVotingPeriodExtended = prop.TimesVotingPeriodExtended
  BY <1>1 DEF Proposal
<1>4. funded.TimesVotingPeriodExtended <= ExtensionsLimit
  BY <1>3, DaoAssumption DEF VotingBound
<1>5. \/ /\ prop.Status = "DepositPeriod"
         /\ ActivateVotingPeriod(p, funded, queue, num)
      \/ SetProposal(p, funded) /\ UNCHANGED quorumQueue
  BY <1>2 DEF AddDeposit
<1>6. prop.Status \in Live
  BY DEF AddDeposit, Depositable
<1> HIDE DEF funded
<1>7. CASE prop.Status = "DepositPeriod" /\ ActivateVotingPeriod(p, funded, queue, num)
  BY <1>3, <1>4, <1>7, ActivateBound
<1>8. CASE SetProposal(p, funded) /\ UNCHANGED quorumQueue
  <2>1. proposals' = [proposals EXCEPT ![p] = funded]
    BY <1>8 DEF SetProposal
  <2>2. CASE prop.Status = "VotingPeriod"
    <3>1. proposals[p] = prop
      BY <2>2
    <3> QED
      BY <1>3, <1>8, <2>1, <2>2, <3>1, BoundKept
  <2>3. CASE prop.Status = "DepositPeriod"
    <3>1. proposals[p].Status \in {"None", "DepositPeriod"}
      BY <2>3
    <3>2. \A e \in quorumQueue : e.id # p
      BY <3>1 DEF Inv, QuorumChecksInTime
    <3>3. funded.Status \notin {"VotingPeriod"} \cup Final
      BY <1>3, <2>3 DEF Final
    <3> QED
      BY <1>4, <1>8, <2>1, <3>2, <3>3, BoundStep
  <2> QED
    BY <1>6, <2>2, <2>3 DEF Live
<1> QED
  BY <1>5, <1>7, <1>8

LEMMA TransactionBound ==
    ASSUME FiniteSchedule, Inv, VotingBound, Transaction
    PROVE  VotingBound'
<1>1. TypeOK /\ FreeIds
  BY DEF Inv
<1>2. ASSUME NEW a \in Accounts, NEW content \in Contents, NEW amount \in Amounts,
             SubmitProposal(a, content, amount)
      PROVE  VotingBound'
  <2> DEFINE p == proposalID
             end == now + params.MaxDepositPeriod
             prop == [NoProposal EXCEPT !.Status = "DepositPeriod", !.Content = content,
                                        !.DepositEndTime = end]
             queue == inactiveQueue \cup {Key(p, prop.DepositEndTime)}
             num == Increment(inactiveNumber)
  <2>1. /\ p \in ProposalIds /\ proposals[p].Status = "None"
        /\ UNCHANGED <<now, phase>> /\ phase = "txs"
    BY <1>1, <1>2, InstanceAssumption
       DEF TypeOK, FreeIds, SubmitProposal, ProposalIds, InTx
  <2>2. end \in Nat
    BY <1>1, ParamsAssumption DEF TypeOK, ParamsType
  <2>3. AddDeposit(p, prop, queue, num, a, amount, TRUE)
    BY <1>2 DEF SubmitProposal
  <2> HIDE DEF end
  <2>4. /\ prop \in Proposal /\ prop.Status = "DepositPeriod"
        /\ prop.TimesVotingPeriodExtended = 0
    BY <2>2 DEF NoProposal, Proposal, Statuses
  <2> HIDE DEF prop, p, queue, num
  <2> QED
    BY <2>1, <2>3, <2>4, AddDepositBound
<1>3. ASSUME NEW a \in Accounts, NEW p \in ProposalIds, NEW amount \in Amounts,
             Deposit(a, p, amount)
      PROVE  VotingBound'
  <2>1. proposals[p] \in Proposal
    BY <1>1 DEF TypeOK
  <2>2. /\ AddDeposit(p, proposals[p], inactiveQueue, inactiveNumber, a, amount, FALSE)
        /\ UNCHANGED <<now, phase>> /\ phase = "txs"
    BY <1>3 DEF Deposit, InTx
  <2> QED
    BY <2>1, <2>2, AddDepositBound
<1>4. ASSUME NEW v \in Voters, NEW p \in ProposalIds, NEW option \in VoteOptions,
             AddVote(v, p, option)
      PROVE  VotingBound'
  BY <1>4, BoundIdle DEF AddVote, proposalVars, queueVars
<1> QED
  BY <1>2, <1>3, <1>4 DEF Transaction

\* A DAO moves the end by one duration and counts it.
LEMMA Extended ==
    ASSUME FiniteSchedule, NEW old \in Proposal, NEW new,
           new.VotingStartTime = old.VotingStartTime,
           new.VotingEndTime = old.VotingEndTime + ExtensionDuration,
           new.TimesVotingPeriodExtended = old.TimesVotingPeriodExtended + 1,
           NEW slack \in Nat, Fits(old, slack)
    PROVE  Fits(new, slack)
<1> DEFINE d == ExtensionDuration
           n == old.TimesVotingPeriodExtended * d
<1>1. /\ old.VotingEndTime \in Nat /\ old.VotingStartTime \in Nat
      /\ old.TimesVotingPeriodExtended \in Nat /\ n \in Nat /\ d \in Nat /\ MaxVoting \in Nat
  BY FitsFacts, MaximaFacts, DaoAssumption
<1>2. (old.TimesVotingPeriodExtended + 1) * d = n + d
  BY <1>1
<1>3. old.VotingEndTime <= old.VotingStartTime + MaxVoting + n + slack
  BY DEF Fits
<1> HIDE DEF n, d
<1>4. old.VotingEndTime + d <= old.VotingStartTime + MaxVoting + (n + d) + slack
  BY <1>1, <1>3
<1>5. new.VotingEndTime <= new.VotingStartTime + MaxVoting
                             + new.TimesVotingPeriodExtended * d + slack
  BY <1>2, <1>4 DEF d
<1> QED
  BY <1>5 DEF Fits, d

LEMMA DaoBound ==
    ASSUME FiniteSchedule, Inv, VotingBound, DaoTransaction
    PROVE  VotingBound'
<1>1. PICK signer \in Signers, p \in ProposalIds :
         \/ \E overwrite \in BOOLEAN : AnnotateProposal(signer, p, overwrite)
         \/ EndorseProposal(signer, p)
         \/ ExtendVotingPeriod(signer, p)
         \/ \E burnDeposit \in BOOLEAN : VetoProposal(signer, p, burnDeposit)
  BY DEF DaoTransaction
<1>2. proposals[p] \in Proposal /\ proposals[p].Status = "VotingPeriod"
  BY <1>1 DEF AnnotateProposal, EndorseProposal, ExtendVotingPeriod, VetoProposal,
     InVotingPeriod, Inv, TypeOK
<1>3. ASSUME NEW prop \in {[proposals[p] EXCEPT !.Annotation = TRUE],
                           [proposals[p] EXCEPT !.Endorsed = TRUE],
                           [proposals[p] EXCEPT !.Status = "Vetoed"]},
             SetProposal(p, prop), UNCHANGED <<now, phase, quorumQueue>>
      PROVE  VotingBound'
  <2>1. /\ prop.VotingStartTime = proposals[p].VotingStartTime
        /\ prop.VotingEndTime = proposals[p].VotingEndTime
        /\ prop.TimesVotingPeriodExtended = proposals[p].TimesVotingPeriodExtended
    BY <1>2, <1>3 DEF Proposal
  <2> QED
    BY <1>2, <1>3, <2>1, BoundKept DEF SetProposal
<1>4. CASE \E overwrite \in BOOLEAN : AnnotateProposal(signer, p, overwrite)
  BY <1>3, <1>4 DEF AnnotateProposal, RewriteProposal
<1>5. CASE EndorseProposal(signer, p)
  BY <1>3, <1>5 DEF EndorseProposal, RewriteProposal
<1>6. CASE ExtendVotingPeriod(signer, p)
  <2> DEFINE end == proposals[p].VotingEndTime + ExtensionDuration
             times == proposals[p].TimesVotingPeriodExtended + 1
             prop == [proposals[p] EXCEPT !.VotingEndTime = end,
                                          !.TimesVotingPeriodExtended = times]
  <2>1. /\ proposals' = [proposals EXCEPT ![p] = prop]
        /\ UNCHANGED <<now, phase, quorumQueue>>
    BY <1>6 DEF ExtendVotingPeriod, RewriteProposal, NewEndTime, SetProposal
  <2>2. times <= ExtensionsLimit
    BY <1>2, <1>6, DaoAssumption DEF ExtendVotingPeriod, ExtensionsLeft, Proposal
  <2> HIDE DEF end, times
  <2>3. /\ prop.VotingStartTime = proposals[p].VotingStartTime
        /\ prop.VotingEndTime = end /\ prop.TimesVotingPeriodExtended = times
    BY <1>2 DEF Proposal
  <2> HIDE DEF prop
  <2>4. \A slack \in Nat : Fits(proposals[p], slack) => Fits(prop, slack)
    BY <1>2, <2>3, Extended DEF end, times
  <2>5. /\ Fits(proposals[p], MaxExtension + MaxGap)
        /\ \A e \in quorumQueue : e.id = p => Fits(proposals[p], 0)
    BY <1>2 DEF VotingBound, Ids
  <2>6. MaxExtension + MaxGap \in Nat
    BY MaximaFacts
  <2> QED
    BY <2>1, <2>2, <2>3, <2>4, <2>5, <2>6, BoundStep
<1>7. CASE \E burnDeposit \in BOOLEAN : VetoProposal(signer, p, burnDeposit)
  BY <1>3, <1>7 DEF VetoProposal
<1> QED
  BY <1>1, <1>4, <1>5, <1>6, <1>7

\* The extension for a late quorum uses up the slack: the check was due for less than the
\* time between two blocks, and was scheduled no later than the voting end.
LEMMA LateQuorumBound ==
    ASSUME PositiveQuorum, FiniteSchedule, Inv, VotingBound, NEW e \in quorumQueue,
           CheckQuorumReached(e)
    PROVE  VotingBound'
<1> DEFINE end == now + params.MaxVotingPeriodExtension
           old == proposals[e.id]
           prop == [old EXCEPT !.VotingEndTime = end]
<1>1. /\ e.id \in ProposalIds /\ old \in Proposal /\ e.time \in Nat
      /\ e.time <= old.VotingEndTime /\ now \in Nat
      /\ \A f \in quorumQueue : f.id = e.id => f = e
  BY CheckFacts DEF Inv, TypeOK, QuorumChecksInTime
<1>2. UNCHANGED <<now, phase>> /\ quorumQueue' = quorumQueue \ {e}
  BY DEF CheckQuorumReached
<1>3. CASE UNCHANGED proposals
  BY <1>2, <1>3, BoundIdle
<1>4. CASE LateQuorumExtends(e) /\ SetProposal(e.id, prop)
  <2>1. proposals' = [proposals EXCEPT ![e.id] = prop]
    BY <1>4 DEF SetProposal
  <2>2. end \in Int /\ end <= now + MaxExtension /\ MaxExtension \in Nat /\ MaxGap \in Nat
    <3>1. params \in ParamSets /\ params.MaxVotingPeriodExtension # Nil
      BY <1>4 DEF Inv, TypeOK, LateQuorumExtends
    <3>2. /\ params.MaxVotingPeriodExtension \in Int
          /\ params.MaxVotingPeriodExtension <= LateExtension(params)
          /\ LateExtension(params) \in Nat /\ LateExtension(params) <= MaxExtension
          /\ MaxExtension \in Nat
      BY <3>1, LateExtensionFacts, MaximaFacts
    <3> QED
      BY <1>1, <3>2, MaximaFacts
  <2> HIDE DEF end
  <2>3. /\ prop.VotingStartTime = old.VotingStartTime /\ prop.VotingEndTime = end
        /\ prop.TimesVotingPeriodExtended = old.TimesVotingPeriodExtended
    BY <1>1 DEF Proposal
  <2>4. Fits(old, 0) /\ now < e.time + MaxGap /\ old.TimesVotingPeriodExtended <= ExtensionsLimit
    BY <1>1 DEF VotingBound
  <2>5. Fits(prop, MaxExtension + MaxGap)
    <3> DEFINE n == old.TimesVotingPeriodExtended * ExtensionDuration
               bound == old.VotingStartTime + MaxVoting + n
    <3>1. bound \in Nat /\ old.VotingEndTime \in Nat
      <4>1. /\ n \in Nat /\ MaxVoting \in Nat /\ old.VotingStartTime \in Nat
            /\ old.VotingEndTime \in Nat
        BY <1>1, FitsFacts, MaximaFacts
      <4> HIDE DEF n
      <4> QED
        BY <4>1
    <3>2. old.VotingEndTime <= bound + 0
      BY <2>4 DEF Fits
    <3>3. Fits(prop, MaxExtension + MaxGap) <=> end <= bound + (MaxExtension + MaxGap)
      BY <2>3 DEF Fits
    <3> HIDE DEF bound, old, prop
    <3> QED
      BY <1>1, <2>2, <2>4, <3>1, <3>2, <3>3
  <2>6. \A f \in quorumQueue' : f.id # e.id
    BY <1>1, <1>2
  <2> HIDE DEF prop
  <2> QED
    BY <1>1, <1>2, <2>1, <2>3, <2>4, <2>5, <2>6, BoundStep
<1> QED
  BY <1>3, <1>4 DEF CheckQuorumReached

LEMMA EndBlockerBound ==
    ASSUME PositiveQuorum, FiniteSchedule, Inv, VotingBound, EndBlocker
    PROVE  VotingBound'
<1>1. TypeOK
  BY DEF Inv
<1>2. CASE BeginEndBlock \/ InactiveWalked \/ QuorumWalked \/ ActiveWalked
  BY <1>2, BoundIdle DEF BeginEndBlock, InactiveWalked, QuorumWalked, ActiveWalked, Walking,
                         proposalVars, queueVars
<1>3. ASSUME NEW e \in inactiveQueue, ActivateDue(e) PROVE VotingBound'
  <2>1. e.id \in ProposalIds /\ proposals[e.id].Status = "DepositPeriod"
    BY InactiveDue
  <2>2. /\ proposals[e.id] \in Proposal
        /\ proposals[e.id].TimesVotingPeriodExtended <= ExtensionsLimit
    BY <1>1, <2>1 DEF TypeOK, VotingBound
  <2> QED
    BY <1>3, <2>1, <2>2, ActivateBound DEF ActivateDue, Walking
<1>4. ASSUME NEW e \in inactiveQueue, DropDue(e) PROVE VotingBound'
  <2>1. e.id \in ProposalIds /\ proposals[e.id].Status = "DepositPeriod"
    BY InactiveDue
  <2>2. /\ proposals' = [proposals EXCEPT ![e.id] = NoProposal]
        /\ UNCHANGED <<now, phase, quorumQueue>>
    BY <1>4 DEF DropDue, SetProposal
  <2>3. \A f \in quorumQueue : f.id # e.id
    BY <2>1 DEF Inv, QuorumChecksInTime
  <2>4. /\ NoProposal.Status \notin {"VotingPeriod"} \cup Final
        /\ NoProposal.TimesVotingPeriodExtended <= ExtensionsLimit
    BY DaoAssumption DEF NoProposal, Final
  <2> QED
    BY <2>1, <2>2, <2>3, <2>4, BoundStep
<1>5. ASSUME NEW e \in quorumQueue, CheckQuorumMissed(e) PROVE VotingBound'
  <2> DEFINE entry == [e EXCEPT !.time = NextCheckTime(e), !.QuorumChecksDone = @ + 1]
  <2>1. /\ UNCHANGED <<now, phase, proposals>> /\ phase = "quorum"
        /\ \/ quorumQueue' \subseteq quorumQueue
           \/ /\ quorumQueue' = (quorumQueue \ {e}) \cup {entry}
              /\ proposals[e.id].VotingEndTime > now /\ CheckInterval(e) # 0
    BY <1>5 DEF CheckQuorumMissed, Walking, proposalVars
  <2>2. /\ e \in QuorumKey /\ e.id \in ProposalIds
        /\ CheckInterval(e) # 0 => /\ NextCheckTime(e) \in Nat
                                   /\ proposals[e.id].VotingEndTime > now => NextCheckTime(e) > now
    BY CheckFacts, NextCheckFacts
  <2>3. entry.time = NextCheckTime(e) /\ entry.id = e.id
    BY <2>2 DEF QuorumKey
  <2> HIDE DEF entry
  <2>4. CASE quorumQueue' \subseteq quorumQueue
    BY <2>1, <2>4, BoundIdle
  <2>5. CASE /\ quorumQueue' = (quorumQueue \ {e}) \cup {entry}
             /\ proposals[e.id].VotingEndTime > now /\ CheckInterval(e) # 0
    <3>1. now < entry.time + MaxGap
      BY <1>1, <2>2, <2>3, <2>5, MaximaFacts DEF TypeOK
    <3>2. proposals' = [proposals EXCEPT ![e.id] = proposals[e.id]]
      BY <1>1, <2>1 DEF TypeOK
    <3>3. /\ Fits(proposals[e.id], 0)
          /\ proposals[e.id].TimesVotingPeriodExtended <= ExtensionsLimit
          /\ proposals[e.id].Status \in {"VotingPeriod"} \cup Final =>
                Fits(proposals[e.id], MaxExtension + MaxGap)
      BY <2>2 DEF VotingBound, Ids
    <3>4. \A f \in quorumQueue' \ quorumQueue :
             f.id = e.id /\ now < f.time + MaxGap /\ phase \notin {"active", "commit"}
      BY <2>1, <2>3, <2>5, <3>1
    <3> DEFINE prop == proposals[e.id]
    <3>5. proposals' = [proposals EXCEPT ![e.id] = prop]
      BY <3>2
    <3> HIDE DEF prop
    <3> QED
      BY <2>1, <2>2, <3>3, <3>4, <3>5, BoundStep DEF prop
  <2> QED
    BY <2>1, <2>4, <2>5
<1>6. ASSUME NEW e \in quorumQueue, CheckQuorumError(e) PROVE VotingBound'
  BY <1>6, BoundIdle DEF CheckQuorumError, proposalVars
<1>7. ASSUME NEW e \in activeQueue, TallyDue(e) \/ TallyDueError(e) PROVE VotingBound'
  <2>1. /\ e.id \in ProposalIds /\ proposals[e.id].Status = "VotingPeriod"
        /\ proposals[e.id] \in Proposal
    BY <1>1, ActiveDue DEF TypeOK
  <2>2. ASSUME NEW status, NEW burn, NEW part, CloseVoting(e.id, status, burn, part)
        PROVE  VotingBound'
    <3> DEFINE prop == [proposals[e.id] EXCEPT !.Status = status]
    <3>1. /\ proposals' = [proposals EXCEPT ![e.id] = prop]
          /\ UNCHANGED <<now, phase, quorumQueue>>
      BY <2>2 DEF CloseVoting, SetProposal
    <3>2. /\ prop.VotingStartTime = proposals[e.id].VotingStartTime
          /\ prop.VotingEndTime = proposals[e.id].VotingEndTime
          /\ prop.TimesVotingPeriodExtended = proposals[e.id].TimesVotingPeriodExtended
      BY <2>1 DEF Proposal
    <3> HIDE DEF prop
    <3> QED
      BY <2>1, <3>1, <3>2, BoundKept
  <2> QED
    BY <1>7, <2>2 DEF TallyDue, TallyDueError
<1> QED
  BY <1>2, <1>3, <1>4, <1>5, <1>6, <1>7, LateQuorumBound DEF EndBlocker

\* The next block: no check was due in the last one.
LEMMA NextBlockBound ==
    ASSUME FiniteSchedule, Inv, VotingBound, NEW gap \in BlockGaps, NextBlock(gap)
    PROVE  VotingBound'
<1>1. /\ phase = "commit" /\ phase' = "txs" /\ now' = now + gap
      /\ UNCHANGED <<proposals, quorumQueue>>
  BY DEF NextBlock, Walking, proposalVars, queueVars
<1>2. now \in Nat /\ gap \in Nat /\ gap <= MaxGap /\ MaxGap \in Nat
  BY MaximaFacts, InstanceAssumption DEF Inv, TypeOK
<1>3. \A e \in quorumQueue : e.time > now /\ e.time \in Nat
  BY <1>1, CheckFacts DEF VotingBound, NoneDue
<1>4. \A e \in quorumQueue : now' < e.time + MaxGap
  BY <1>1, <1>2, <1>3
<1> QED
  BY <1>1, <1>4 DEF VotingBound, Ids, Fits, MaxExtension, MaxGap, MaxVoting

\* However the DAOs and a late quorum interleave, the voting period of a proposal is
\* bounded, for every set of parameters governance may install on the way.
THEOREM VotingIsBounded ==
    ASSUME PositiveQuorum, FiniteSchedule
    PROVE  Spec => []VotingPeriodBounded
<1>1. Init => VotingBound
  BY DaoAssumption DEF Init, VotingBound, Ids, Final, NoProposal, NoneDue
<1>2. Inv /\ VotingBound /\ [Next]_vars => VotingBound'
  <2> SUFFICES ASSUME Inv, VotingBound, [Next]_vars PROVE VotingBound'
    OBVIOUS
  <2>1. CASE UNCHANGED vars
    BY <2>1, BoundIdle DEF vars, proposalVars, queueVars
  <2> QED
    BY <2>1, TransactionBound, DaoBound, EndBlockerBound, NextBlockBound DEF Next
<1>3. Inv /\ VotingBound => VotingPeriodBounded
  <2> SUFFICES ASSUME Inv, VotingBound, NEW p \in Ids({"VotingPeriod"} \cup Final)
               PROVE  /\ proposals[p].TimesVotingPeriodExtended <= ExtensionsLimit
                      /\ proposals[p].VotingEndTime <=
                            proposals[p].VotingStartTime
                              + LongestVoting(proposals[p].TimesVotingPeriodExtended)
    BY DEF VotingPeriodBounded
  <2> DEFINE n == proposals[p].TimesVotingPeriodExtended * ExtensionDuration
  <2>1. p \in ProposalIds /\ proposals[p] \in Proposal
    BY DEF Inv, TypeOK, Ids
  <2>2. /\ proposals[p].VotingEndTime \in Nat /\ proposals[p].VotingStartTime \in Nat
        /\ n \in Nat /\ MaxVoting \in Nat /\ MaxExtension \in Nat /\ MaxGap \in Nat
    BY <2>1, FitsFacts, MaximaFacts
  <2>3. proposals[p].VotingEndTime <=
           proposals[p].VotingStartTime + MaxVoting + n + (MaxExtension + MaxGap)
    BY DEF VotingBound, Fits
  <2>4. LongestVoting(proposals[p].TimesVotingPeriodExtended)
           = MaxVoting + n + MaxExtension + MaxGap
    BY DEF LongestVoting, MaxVoting, MaxExtension, MaxGap
  <2> HIDE DEF n
  <2>5. proposals[p].TimesVotingPeriodExtended <= ExtensionsLimit
    BY <2>1 DEF VotingBound
  <2> QED
    BY <2>2, <2>3, <2>4, <2>5
<1> QED
  BY <1>1, <1>2, <1>3, Invariance, PTL DEF Spec

-----------------------------------------------------------------------------
(* The escrow: stages *)

\* The abstract variable stage, and the other variables of the escrow.
Stages == [p \in ProposalIds |-> Stage(p)]
escrowVars == <<Stages, deposits, balances, burnt>>

\* A live proposal was submitted, and its stage is its period.
LEMMA LiveStage ==
    ASSUME Inv, NEW p \in ProposalIds, proposals[p].Status \in Live
    PROVE  /\ ~(p >= proposalID)
           /\ proposals[p].Status = "DepositPeriod" => Stages[p] = "deposit"
           /\ proposals[p].Status = "VotingPeriod" => Stages[p] = "voting"
<1>1. ~(p >= proposalID)
  BY DEF Inv, FreeIds, Live
<1> QED
  BY <1>1 DEF Stages, Stage, StageOf

\* Writing a proposal changes its stage only.
LEMMA StageStep ==
    ASSUME TypeOK, NEW p \in ProposalIds, ~(p >= proposalID), NEW prop,
           proposals' = [proposals EXCEPT ![p] = prop], proposalID' = proposalID
    PROVE  Stages' = [Stages EXCEPT ![p] = StageOf(prop)]
<1>1. \A q \in ProposalIds : proposals'[q] = IF q = p THEN prop ELSE proposals[q]
  BY DEF TypeOK
<1>2. \A q \in ProposalIds :
         Stage(q)' = IF q >= proposalID' THEN "unborn" ELSE StageOf(proposals'[q])
  BY DEF Stage
<1>3. \A q \in ProposalIds : Stage(q)' = IF q = p THEN StageOf(prop) ELSE Stage(q)
  BY <1>1, <1>2 DEF Stage
<1> QED
  BY <1>3 DEF Stages

\* A step that leaves the proposals and the coins alone is a stutter of the escrow.
LEMMA EscrowStutter ==
    ASSUME UNCHANGED <<proposals, proposalID, deposits, balances, burnt>>
    PROVE  UNCHANGED escrowVars
BY DEF escrowVars, Stages, Stage

\* So is rewriting a proposal without changing its status.
LEMMA RewriteStutter ==
    ASSUME Inv, NEW p \in ProposalIds, NEW prop, SetProposal(p, prop),
           proposals[p].Status = "VotingPeriod", prop.Status = "VotingPeriod",
           UNCHANGED <<proposalID, deposits, balances, burnt>>
    PROVE  UNCHANGED escrowVars
<1>1. /\ TypeOK /\ proposals[p].Status \in Live
      /\ proposals' = [proposals EXCEPT ![p] = prop]
  BY DEF Inv, Live, SetProposal
<1>2. /\ ~(p >= proposalID) /\ Stages[p] = "voting"
  BY <1>1, LiveStage
<1>3. Stages' = [Stages EXCEPT ![p] = StageOf(prop)]
  BY <1>1, <1>2, StageStep
<1>4. StageOf(prop) = "voting"
  BY DEF StageOf
<1> QED
  BY <1>2, <1>3, <1>4 DEF escrowVars, Stages

-----------------------------------------------------------------------------
(* The escrow: deposits *)

\* The coins of a deposit, and the stage it leads to.
LEMMA AddDepositPledge ==
    ASSUME TypeOK, NEW p \in ProposalIds, NEW prop \in Proposal, NEW queue, NEW num,
           NEW a \in Accounts, NEW amount \in Amounts, NEW skip,
           AddDeposit(p, prop, queue, num, a, amount, skip)
    PROVE  /\ amount \in 1 .. balances[a]
           /\ balances' = [balances EXCEPT ![a] = @ - amount]
           /\ deposits' = [deposits EXCEPT ![p][a] = @ + amount]
           /\ prop.Status \in Live
           /\ \E new : /\ proposals' = [proposals EXCEPT ![p] = new]
                       /\ StageOf(new) \in {"deposit", "voting"}
                       /\ prop.Status = "VotingPeriod" => StageOf(new) = "voting"
<1>1. /\ balances' = [balances EXCEPT ![a] = @ - amount]
      /\ deposits' = [deposits EXCEPT ![p][a] = @ + amount]
      /\ prop.Status \in Live
      /\ balances[a] >= amount
  BY DEF AddDeposit, Depositable, CanPay
<1>2. amount \in 1 .. balances[a]
  BY <1>1, InstanceAssumption DEF TypeOK
<1> DEFINE funded == [prop EXCEPT !.TotalDeposit = @ + amount]
           active == [funded EXCEPT !.Status = "VotingPeriod", !.VotingStartTime = now,
                                    !.VotingEndTime = now + params.VotingPeriod]
<1>3. funded.Status = prop.Status /\ active.Status = "VotingPeriod"
  BY DEF Proposal
<1>4. \/ /\ prop.Status = "DepositPeriod"
         /\ proposals' = [proposals EXCEPT ![p] = active]
      \/ proposals' = [proposals EXCEPT ![p] = funded]
  BY DEF AddDeposit, ActivateVotingPeriod, SetProposal
<1> HIDE DEF funded, active
<1>5. /\ StageOf(active) = "voting"
      /\ StageOf(funded) \in {"deposit", "voting"}
      /\ prop.Status = "VotingPeriod" => StageOf(funded) = "voting"
  BY <1>1, <1>3 DEF StageOf, Live
<1> QED
  BY <1>1, <1>2, <1>4, <1>5

\* A submission opens a proposal.
LEMMA SubmitOpens ==
    ASSUME Inv, NEW a \in Accounts, NEW content \in Contents, NEW amount \in Amounts,
           SubmitProposal(a, content, amount)
    PROVE  Escrow!Next
<1> DEFINE p == proposalID
           prop == [NoProposal EXCEPT !.Status = "DepositPeriod", !.Content = content,
                                      !.DepositEndTime = now + params.MaxDepositPeriod]
<1>1. TypeOK
  BY DEF Inv
<1>2. /\ p \in ProposalIds /\ proposalID \in Nat
      /\ proposalID' = proposalID + 1 /\ burnt' = burnt
  BY <1>1, InstanceAssumption DEF TypeOK, SubmitProposal, ProposalIds
<1>3. prop \in Proposal
  <2>1. now + params.MaxDepositPeriod \in Nat
    BY <1>1, ParamsAssumption DEF TypeOK, ParamsType
  <2> QED
    BY <2>1 DEF NoProposal, Proposal, Statuses
<1>4. AddDeposit(p, prop, inactiveQueue \cup {Key(p, prop.DepositEndTime)},
                 Increment(inactiveNumber), a, amount, TRUE)
  BY DEF SubmitProposal
<1> HIDE DEF prop, p
<1>5. /\ amount \in 1 .. balances[a]
      /\ balances' = [balances EXCEPT ![a] = @ - amount]
      /\ deposits' = [deposits EXCEPT ![p][a] = @ + amount]
      /\ \E new : /\ proposals' = [proposals EXCEPT ![p] = new]
                  /\ StageOf(new) \in {"deposit", "voting"}
  <2> DEFINE queue == inactiveQueue \cup {Key(p, prop.DepositEndTime)}
             num == Increment(inactiveNumber)
  <2>1. AddDeposit(p, prop, queue, num, a, amount, TRUE) /\ p \in ProposalIds
    BY <1>2, <1>4
  <2> HIDE DEF queue, num
  <2>2. \E new : /\ proposals' = [proposals EXCEPT ![p] = new]
                 /\ StageOf(new) \in {"deposit", "voting"}
    BY <1>1, <1>3, <2>1, AddDepositPledge
  <2>3. amount \in 1 .. balances[a]
    BY <1>1, <1>3, <2>1, AddDepositPledge
  <2>4. /\ balances' = [balances EXCEPT ![a] = @ - amount]
        /\ deposits' = [deposits EXCEPT ![p][a] = @ + amount]
    BY <2>1 DEF AddDeposit
  <2> QED
    BY <2>2, <2>3, <2>4
<1>6. PICK new : /\ proposals' = [proposals EXCEPT ![p] = new]
                 /\ StageOf(new) \in {"deposit", "voting"}
  BY <1>5
<1>7. \A q \in ProposalIds : q \in Nat
  BY DEF ProposalIds
<1>8. Stages' = [Stages EXCEPT ![p] = StageOf(new)]
  <2>1. \A q \in ProposalIds : proposals'[q] = IF q = p THEN new ELSE proposals[q]
    BY <1>1, <1>6 DEF TypeOK
  <2>2. \A q \in ProposalIds :
           Stage(q)' = IF q >= proposalID' THEN "unborn" ELSE StageOf(proposals'[q])
    BY DEF Stage
  <2>3. \A q \in ProposalIds : q >= proposalID' <=> (q >= proposalID /\ q # p)
    BY <1>2, <1>7 DEF p
  <2>4. ~(p >= proposalID')
    BY <1>2 DEF p
  <2>5. \A q \in ProposalIds : Stage(q)' = IF q = p THEN StageOf(new) ELSE Stage(q)
    BY <2>1, <2>2, <2>3, <2>4 DEF Stage
  <2> QED
    BY <2>5 DEF Stages
<1>9. /\ Stages[p] = "unborn"
      /\ \A q \in ProposalIds : q < p => Stages[q] # "unborn"
  BY <1>2, <1>7 DEF Stages, Stage, StageOf, p
<1>10. amount <= balances[a]
  BY <1>1, <1>5 DEF TypeOK
<1>11. Escrow!Open(p, a, amount)
  BY <1>2, <1>5, <1>6, <1>8, <1>9, <1>10 DEF Escrow!Open, Escrow!Pledge, Stages
<1> QED
  BY <1>2, <1>5, <1>11 DEF Escrow!Next

\* A deposit funds a live proposal, which may start its voting period.
LEMMA DepositFunds ==
    ASSUME Inv, NEW a \in Accounts, NEW p \in ProposalIds, NEW amount \in Amounts,
           Deposit(a, p, amount)
    PROVE  Escrow!Next
<1>1. TypeOK /\ proposals[p] \in Proposal
  BY DEF Inv, TypeOK
<1>2. /\ AddDeposit(p, proposals[p], inactiveQueue, inactiveNumber, a, amount, FALSE)
      /\ proposalID' = proposalID /\ burnt' = burnt
  BY DEF Deposit
<1>3. /\ amount \in 1 .. balances[a]
      /\ balances' = [balances EXCEPT ![a] = @ - amount]
      /\ deposits' = [deposits EXCEPT ![p][a] = @ + amount]
      /\ proposals[p].Status \in Live
      /\ \E new : /\ proposals' = [proposals EXCEPT ![p] = new]
                  /\ StageOf(new) \in {"deposit", "voting"}
                  /\ proposals[p].Status = "VotingPeriod" => StageOf(new) = "voting"
  BY <1>1, <1>2, AddDepositPledge
<1>4. PICK new : /\ proposals' = [proposals EXCEPT ![p] = new]
                 /\ StageOf(new) \in {"deposit", "voting"}
                 /\ proposals[p].Status = "VotingPeriod" => StageOf(new) = "voting"
  BY <1>3
<1>5. /\ ~(p >= proposalID)
      /\ proposals[p].Status = "DepositPeriod" => Stages[p] = "deposit"
      /\ proposals[p].Status = "VotingPeriod" => Stages[p] = "voting"
  BY <1>3, LiveStage
<1>6. Stages' = [Stages EXCEPT ![p] = StageOf(new)]
  BY <1>1, <1>2, <1>4, <1>5, StageStep
<1>7. amount <= balances[a]
  BY <1>1, <1>3 DEF TypeOK
<1>8. Escrow!Fund(p, a, amount)
  BY <1>2, <1>3, <1>4, <1>5, <1>6, <1>7 DEF Escrow!Fund, Escrow!Pledge, Stages, Live
<1> QED
  BY <1>3, <1>8 DEF Escrow!Next

-----------------------------------------------------------------------------
(* The escrow: the end of a proposal *)

\* Settling the deposits of a live proposal and ending or deleting it closes it.
LEMMA SettlingCloses ==
    ASSUME Inv, NEW p \in ProposalIds, NEW prop, NEW burn,
           proposals[p].Status \in Live, prop.Status \notin Live,
           SettleDeposits(p, burn), SetProposal(p, prop), proposalID' = proposalID
    PROVE  Escrow!Next
<1>1. TypeOK /\ proposals' = [proposals EXCEPT ![p] = prop]
  BY DEF Inv, SetProposal
<1>2. ~(p >= proposalID) /\ Stages[p] \in {"deposit", "voting"}
  BY LiveStage DEF Live
<1>3. Stages' = [Stages EXCEPT ![p] = "closed"]
  <2>1. StageOf(prop) = "closed"
    BY DEF StageOf, Live
  <2> QED
    BY <1>1, <1>2, <2>1, StageStep
<1>4. Escrow!Close(p)
  BY <1>2, <1>3 DEF Escrow!Close, SettleDeposits, Stages
<1> QED
  BY <1>4 DEF Escrow!Next

LEMMA TallyCloses ==
    ASSUME Inv, NEW e \in activeQueue, TallyDue(e) \/ TallyDueError(e)
    PROVE  Escrow!Next
<1>1. /\ e.id \in ProposalIds /\ proposals[e.id].Status = "VotingPeriod"
      /\ proposals[e.id] \in Proposal
  BY ActiveDue DEF Inv, TypeOK
<1>2. ASSUME NEW status \in Final, NEW burn, NEW part, CloseVoting(e.id, status, burn, part)
      PROVE  Escrow!Next
  <2> DEFINE prop == [proposals[e.id] EXCEPT !.Status = status]
  <2>1. prop.Status = status
    BY <1>1 DEF Proposal
  <2>2. SettleDeposits(e.id, burn) /\ SetProposal(e.id, prop) /\ proposalID' = proposalID
    BY <1>2 DEF CloseVoting
  <2> HIDE DEF prop
  <2> QED
    BY <1>1, <2>1, <2>2, SettlingCloses DEF Live, Final
<1>3. CASE TallyDueError(e)
  BY <1>2, <1>3 DEF TallyDueError, Final
<1>4. CASE TallyDue(e)
  <2>1. PICK status \in Final, burn \in {FALSE, BurnsDeposits(votes[e.id], Power, TotalBonded,
               ProposalQuorum(e.id), GetThreshold(params, proposals[e.id].Content.kinds,
               proposals[e.id].Endorsed), params)} :
           CloseVoting(e.id, status, burn, Participation(votes[e.id], Power, TotalBonded))
    BY <1>4 DEF TallyDue, Final
  <2> QED
    BY <1>2, <2>1
<1> QED
  BY <1>3, <1>4

-----------------------------------------------------------------------------
(* The escrow: all steps *)

LEMMA TransactionRefines ==
    ASSUME Inv, Transaction
    PROVE  Escrow!Next \/ UNCHANGED escrowVars
<1>1. ASSUME NEW v \in Voters, NEW p \in ProposalIds, NEW option \in VoteOptions,
             AddVote(v, p, option)
      PROVE  UNCHANGED escrowVars
  BY <1>1, EscrowStutter DEF AddVote, proposalVars, bankVars
<1> QED
  BY <1>1, SubmitOpens, DepositFunds DEF Transaction

LEMMA DaoTransactionRefines ==
    ASSUME Inv, DaoTransaction
    PROVE  Escrow!Next \/ UNCHANGED escrowVars
<1>1. PICK signer \in Signers, p \in ProposalIds :
         \/ \E overwrite \in BOOLEAN : AnnotateProposal(signer, p, overwrite)
         \/ EndorseProposal(signer, p)
         \/ ExtendVotingPeriod(signer, p)
         \/ \E burnDeposit \in BOOLEAN : VetoProposal(signer, p, burnDeposit)
  BY DEF DaoTransaction
<1>2. proposals[p].Status = "VotingPeriod" /\ proposals[p] \in Proposal
  BY <1>1 DEF AnnotateProposal, EndorseProposal, ExtendVotingPeriod, VetoProposal,
     InVotingPeriod, Inv, TypeOK
<1>3. ASSUME NEW prop, RewriteProposal(p, prop), prop.Status = "VotingPeriod"
      PROVE  UNCHANGED escrowVars
  BY <1>2, <1>3, RewriteStutter DEF RewriteProposal, bankVars
<1>4. CASE \E overwrite \in BOOLEAN : AnnotateProposal(signer, p, overwrite)
  <2>1. [proposals[p] EXCEPT !.Annotation = TRUE].Status = "VotingPeriod"
    BY <1>2 DEF Proposal
  <2> QED
    BY <1>3, <1>4, <2>1 DEF AnnotateProposal
<1>5. CASE EndorseProposal(signer, p)
  <2>1. [proposals[p] EXCEPT !.Endorsed = TRUE].Status = "VotingPeriod"
    BY <1>2 DEF Proposal
  <2> QED
    BY <1>3, <1>5, <2>1 DEF EndorseProposal
<1>6. CASE ExtendVotingPeriod(signer, p)
  <2> DEFINE end == NewEndTime(proposals[p])
             times == proposals[p].TimesVotingPeriodExtended + 1
             prop == [proposals[p] EXCEPT !.VotingEndTime = end,
                                          !.TimesVotingPeriodExtended = times]
  <2>1. RewriteProposal(p, prop)
    BY <1>6 DEF ExtendVotingPeriod
  <2> HIDE DEF end, times
  <2>2. prop.Status = "VotingPeriod"
    BY <1>2 DEF Proposal
  <2> QED
    BY <1>3, <2>1, <2>2
<1>7. ASSUME NEW burn \in BOOLEAN, VetoProposal(signer, p, burn) PROVE Escrow!Next
  <2> DEFINE prop == [proposals[p] EXCEPT !.Status = "Vetoed"]
  <2>1. prop.Status = "Vetoed"
    BY <1>2 DEF Proposal
  <2>2. SettleDeposits(p, burn) /\ SetProposal(p, prop) /\ proposalID' = proposalID
    BY <1>7 DEF VetoProposal
  <2> HIDE DEF prop
  <2> QED
    BY <1>2, <2>1, <2>2, SettlingCloses DEF Live
<1> QED
  BY <1>1, <1>4, <1>5, <1>6, <1>7

LEMMA EndBlockerRefines ==
    ASSUME PositiveQuorum, Inv, EndBlocker
    PROVE  Escrow!Next \/ UNCHANGED escrowVars
<1>1. TypeOK
  BY DEF Inv
<1>2. CASE BeginEndBlock \/ InactiveWalked \/ QuorumWalked \/ ActiveWalked
  BY <1>2, EscrowStutter
     DEF BeginEndBlock, InactiveWalked, QuorumWalked, ActiveWalked, proposalVars, bankVars
<1>3. ASSUME NEW e \in inactiveQueue, ActivateDue(e) PROVE Escrow!Next
  <2>1. /\ e.id \in ProposalIds /\ proposals[e.id].Status = "DepositPeriod"
        /\ proposals[e.id] \in Proposal
    BY <1>1, InactiveDue DEF TypeOK
  <2> DEFINE prop == [proposals[e.id] EXCEPT !.Status = "VotingPeriod", !.VotingStartTime = now,
                                             !.VotingEndTime = now + params.VotingPeriod]
  <2>2. /\ proposals' = [proposals EXCEPT ![e.id] = prop]
        /\ UNCHANGED <<proposalID, deposits, balances, burnt>>
    BY <1>3 DEF ActivateDue, ActivateVotingPeriod, SetProposal, bankVars
  <2>3. prop.Status = "VotingPeriod"
    BY <2>1 DEF Proposal
  <2> HIDE DEF prop
  <2>4. ~(e.id >= proposalID) /\ Stages[e.id] = "deposit"
    BY <2>1, LiveStage DEF Live
  <2>5. StageOf(prop) = "voting"
    BY <2>3 DEF StageOf
  <2>6. Stages' = [Stages EXCEPT ![e.id] = "voting"]
    <3>1. proposals' = [proposals EXCEPT ![e.id] = prop] /\ proposalID' = proposalID
      BY <2>2
    <3>2. Stages' = [Stages EXCEPT ![e.id] = StageOf(prop)]
      BY <1>1, <2>1, <2>4, <3>1, StageStep
    <3> QED
      BY <2>5, <3>2
  <2>7. Escrow!Activate(e.id)
    BY <2>2, <2>4, <2>6 DEF Escrow!Activate, Stages
  <2> QED
    BY <2>1, <2>7 DEF Escrow!Next
<1>4. ASSUME NEW e \in inactiveQueue, DropDue(e) PROVE Escrow!Next
  <2>1. e.id \in ProposalIds /\ proposals[e.id].Status = "DepositPeriod"
    BY InactiveDue
  <2>2. /\ SettleDeposits(e.id, params.BurnProposalDepositPrevote)
        /\ SetProposal(e.id, NoProposal) /\ proposalID' = proposalID
    BY <1>4 DEF DropDue
  <2>3. NoProposal.Status \notin Live
    BY DEF NoProposal, Live
  <2> QED
    BY <2>1, <2>2, <2>3, SettlingCloses DEF Live
<1>5. ASSUME NEW e \in quorumQueue, CheckQuorumReached(e) PROVE UNCHANGED escrowVars
  <2>1. /\ e.id \in ProposalIds /\ proposals[e.id] \in Proposal
        /\ proposals[e.id].Status = "VotingPeriod"
    BY <1>5, CheckFacts, VetoedMissesQuorum DEF CheckQuorumReached
  <2> DEFINE end == now + params.MaxVotingPeriodExtension
             prop == [proposals[e.id] EXCEPT !.VotingEndTime = end]
  <2>2. /\ UNCHANGED <<proposalID, deposits, balances, burnt>>
        /\ UNCHANGED proposals \/ SetProposal(e.id, prop)
    BY <1>5 DEF CheckQuorumReached, bankVars
  <2> HIDE DEF end
  <2>3. prop.Status = "VotingPeriod"
    BY <2>1 DEF Proposal
  <2> HIDE DEF prop
  <2> QED
    BY <2>1, <2>2, <2>3, EscrowStutter, RewriteStutter
<1>6. ASSUME NEW e \in quorumQueue, CheckQuorumMissed(e) \/ CheckQuorumError(e)
      PROVE  UNCHANGED escrowVars
  BY <1>6, EscrowStutter DEF CheckQuorumMissed, CheckQuorumError, proposalVars, bankVars
<1> QED
  BY <1>2, <1>3, <1>4, <1>5, <1>6, TallyCloses DEF EndBlocker

(***************************************************************************)
(* x/gov with the DAOs implements the escrow: proposals open in order and   *)
(* close once; deposits are taken only by live proposals and all of them    *)
(* are settled in the step that drops, tallies or vetoes the proposal.      *)
(***************************************************************************)
THEOREM EscrowRefinement ==
    ASSUME PositiveQuorum
    PROVE  Spec => ImplementsEscrow
<1>1. Init => Escrow!Init
  <2> SUFFICES ASSUME Init PROVE Escrow!Init
    OBVIOUS
  <2>1. \A p \in ProposalIds : p >= proposalID
    BY DEF Init, ProposalIds
  <2>2. Stages = [p \in ProposalIds |-> "unborn"]
    BY <2>1 DEF Stages, Stage
  <2>3. balances \in [Accounts -> Nat]
    BY InstanceAssumption DEF Init
  <2> QED
    BY <2>2, <2>3 DEF Init, Escrow!Init, Stages
<1>2. Inv /\ [Next]_vars => [Escrow!Next]_Escrow!vars
  <2> SUFFICES ASSUME Inv, [Next]_vars
               PROVE  Escrow!Next \/ UNCHANGED escrowVars
    BY DEF Escrow!vars, escrowVars, Stages
  <2>1. CASE \E gap \in BlockGaps : NextBlock(gap)
    BY <2>1, EscrowStutter DEF NextBlock, proposalVars, bankVars
  <2>2. CASE UNCHANGED vars
    BY <2>2, EscrowStutter DEF vars, proposalVars, bankVars
  <2> QED
    BY <2>1, <2>2, TransactionRefines, DaoTransactionRefines, EndBlockerRefines DEF Next
<1> QED
  BY <1>1, <1>2, Invariance, PTL DEF Spec, ImplementsEscrow, Escrow!Spec
=============================================================================
