--------------------------- MODULE GovDaos_proofs ---------------------------
(***************************************************************************)
(* Proofs about governance with the DAOs, for every number of proposals,    *)
(* accounts and voters and every set of parameters: the inductive invariant *)
(* Inv of GovDaos and what follows from it.                                 *)
(***************************************************************************)
EXTENDS GovDaos, Sums_proofs

-----------------------------------------------------------------------------
(* The operators of Throttler and Tally *)

\* The distance root of the throttler is a natural number of hundredths.
LEMMA ApproxRootType ==
    ASSUME NEW d \in Nat, NEW k
    PROVE  ApproxRoot(d, k) \in Nat
<1> DEFINE R == {r \in 1 .. One * d : r ^ k <= d * One ^ k}
<1>1. One * d \in Int
  BY DEF One
<1>2. IsFiniteSet(1 .. One * d)
  BY <1>1, FS_Interval
<1>3. IsFiniteSet(R)
  BY <1>2, FS_Subset, R \in SUBSET (1 .. One * d)
<1> QED
  BY <1>3, FS_CardinalityType DEF ApproxRoot

\* A scaled minimum deposit is clamped to a natural number.
LEMMA GetNewMinDepositType ==
    ASSUME NEW floor \in Nat, NEW last \in Nat, NEW percChange \in Int
    PROVE  GetNewMinDeposit(floor, last, percChange) \in Nat
<1>1. last * percChange \in Int
  OBVIOUS
<1>2. (last * percChange) \div One \in Int
  BY <1>1 DEF One
<1> QED
  BY <1>2 DEF GetNewMinDeposit

\* A throttler update stores a natural number and a time.
LEMMA UpdateMinDepositType ==
    ASSUME NEW th \in ThrottlerParams, NEW last \in LastMinDeposit, NEW num \in Nat,
           NEW t \in Nat, NEW check \in BOOLEAN
    PROVE  UpdateMinDeposit(th, last, num, t, check) \in LastMinDeposit
<1>1. Increased(th, last, t) \in LastMinDeposit
  <2>1. One + th.IncreaseRatio \in Int
    BY DEF One, ThrottlerParams
  <2>2. GetNewMinDeposit(th.FloorValue, last.Value, One + th.IncreaseRatio) \in Nat
    BY <2>1, GetNewMinDepositType DEF ThrottlerParams, LastMinDeposit
  <2> QED
    BY <2>2 DEF Increased, LastMinDeposit
<1>2. ASSUME num < th.TargetProposals
      PROVE  Decreased(th, last, num, t) \in LastMinDeposit
  <2> DEFINE b == ApproxRoot(th.TargetProposals - num, th.Sensitivity)
  <2>1. b \in Nat
    BY <1>2, ApproxRootType DEF ThrottlerParams
  <2> HIDE DEF b
  <2>2. One - (th.DecreaseRatio * b) \div One \in Int
    BY <2>1 DEF One, ThrottlerParams
  <2>3. GetNewMinDeposit(th.FloorValue, last.Value,
                         One - (th.DecreaseRatio * b) \div One) \in Nat
    BY <2>2, GetNewMinDepositType DEF ThrottlerParams, LastMinDeposit
  <2> QED
    BY <2>3 DEF Decreased, LastMinDeposit, b
<1>3. num < th.TargetProposals <=> ~(num >= th.TargetProposals)
  BY DEF ThrottlerParams
<1> QED
  BY <1>1, <1>2, <1>3 DEF UpdateMinDeposit

\* The stake behind any set of options is a natural number.
LEMMA VotingPowerType ==
    ASSUME NEW ballot \in [Voters -> Options \cup {NoVote}], NEW opts
    PROVE  VotingPower(ballot, Power, opts) \in Nat
<1> DEFINE S == {v \in DOMAIN ballot : ballot[v] \in opts}
<1>1. IsFiniteSet(S)
  BY FS_Subset, InstanceAssumption, S \in SUBSET Voters
<1>2. \A v \in S : Power[v] \in Nat
  BY InstanceAssumption
<1> QED
  BY <1>1, <1>2, SumType DEF VotingPower

\* Without votes there is no stake behind them.
LEMMA NoVotesNoPower ==
    ASSUME NEW ballot \in [Voters -> Options \cup {NoVote}],
           \A v \in Voters : ballot[v] = NoVote
    PROVE  VotingPower(ballot, Power, Options) = 0
<1>1. {v \in DOMAIN ballot : ballot[v] \in Options} = {}
  BY DEF Options, NoVote
<1> QED
  BY <1>1, SumEmpty DEF VotingPower

\* Participation is a natural number.
LEMMA ParticipationType ==
    ASSUME NEW ballot \in [Voters -> Options \cup {NoVote}]
    PROVE  Participation(ballot, Power, TotalBonded) \in Nat
<1>1. VotingPower(ballot, Power, Options) \in Nat
  BY VotingPowerType
<1>2. TotalBonded \in Nat
  BY InstanceAssumption
<1>3. ASSUME NEW x \in Nat, NEW y \in Nat, y # 0
      PROVE  (x * 100) \div y \in Nat
  BY <1>3
<1> QED
  BY <1>1, <1>2, <1>3 DEF Participation, One

\* The participation averages stay natural numbers.
LEMMA UpdateParticipationEMAType ==
    ASSUME NEW em \in [Kinds -> Nat], NEW kinds, NEW part \in Nat
    PROVE  UpdateParticipationEMA(em, kinds, part) \in [Kinds -> Nat]
<1>1. \A k \in Kinds : (8 * em[k] + 2 * part) \div 10 \in Nat
  OBVIOUS
<1> QED
  BY <1>1 DEF UpdateParticipationEMA

\* Max picks a maximum where there is one.
LEMMA MaxIsMax ==
    ASSUME NEW S, \E x \in S : \A y \in S : x >= y
    PROVE  /\ Max(S) \in S
           /\ \A y \in S : Max(S) >= y
BY DEF Max

\* The quorum of any proposal is at least the smallest quorum of the generic kind.
LEMMA QuorumIsPositive ==
    ASSUME PositiveQuorum, NEW prm \in ParamSets, NEW em \in [Kinds -> Nat],
           NEW kinds \in SUBSET Kinds
    PROVE  GetQuorum(prm, em, kinds) \in Nat \ {0}
<1> DEFINE q(k) == KindQuorum(prm, em, k)
           K == kinds \cup {"Any"}
           Q == {q(k) : k \in K}
<1>1. prm \in ParamsType /\ ValidParams(prm)
  BY ParamsAssumption
<1>2. \A k \in Kinds : /\ prm.QuorumMin[k] \in Nat
                       /\ prm.QuorumMax[k] - prm.QuorumMin[k] \in Nat
                       /\ em[k] \in Nat
  <2>1. prm.QuorumMin \in [Kinds -> Nat] /\ prm.QuorumMax \in [Kinds -> Nat]
    BY <1>1 DEF ParamsType
  <2>2. \A k \in Kinds : prm.QuorumMin[k] <= prm.QuorumMax[k]
    BY <1>1 DEF ValidParams
  <2> QED
    BY <2>1, <2>2
<1>3. \A x, y \in Nat : (x * y) \div One \in Nat
  BY DEF One
<1>4. \A k \in Kinds : q(k) \in Nat /\ q(k) >= prm.QuorumMin[k]
  BY <1>2, <1>3 DEF KindQuorum
<1>5. "Any" \in Kinds /\ prm.QuorumMin["Any"] > 0
  BY DEF Kinds, PositiveQuorum
<1>6. q("Any") \in Nat \ {0}
  BY <1>2, <1>4, <1>5
<1> HIDE DEF q
<1>7. \E x \in Q : \A y \in Q : x >= y
  <2>1. K \subseteq {"Any", "Law", "ConstitutionAmendment"}
    BY DEF Kinds
  <2>2. \E m \in K : \A k \in K : q(m) >= q(k)
    BY <1>4, <2>1 DEF Kinds
  <2> QED
    BY <2>2
<1>8. /\ Max(Q) \in Q
      /\ \A y \in Q : Max(Q) >= y
  BY <1>7, MaxIsMax, Zenon
<1>9. \A y \in Q : y \in Nat
  BY <1>4, <1>5
<1>10. GetQuorum(prm, em, kinds) = Max(Q)
  BY DEF GetQuorum, q
<1>11. q("Any") \in Q
  OBVIOUS
<1>12. Max(Q) \in Nat /\ Max(Q) >= q("Any")
  BY <1>8, <1>9, <1>11
<1> HIDE DEF Q
<1> QED
  BY <1>6, <1>10, <1>12

-----------------------------------------------------------------------------
(* How one proposal's change shows in the indexes over all proposals *)

\* The ids are a finite set.
LEMMA IdsFinite ==
    ASSUME NEW S
    PROVE  IsFiniteSet(ProposalIds) /\ IsFiniteSet(Ids(S))
<1>1. IsFiniteSet(ProposalIds)
  BY FS_Interval, InstanceAssumption DEF ProposalIds
<1>2. Ids(S) \in SUBSET ProposalIds
  BY DEF Ids
<1> QED
  BY <1>1, <1>2, FS_Subset

\* The types of the two stores the lemmas below are about.
LEMMA StoreTypes ==
    ASSUME TypeOK
    PROVE  /\ proposals \in [ProposalIds -> Proposal]
           /\ deposits \in [ProposalIds -> [Accounts -> Nat]]
BY DEF TypeOK

\* Writing proposal p moves only p between the sets of ids.
LEMMA IdsStep ==
    ASSUME TypeOK, NEW p \in ProposalIds, NEW prop,
           proposals' = [proposals EXCEPT ![p] = prop], NEW S
    PROVE  Ids(S)' = IF prop.Status \in S THEN Ids(S) \cup {p} ELSE Ids(S) \ {p}
BY DEF TypeOK, Ids

\* The keys in queue of other proposals than p.
Others(queue, p) == {e \in queue : e.id # p}

\* If a step writes proposal p and replaces its queue keys by those of its new status,
\* the queues still match the proposals.
LEMMA QueuesStep ==
    ASSUME proposals \in [ProposalIds -> Proposal], QueuesMatchProposals, NEW p \in ProposalIds, NEW prop,
           SetProposal(p, prop),
           inactiveQueue' = Others(inactiveQueue, p) \cup
              (IF prop.Status = "DepositPeriod" THEN {Key(p, prop.DepositEndTime)} ELSE {}),
           activeQueue' = Others(activeQueue, p) \cup
              (IF prop.Status = "VotingPeriod" THEN {Key(p, prop.VotingEndTime)} ELSE {})
    PROVE  QueuesMatchProposals'
<1>1. \A q \in ProposalIds : proposals'[q] = IF q = p THEN prop ELSE proposals[q]
  BY DEF SetProposal
<1>2. inactiveQueue' = {Key(q, proposals'[q].DepositEndTime) :
                           q \in {r \in ProposalIds : proposals'[r].Status \in {"DepositPeriod"}}}
  BY <1>1 DEF QueuesMatchProposals, Ids, Others, Key
<1>3. activeQueue' = {Key(q, proposals'[q].VotingEndTime) :
                         q \in {r \in ProposalIds : proposals'[r].Status \in {"VotingPeriod"}}}
  BY <1>1 DEF QueuesMatchProposals, Ids, Others, Key
<1>4. votingPeriodKeys' = {r \in ProposalIds : proposals'[r].Status \in {"VotingPeriod"}}
  BY <1>1 DEF QueuesMatchProposals, Ids, SetProposal
<1> QED
  BY <1>2, <1>3, <1>4 DEF QueuesMatchProposals, Ids, Key

\* The keys of proposal p in the two queues.
LEMMA QueuesSplit ==
    ASSUME QueuesMatchProposals, NEW p \in ProposalIds
    PROVE  /\ inactiveQueue = Others(inactiveQueue, p) \cup
                (IF proposals[p].Status = "DepositPeriod"
                   THEN {Key(p, proposals[p].DepositEndTime)} ELSE {})
           /\ activeQueue = Others(activeQueue, p) \cup
                (IF proposals[p].Status = "VotingPeriod"
                   THEN {Key(p, proposals[p].VotingEndTime)} ELSE {})
           /\ \A t : Key(p, t) \notin Others(inactiveQueue, p)
           /\ \A t : Key(p, t) \notin Others(activeQueue, p)
BY DEF QueuesMatchProposals, Others, Key, Ids

\* If a step writes proposal p and counts it in and out of the two counters, they still
\* match the proposals.
LEMMA CountersStep ==
    ASSUME TypeOK, CountersMatchProposals, NEW p \in ProposalIds, NEW prop,
           proposals' = [proposals EXCEPT ![p] = prop],
           inactiveNumber' = inactiveNumber
              - (IF proposals[p].Status = "DepositPeriod" THEN 1 ELSE 0)
              + (IF prop.Status = "DepositPeriod" THEN 1 ELSE 0),
           activeNumber' = activeNumber
              - (IF proposals[p].Status = "VotingPeriod" THEN 1 ELSE 0)
              + (IF prop.Status = "VotingPeriod" THEN 1 ELSE 0)
    PROVE  CountersMatchProposals'
<1> DEFINE D == Ids({"DepositPeriod"})
           V == Ids({"VotingPeriod"})
<1>1. IsFiniteSet(D) /\ IsFiniteSet(V)
  BY IdsFinite
<1>2. /\ Cardinality(D) \in Nat /\ Cardinality(V) \in Nat
      /\ Cardinality(D \cup {p}) = IF p \in D THEN Cardinality(D) ELSE Cardinality(D) + 1
      /\ Cardinality(V \cup {p}) = IF p \in V THEN Cardinality(V) ELSE Cardinality(V) + 1
      /\ Cardinality(D \ {p}) = IF p \in D THEN Cardinality(D) - 1 ELSE Cardinality(D)
      /\ Cardinality(V \ {p}) = IF p \in V THEN Cardinality(V) - 1 ELSE Cardinality(V)
  BY <1>1, FS_CardinalityType, FS_AddElement, FS_RemoveElement, Zenon
<1>3. /\ D' = IF prop.Status = "DepositPeriod" THEN D \cup {p} ELSE D \ {p}
      /\ V' = IF prop.Status = "VotingPeriod" THEN V \cup {p} ELSE V \ {p}
  BY IdsStep
<1>4. /\ p \in D <=> proposals[p].Status = "DepositPeriod"
      /\ p \in V <=> proposals[p].Status = "VotingPeriod"
  BY DEF Ids
<1>5. /\ inactiveNumber = Cardinality(D)
      /\ activeNumber = Cardinality(V)
  BY DEF CountersMatchProposals
<1> HIDE DEF D, V
<1>6. /\ inactiveNumber' = Cardinality(D')
      /\ activeNumber' = Cardinality(V')
  BY <1>2, <1>3, <1>4, <1>5
<1> QED
  BY <1>6 DEF CountersMatchProposals, D, V

\* A proposal in one of the periods is counted, so its counter is not zero.
LEMMA CountersCount ==
    ASSUME TypeOK, CountersMatchProposals, NEW p \in ProposalIds
    PROVE  /\ proposals[p].Status = "DepositPeriod" => inactiveNumber > 0
           /\ proposals[p].Status = "VotingPeriod" => activeNumber > 0
<1> DEFINE D == Ids({"DepositPeriod"})
           V == Ids({"VotingPeriod"})
<1>1. IsFiniteSet(D) /\ IsFiniteSet(V)
  BY IdsFinite
<1>2. /\ Cardinality(D) = 0 => D = {}
      /\ Cardinality(V) = 0 => V = {}
  BY <1>1, FS_EmptySet, Zenon
<1>3. /\ proposals[p].Status = "DepositPeriod" => p \in D
      /\ proposals[p].Status = "VotingPeriod" => p \in V
  BY DEF Ids
<1>4. /\ inactiveNumber = Cardinality(D)
      /\ activeNumber = Cardinality(V)
  BY DEF CountersMatchProposals
<1> HIDE DEF D, V
<1> QED
  BY <1>2, <1>3, <1>4 DEF TypeOK

-----------------------------------------------------------------------------
(* Deposits *)

\* The sums of deposits are natural numbers.
LEMMA DepositSumsType ==
    ASSUME deposits \in [ProposalIds -> [Accounts -> Nat]]
    PROVE  /\ \A p \in ProposalIds : DepositSum(p) \in Nat /\ DepositSum(p) <= TotalDeposits
           /\ TotalDeposits \in Nat
           /\ \A a \in Accounts : /\ AccountDeposits(a) \in Nat
                                  /\ \A p \in ProposalIds : deposits[p][a] <= AccountDeposits(a)
<1>1. IsFiniteSet(Accounts) /\ IsFiniteSet(ProposalIds)
  BY IdsFinite, InstanceAssumption
<1>2. ASSUME NEW p \in ProposalIds
      PROVE  DepositSum(p) \in Nat
  <2>1. \A a \in Accounts : deposits[p][a] \in Nat
    OBVIOUS
  <2> QED
    BY <1>1, <2>1, SumType DEF DepositSum
<1> DEFINE f == [p \in ProposalIds |-> DepositSum(p)]
<1>3. \A p \in ProposalIds : f[p] \in Nat
  BY <1>2
<1>4. TotalDeposits = SumOver(f, ProposalIds)
  BY DEF TotalDeposits
<1>5. TotalDeposits \in Nat
  BY <1>1, <1>3, <1>4, SumType
<1>6. \A p \in ProposalIds : f[p] <= TotalDeposits
  <2> HIDE DEF f
  <2> QED
    BY <1>1, <1>3, <1>4, SumBound
<1>7. ASSUME NEW a \in Accounts
      PROVE  /\ AccountDeposits(a) \in Nat
             /\ \A p \in ProposalIds : deposits[p][a] <= AccountDeposits(a)
  <2> DEFINE g == [p \in ProposalIds |-> deposits[p][a]]
  <2>1. \A p \in ProposalIds : g[p] \in Nat
    OBVIOUS
  <2>2. AccountDeposits(a) = SumOver(g, ProposalIds)
    BY DEF AccountDeposits
  <2>3. AccountDeposits(a) \in Nat
    BY <1>1, <2>1, <2>2, SumType
  <2>4. \A p \in ProposalIds : g[p] <= AccountDeposits(a)
    <3> HIDE DEF g
    <3> QED
      BY <1>1, <2>1, <2>2, SumBound
  <2> QED
    BY <2>3, <2>4
<1> QED
  BY <1>2, <1>5, <1>6, <1>7

\* If only the deposits of proposal p change, the totals change with them.
LEMMA DepositsStep ==
    ASSUME deposits \in [ProposalIds -> [Accounts -> Nat]], NEW p \in ProposalIds,
           deposits' \in [ProposalIds -> [Accounts -> Nat]],
           \A q \in ProposalIds : q # p => deposits'[q] = deposits[q]
    PROVE  /\ \A q \in ProposalIds : q # p => DepositSum(q)' = DepositSum(q)
           /\ TotalDeposits' = TotalDeposits - DepositSum(p) + DepositSum(p)'
           /\ \A a \in Accounts :
                 AccountDeposits(a)' = AccountDeposits(a) - deposits[p][a] + deposits'[p][a]
<1>1. IsFiniteSet(Accounts) /\ IsFiniteSet(ProposalIds)
  BY IdsFinite, InstanceAssumption
<1>2. \A q \in ProposalIds : q # p => DepositSum(q)' = DepositSum(q)
  BY DEF DepositSum
<1> DEFINE f == [q \in ProposalIds |-> DepositSum(q)]
           g == [q \in ProposalIds |-> DepositSum(q)']
<1>3. \A q \in ProposalIds : f[q] \in Nat /\ g[q] \in Nat
  <2>1. \A q \in ProposalIds : SumOver(deposits'[q], Accounts) \in Nat
    <3>1. \A q \in ProposalIds, a \in Accounts : deposits'[q][a] \in Nat
      OBVIOUS
    <3> QED
      BY <1>1, <3>1, SumType
  <2> QED
    BY <2>1, DepositSumsType DEF DepositSum
<1>4. \A q \in ProposalIds : q # p => g[q] = f[q]
  BY <1>2
<1>5. TotalDeposits = SumOver(f, ProposalIds) /\ TotalDeposits' = SumOver(g, ProposalIds)
  BY DEF TotalDeposits
<1>6. f[p] = DepositSum(p) /\ g[p] = DepositSum(p)'
  OBVIOUS
<1>7. TotalDeposits' = TotalDeposits - DepositSum(p) + DepositSum(p)'
  <2> HIDE DEF f, g
  <2>1. SumOver(g, ProposalIds) = SumOver(f, ProposalIds) - f[p] + g[p]
    BY <1>1, <1>3, <1>4, SumUpdate
  <2> QED
    BY <1>5, <1>6, <2>1
<1>8. ASSUME NEW a \in Accounts
      PROVE  AccountDeposits(a)' = AccountDeposits(a) - deposits[p][a] + deposits'[p][a]
  <2> DEFINE h == [q \in ProposalIds |-> deposits[q][a]]
             k == [q \in ProposalIds |-> deposits'[q][a]]
  <2>1. \A q \in ProposalIds : /\ h[q] \in Nat /\ k[q] \in Nat
                               /\ q # p => k[q] = h[q]
    OBVIOUS
  <2>2. /\ AccountDeposits(a) = SumOver(h, ProposalIds)
        /\ AccountDeposits(a)' = SumOver(k, ProposalIds)
        /\ h[p] = deposits[p][a] /\ k[p] = deposits'[p][a]
    BY DEF AccountDeposits
  <2> HIDE DEF h, k
  <2>3. SumOver(k, ProposalIds) = SumOver(h, ProposalIds) - h[p] + k[p]
    BY <1>1, <2>1, SumUpdate
  <2> QED
    BY <2>2, <2>3
<1> QED
  BY <1>2, <1>7, <1>8

\* Account a puts amount on p.
Paid(p, a, amount) == deposits' = [deposits EXCEPT ![p][a] = @ + amount]

\* The books after that.
LEMMA DepositPaid ==
    ASSUME deposits \in [ProposalIds -> [Accounts -> Nat]], NEW p \in ProposalIds,
           NEW a \in Accounts, NEW amount \in Nat, Paid(p, a, amount)
    PROVE  /\ deposits' \in [ProposalIds -> [Accounts -> Nat]]
           /\ DepositSum(p)' = DepositSum(p) + amount
           /\ \A q \in ProposalIds : q # p => DepositSum(q)' = DepositSum(q)
           /\ TotalDeposits' = TotalDeposits + amount
           /\ \A b \in Accounts : AccountDeposits(b)' =
                                     AccountDeposits(b) + (IF b = a THEN amount ELSE 0)
<1>1. /\ deposits' \in [ProposalIds -> [Accounts -> Nat]]
      /\ \A q \in ProposalIds : q # p => deposits'[q] = deposits[q]
      /\ \A b \in Accounts : deposits'[p][b] = deposits[p][b] + (IF b = a THEN amount ELSE 0)
      /\ \A b \in Accounts : deposits[p][b] \in Nat /\ deposits'[p][b] \in Nat
  BY DEF Paid
<1>2. IsFiniteSet(Accounts)
  BY InstanceAssumption
<1>3. DepositSum(p)' = DepositSum(p) - deposits[p][a] + deposits'[p][a]
  <2> DEFINE f == deposits[p]
             g == deposits'[p]
  <2>1. /\ \A b \in Accounts : f[b] \in Nat /\ g[b] \in Nat
        /\ \A b \in Accounts : b # a => g[b] = f[b]
    BY <1>1
  <2>2. SumOver(g, Accounts) = SumOver(f, Accounts) - f[a] + g[a]
    <3> HIDE DEF f, g
    <3> QED
      BY <1>2, <2>1, SumUpdate
  <2> QED
    BY <2>2 DEF DepositSum
<1>4. DepositSum(p) \in Nat /\ TotalDeposits \in Nat
      /\ \A b \in Accounts : AccountDeposits(b) \in Nat
  BY DepositSumsType
<1>5. /\ \A q \in ProposalIds : q # p => DepositSum(q)' = DepositSum(q)
      /\ TotalDeposits' = TotalDeposits - DepositSum(p) + DepositSum(p)'
      /\ \A b \in Accounts :
            AccountDeposits(b)' = AccountDeposits(b) - deposits[p][b] + deposits'[p][b]
  BY <1>1, DepositsStep
<1>6. DepositSum(p)' = DepositSum(p) + amount
  BY <1>1, <1>3, <1>4
<1>7. TotalDeposits' = TotalDeposits + amount
  BY <1>4, <1>5, <1>6
<1>8. \A b \in Accounts : AccountDeposits(b)' =
                              AccountDeposits(b) + (IF b = a THEN amount ELSE 0)
  BY <1>1, <1>4, <1>5
<1> QED
  BY <1>1, <1>5, <1>6, <1>7, <1>8

\* The books after the deposits of p have been refunded or burned.
LEMMA DepositsSettled ==
    ASSUME TypeOK, NEW p \in ProposalIds, NEW burn, SettleDeposits(p, burn),
           moduleBalance = TotalDeposits
    PROVE  /\ deposits' \in [ProposalIds -> [Accounts -> Nat]]
           /\ balances' \in [Accounts -> Nat] /\ burnt' \in [Accounts -> Nat]
           /\ moduleBalance' \in Nat
           /\ \A a \in Accounts : deposits'[p][a] = 0
           /\ \A q \in ProposalIds : q # p => /\ deposits'[q] = deposits[q]
                                             /\ DepositSum(q)' = DepositSum(q)
           /\ moduleBalance' = TotalDeposits'
           /\ \A a \in Accounts : balances'[a] + burnt'[a] + AccountDeposits(a)' =
                                     balances[a] + burnt[a] + AccountDeposits(a)
           /\ FundsPanic(p) = {}
<1>1. /\ deposits \in [ProposalIds -> [Accounts -> Nat]]
      /\ deposits' \in [ProposalIds -> [Accounts -> Nat]]
      /\ \A a \in Accounts : deposits'[p][a] = 0
      /\ \A q \in ProposalIds : q # p => deposits'[q] = deposits[q]
      /\ \A a \in Accounts : deposits[p][a] \in Nat
  BY DEF TypeOK, SettleDeposits
<1>2. DepositSum(p)' = 0
  BY <1>1, SumZero DEF DepositSum
<1>3. /\ DepositSum(p) \in Nat /\ TotalDeposits \in Nat /\ DepositSum(p) <= TotalDeposits
      /\ \A a \in Accounts : AccountDeposits(a) \in Nat
  BY <1>1, DepositSumsType
<1>4. /\ \A q \in ProposalIds : q # p => DepositSum(q)' = DepositSum(q)
      /\ TotalDeposits' = TotalDeposits - DepositSum(p) + DepositSum(p)'
      /\ \A a \in Accounts :
            AccountDeposits(a)' = AccountDeposits(a) - deposits[p][a] + deposits'[p][a]
  BY <1>1, DepositsStep
<1>5. moduleBalance' = moduleBalance - DepositSum(p)
  BY DEF SettleDeposits
<1>6. moduleBalance' \in Nat /\ moduleBalance' = TotalDeposits' /\ FundsPanic(p) = {}
  BY <1>2, <1>3, <1>4, <1>5 DEF FundsPanic
<1>7. balances \in [Accounts -> Nat] /\ burnt \in [Accounts -> Nat]
  BY DEF TypeOK
<1>8. /\ balances' \in [Accounts -> Nat] /\ burnt' \in [Accounts -> Nat]
      /\ \A a \in Accounts : balances'[a] + burnt'[a] = balances[a] + burnt[a] + deposits[p][a]
  BY <1>1, <1>7 DEF SettleDeposits
<1>9. \A a \in Accounts : balances'[a] + burnt'[a] + AccountDeposits(a)' =
                              balances[a] + burnt[a] + AccountDeposits(a)
  BY <1>1, <1>3, <1>4, <1>7, <1>8
<1> QED
  BY <1>1, <1>4, <1>6, <1>8, <1>9

-----------------------------------------------------------------------------
(* The quorum checks *)

\* The facts about the quorum-check queue.
Checks == QuorumChecksInTime /\ ChecksFitVoting /\ ChecksBeforeTally

\* Dropping entries, and moving the voting end of the others to a later time, keeps
\* the facts about the quorum-check queue.
LEMMA ChecksKept ==
    ASSUME TypeOK, Checks, quorumQueue' \subseteq quorumQueue,
           proposals' \in [ProposalIds -> Proposal],
           \A e \in quorumQueue' :
              /\ proposals'[e.id].Status \in {"VotingPeriod", "Vetoed"}
              /\ proposals'[e.id].VotingEndTime >= proposals[e.id].VotingEndTime,
           phase' = "active" => \A e \in quorumQueue' : e.time > now'
    PROVE  Checks'
<1>1. \A e \in quorumQueue : /\ e.id \in ProposalIds /\ e.time \in Nat
                              /\ e.QuorumTimeoutTime \in Nat /\ e.QuorumCheckCount \in Nat
                              /\ proposals[e.id].VotingEndTime \in Nat
                              /\ proposals'[e.id].VotingEndTime \in Nat
  BY DEF TypeOK, QuorumKey, Proposal
<1>2. QuorumChecksInTime'
  BY <1>1 DEF Checks, QuorumChecksInTime
<1>3. ChecksFitVoting'
  BY <1>1 DEF Checks, ChecksFitVoting
<1>4. ChecksBeforeTally'
  BY DEF ChecksBeforeTally, NoneDue
<1> QED
  BY <1>2, <1>3, <1>4 DEF Checks

\* A new entry for a proposal that has none keeps them too.
LEMMA ChecksAdded ==
    ASSUME TypeOK, Checks, NEW p \in ProposalIds, NEW n \in QuorumKey,
           proposals' \in [ProposalIds -> Proposal],
           \A q \in ProposalIds : q # p => proposals'[q] = proposals[q],
           \A e \in quorumQueue : e.id # p,
           quorumQueue' = quorumQueue \cup {n}, n.id = p,
           proposals'[p].Status = "VotingPeriod",
           n.time = n.QuorumTimeoutTime, n.QuorumChecksDone = 0,
           n.QuorumTimeoutTime <= proposals'[p].VotingEndTime,
           SpacedChecks =>
              n.QuorumTimeoutTime + n.QuorumCheckCount <= proposals'[p].VotingEndTime,
           phase' # "active"
    PROVE  Checks'
<1>1. \A e \in quorumQueue : e.id \in ProposalIds /\ proposals'[e.id] = proposals[e.id]
  BY DEF TypeOK, QuorumKey
<1>2. /\ n.time \in Nat /\ n.QuorumCheckCount \in Nat \ {0} /\ n.QuorumTimeoutTime \in Nat
      /\ proposals'[p].VotingEndTime \in Nat
  BY DEF QuorumKey, Proposal
<1>3. QuorumChecksInTime'
  BY <1>1, <1>2 DEF Checks, QuorumChecksInTime
<1>4. ChecksFitVoting'
  BY <1>1, <1>2 DEF Checks, ChecksFitVoting
<1>5. ChecksBeforeTally'
  BY DEF ChecksBeforeTally
<1> QED
  BY <1>3, <1>4, <1>5 DEF Checks

-----------------------------------------------------------------------------
(* Deposits and submission *)

\* The parameters in force.  Their two durations for quorum checks are numbers if there are
\* checks, and may be nil otherwise.
LEMMA ParamsFacts ==
    ASSUME TypeOK
    PROVE  /\ params \in ParamsType /\ ValidParams(params)
           /\ params.VotingPeriod \in Nat /\ params.MaxDepositPeriod \in Nat
           /\ params.QuorumCheckCount \in Nat
           /\ params.MaxVotingPeriodExtension # Nil => params.MaxVotingPeriodExtension \in Int
           /\ params.QuorumCheckCount # 0 =>
                 /\ params.MaxVotingPeriodExtension # Nil
                 /\ params.QuorumTimeout \in Nat
                 /\ params.QuorumTimeout < params.VotingPeriod
                 /\ SpacedChecks =>
                       params.QuorumTimeout + params.QuorumCheckCount <= params.VotingPeriod
           /\ params.MinDepositThrottler \in ThrottlerParams
           /\ params.MinInitialDepositThrottler \in ThrottlerParams
<1>1. params \in ParamSets /\ params \in ParamsType /\ ValidParams(params)
  BY ParamsAssumption DEF TypeOK
<1>2. /\ params.VotingPeriod \in Nat /\ params.QuorumTimeout \in Int \cup {Nil}
      /\ params.MaxDepositPeriod \in Nat /\ params.MaxVotingPeriodExtension \in Int \cup {Nil}
      /\ params.QuorumCheckCount \in Nat
      /\ params.MinDepositThrottler \in ThrottlerParams
      /\ params.MinInitialDepositThrottler \in ThrottlerParams
  BY <1>1 DEF ParamsType
<1>3. params.QuorumCheckCount # 0 =>
        /\ params.QuorumTimeout # Nil /\ params.MaxVotingPeriodExtension # Nil
        /\ 0 <= params.QuorumTimeout /\ params.QuorumTimeout < params.VotingPeriod
  BY <1>1, <1>2 DEF ValidParams
<1>4. params.QuorumCheckCount # 0 /\ SpacedChecks =>
        params.QuorumTimeout + params.QuorumCheckCount <= params.VotingPeriod
  BY <1>1, <1>2 DEF SpacedChecks
<1>5. params.QuorumCheckCount # 0 => params.QuorumTimeout \in Nat
  BY <1>2, <1>3
<1> QED
  BY <1>1, <1>2, <1>3, <1>4, <1>5

\* The throttler updates of a step store values of the right type.
LEMMA ThrottlersType ==
    ASSUME TypeOK, NEW num \in Nat, NEW check \in BOOLEAN
    PROVE  /\ MinDepositUpdate(num, check) \in LastMinDeposit
           /\ MinInitialDepositUpdate(num, check) \in LastMinDeposit
BY ParamsFacts, UpdateMinDepositType DEF TypeOK, MinDepositUpdate, MinInitialDepositUpdate

\* ActivateVotingPeriod of a proposal that was in its deposit period, or enters it in
\* the same step, keeps the queues, the counters and the checks right.
LEMMA ActivateStep ==
    ASSUME TypeOK, QueuesMatchProposals, CountersMatchProposals, Checks,
           NEW p \in ProposalIds, NEW prop \in Proposal, NEW queue, NEW num,
           ActivateVotingPeriod(p, prop, queue, num),
           proposals[p].Status \in {"None", "DepositPeriod"},
           queue = Others(inactiveQueue, p) \cup {Key(p, prop.DepositEndTime)},
           num = inactiveNumber + (IF proposals[p].Status = "DepositPeriod" THEN 0 ELSE 1),
           phase' # "active"
    PROVE  /\ proposals' \in [ProposalIds -> Proposal]
           /\ proposals'[p].Status = "VotingPeriod"
           /\ proposals'[p].TotalDeposit = prop.TotalDeposit
           /\ \A q \in ProposalIds : q # p => proposals'[q] = proposals[q]
           /\ QueuesMatchProposals' /\ CountersMatchProposals' /\ Checks'
           /\ votingPeriodKeys' \subseteq ProposalIds
           /\ inactiveQueue' \subseteq QueueKey /\ activeQueue' \subseteq QueueKey
           /\ quorumQueue' \subseteq QuorumKey
           /\ inactiveNumber' \in Nat /\ activeNumber' \in Nat
           /\ lastMinDeposit' \in LastMinDeposit
<1> DEFINE end == now + params.VotingPeriod
           timeout == now + params.QuorumTimeout
           final == [prop EXCEPT !.Status = "VotingPeriod", !.VotingStartTime = now,
                                 !.VotingEndTime = end]
           n == QuorumEntry(p, timeout, timeout, params.QuorumCheckCount, 0)
<1>1. /\ now \in Nat /\ end \in Nat
      /\ params.QuorumCheckCount # 0 => timeout \in Nat
  BY ParamsFacts DEF TypeOK
<1>2. final \in Proposal
  BY <1>1 DEF Proposal, Statuses
<1>3. /\ final.Status = "VotingPeriod" /\ final.VotingEndTime = end
      /\ final.TotalDeposit = prop.TotalDeposit
  BY DEF Proposal
<1>4. SetProposal(p, final)
  BY DEF ActivateVotingPeriod
<1>5. /\ proposals' = [proposals EXCEPT ![p] = final]
      /\ proposals' \in [ProposalIds -> Proposal]
      /\ proposals'[p] = final
      /\ \A q \in ProposalIds : q # p => proposals'[q] = proposals[q]
      /\ votingPeriodKeys' \subseteq ProposalIds
  BY <1>2, <1>4 DEF SetProposal, TypeOK
<1> HIDE DEF final, end, timeout
<1>6. /\ inactiveQueue' = Others(inactiveQueue, p)
      /\ activeQueue' = Others(activeQueue, p) \cup {Key(p, end)}
  <2>1. /\ inactiveQueue' = queue \ {Key(p, prop.DepositEndTime)}
        /\ activeQueue' = activeQueue \cup {Key(p, end)}
    BY DEF ActivateVotingPeriod, end
  <2>2. Key(p, prop.DepositEndTime) \notin Others(inactiveQueue, p)
    BY QueuesSplit
  <2>3. activeQueue = Others(activeQueue, p)
    BY QueuesSplit
  <2> QED
    BY <2>1, <2>2, <2>3
<1>7. QueuesMatchProposals'
  BY <1>3, <1>4, <1>6, StoreTypes, QueuesStep
<1>8. inactiveNumber' = num - 1 /\ activeNumber' = activeNumber + 1
  BY DEF ActivateVotingPeriod, Increment, Decrement
<1>9. inactiveNumber \in Nat /\ activeNumber \in Nat
  BY DEF TypeOK
<1>10. CountersMatchProposals'
  <2>1. inactiveNumber' = inactiveNumber
                            - (IF proposals[p].Status = "DepositPeriod" THEN 1 ELSE 0)
                            + (IF final.Status = "DepositPeriod" THEN 1 ELSE 0)
    BY <1>3, <1>8, <1>9
  <2>2. activeNumber' = activeNumber
                          - (IF proposals[p].Status = "VotingPeriod" THEN 1 ELSE 0)
                          + (IF final.Status = "VotingPeriod" THEN 1 ELSE 0)
    BY <1>3, <1>8, <1>9
  <2> QED
    BY <1>5, <2>1, <2>2, CountersStep
<1>11. inactiveNumber' \in Nat /\ activeNumber' \in Nat
  <2>1. proposals[p].Status = "DepositPeriod" => inactiveNumber > 0
    BY CountersCount
  <2> QED
    BY <1>8, <1>9, <2>1
<1>12. inactiveQueue' \subseteq QueueKey /\ activeQueue' \subseteq QueueKey
  BY <1>1, <1>6 DEF TypeOK, Others, Key, QueueKey
<1>13. /\ params.QuorumCheckCount = 0 => quorumQueue' = quorumQueue
       /\ params.QuorumCheckCount # 0 =>
             /\ quorumQueue' = quorumQueue \cup {n}
             /\ n \in QuorumKey /\ n.id = p /\ n.time = n.QuorumTimeoutTime
             /\ n.QuorumChecksDone = 0
             /\ n.QuorumTimeoutTime <= proposals'[p].VotingEndTime
             /\ SpacedChecks =>
                   n.QuorumTimeoutTime + n.QuorumCheckCount <= proposals'[p].VotingEndTime
  <2>1. params.QuorumCheckCount \in Nat
    BY ParamsFacts
  <2>2. quorumQueue' = IF params.QuorumCheckCount > 0 THEN quorumQueue \cup {n} ELSE quorumQueue
    BY DEF ActivateVotingPeriod, timeout
  <2>3. params.QuorumCheckCount # 0 =>
           /\ timeout <= end
           /\ SpacedChecks => timeout + params.QuorumCheckCount <= end
    BY ParamsFacts, <1>1 DEF timeout, end
  <2>4. /\ n.id = p /\ n.time = timeout /\ n.QuorumTimeoutTime = timeout
        /\ n.QuorumCheckCount = params.QuorumCheckCount /\ n.QuorumChecksDone = 0
    BY DEF QuorumEntry
  <2>5. params.QuorumCheckCount # 0 => n \in QuorumKey
    BY <2>1, <1>1 DEF QuorumEntry, QuorumKey
  <2> QED
    BY <1>3, <1>5, <2>1, <2>2, <2>3, <2>4, <2>5
<1> HIDE DEF n
<1>14. \A e \in quorumQueue : e.id # p
  BY DEF Checks, QuorumChecksInTime
<1>15. Checks'
  <2>1. CASE params.QuorumCheckCount = 0
    <3>1. \A e \in quorumQueue' : /\ proposals'[e.id] = proposals[e.id]
                                  /\ proposals[e.id].Status \in {"VotingPeriod", "Vetoed"}
                                  /\ proposals[e.id].VotingEndTime \in Nat
      BY <2>1, <1>5, <1>13, <1>14 DEF TypeOK, QuorumKey, Checks, QuorumChecksInTime, Proposal
    <3> QED
      BY <2>1, <1>5, <1>13, <3>1, ChecksKept
  <2>2. CASE params.QuorumCheckCount # 0
    BY <2>2, <1>3, <1>5, <1>13, <1>14, ChecksAdded
  <2> QED
    BY <2>1, <2>2
<1>16. quorumQueue' \subseteq QuorumKey
  BY <1>13 DEF TypeOK
<1>17. lastMinDeposit' \in LastMinDeposit
  <2>1. lastMinDeposit' = MinDepositUpdate(activeNumber + 1, FALSE)
    BY DEF ActivateVotingPeriod, Increment
  <2>2. activeNumber + 1 \in Nat /\ FALSE \in BOOLEAN
    BY <1>9
  <2>3. MinDepositUpdate(activeNumber + 1, FALSE) \in LastMinDeposit
    BY <2>2, ThrottlersType, Zenon
  <2> QED
    BY <2>1, <2>3
<1> QED
  BY <1>3, <1>5, <1>7, <1>10, <1>11, <1>12, <1>15, <1>16, <1>17

\* AddDeposit on a proposal prop that is in the store, or enters it in the same step,
\* preserves the invariant.
LEMMA AddDepositInv ==
    ASSUME Inv, NEW p \in ProposalIds, NEW prop \in Proposal, NEW queue, NEW num,
           NEW a \in Accounts, NEW amount \in Amounts, NEW skip,
           AddDeposit(p, prop, queue, num, a, amount, skip),
           \/ proposals[p] = prop
           \/ /\ proposals[p].Status = "None" /\ prop.Status = "DepositPeriod"
              /\ prop.TotalDeposit = 0,
           queue = Others(inactiveQueue, p) \cup
              (IF prop.Status = "DepositPeriod" THEN {Key(p, prop.DepositEndTime)} ELSE {}),
           num = inactiveNumber + (IF proposals[p].Status = "None" THEN 1 ELSE 0),
           UNCHANGED <<now, phase, params, votes, burnt, ema, panic>>, phase = "txs",
           proposalID' \in 1 .. MaxProposals + 1, proposalID' >= proposalID,
           proposals[p].Status = "None" => p < proposalID',
           lastMinInitialDeposit' \in LastMinDeposit
    PROVE  Inv'
<1> USE DEF Inv
<1> DEFINE funded == [prop EXCEPT !.TotalDeposit = @ + amount]
<1>1. amount \in Nat
  BY InstanceAssumption
<1>2. /\ prop.Status \in Live /\ balances[a] >= amount
      /\ balances' = [balances EXCEPT ![a] = @ - amount]
      /\ moduleBalance' = moduleBalance + amount
      /\ deposits' = [deposits EXCEPT ![p][a] = @ + amount]
      /\ \/ /\ prop.Status = "DepositPeriod"
            /\ ActivateVotingPeriod(p, funded, queue, num)
         \/ /\ SetProposal(p, funded)
            /\ inactiveQueue' = queue /\ inactiveNumber' = num
            /\ UNCHANGED <<activeQueue, quorumQueue, activeNumber, lastMinDeposit>>
  BY DEF AddDeposit, Depositable, CanPay
<1>3. /\ funded \in Proposal /\ funded.Status = prop.Status
      /\ funded.DepositEndTime = prop.DepositEndTime
      /\ funded.VotingEndTime = prop.VotingEndTime
      /\ funded.TotalDeposit = prop.TotalDeposit + amount
  BY <1>1 DEF Proposal
<1>4. /\ deposits' \in [ProposalIds -> [Accounts -> Nat]]
      /\ DepositSum(p)' = DepositSum(p) + amount
      /\ \A q \in ProposalIds : q # p => DepositSum(q)' = DepositSum(q)
      /\ TotalDeposits' = TotalDeposits + amount
      /\ \A b \in Accounts : AccountDeposits(b)' =
                                AccountDeposits(b) + (IF b = a THEN amount ELSE 0)
  <2>1. TypeOK /\ Paid(p, a, amount)
    BY <1>2 DEF Paid
  <2> HIDE DEF Inv
  <2> QED
    BY <1>1, <2>1, StoreTypes, DepositPaid, Zenon
<1>5. prop.TotalDeposit = DepositSum(p)
  <2>1. CASE proposals[p] = prop
    BY <2>1, <1>2 DEF DepositsConserved, Ids
  <2>2. CASE proposals[p].Status = "None" /\ prop.TotalDeposit = 0
    <3>1. \A b \in Accounts : deposits[p][b] = 0
      BY <2>2 DEF DepositsOnLive, Live
    <3> QED
      BY <2>2, <3>1, SumZero DEF DepositSum
  <2> QED
    BY <2>1, <2>2
<1>6. proposals[p].Status \in {"None"} \cup Live
  BY <1>2
<1> HIDE DEF funded
<1>7. /\ proposals' \in [ProposalIds -> Proposal]
      /\ proposals'[p].Status \in Live
      /\ proposals'[p].TotalDeposit = DepositSum(p)'
      /\ \A q \in ProposalIds : q # p => proposals'[q] = proposals[q]
      /\ QueuesMatchProposals' /\ CountersMatchProposals' /\ Checks'
      /\ votingPeriodKeys' \subseteq ProposalIds
      /\ inactiveQueue' \subseteq QueueKey /\ activeQueue' \subseteq QueueKey
      /\ quorumQueue' \subseteq QuorumKey
      /\ inactiveNumber' \in Nat /\ activeNumber' \in Nat
      /\ lastMinDeposit' \in LastMinDeposit
  <2>1. CASE prop.Status = "DepositPeriod" /\ ActivateVotingPeriod(p, funded, queue, num)
    <3>1. proposals[p].Status \in {"None", "DepositPeriod"}
      BY <2>1
    <3>2. queue = Others(inactiveQueue, p) \cup {Key(p, funded.DepositEndTime)}
      BY <2>1, <1>3
    <3>3. num = inactiveNumber + (IF proposals[p].Status = "DepositPeriod" THEN 0 ELSE 1)
      BY <3>1
    <3>4. phase' # "active" /\ Checks
      BY DEF Checks
    <3>5. /\ proposals' \in [ProposalIds -> Proposal]
          /\ proposals'[p].Status = "VotingPeriod"
          /\ proposals'[p].TotalDeposit = funded.TotalDeposit
          /\ \A q \in ProposalIds : q # p => proposals'[q] = proposals[q]
          /\ QueuesMatchProposals' /\ CountersMatchProposals' /\ Checks'
          /\ votingPeriodKeys' \subseteq ProposalIds
          /\ inactiveQueue' \subseteq QueueKey /\ activeQueue' \subseteq QueueKey
          /\ quorumQueue' \subseteq QuorumKey
          /\ inactiveNumber' \in Nat /\ activeNumber' \in Nat
          /\ lastMinDeposit' \in LastMinDeposit
      BY <2>1, <1>3, <3>1, <3>2, <3>3, <3>4, ActivateStep
    <3> QED
      BY <3>5, <1>3, <1>4, <1>5 DEF Live
  <2>2. CASE /\ SetProposal(p, funded)
             /\ inactiveQueue' = queue /\ inactiveNumber' = num
             /\ UNCHANGED <<activeQueue, quorumQueue, activeNumber, lastMinDeposit>>
    <3>1. /\ proposals' = [proposals EXCEPT ![p] = funded]
          /\ proposals' \in [ProposalIds -> Proposal]
          /\ proposals'[p] = funded
          /\ \A q \in ProposalIds : q # p => proposals'[q] = proposals[q]
          /\ votingPeriodKeys' \subseteq ProposalIds
      BY <2>2, <1>3 DEF SetProposal, TypeOK
    <3>2. QueuesMatchProposals'
      <4>1. inactiveQueue' = Others(inactiveQueue, p) \cup
               (IF funded.Status = "DepositPeriod" THEN {Key(p, funded.DepositEndTime)} ELSE {})
        BY <2>2, <1>3
      <4>2. activeQueue' = Others(activeQueue, p) \cup
               (IF funded.Status = "VotingPeriod" THEN {Key(p, funded.VotingEndTime)} ELSE {})
        <5>1. activeQueue = Others(activeQueue, p) \cup
                (IF proposals[p].Status = "VotingPeriod"
                   THEN {Key(p, proposals[p].VotingEndTime)} ELSE {})
          BY QueuesSplit
        <5> QED
          BY <5>1, <2>2, <1>3
      <4> QED
        BY <2>2, <4>1, <4>2, StoreTypes, QueuesStep
    <3>3. inactiveNumber \in Nat /\ activeNumber \in Nat
      BY DEF TypeOK
    <3>4. CountersMatchProposals'
      <4>1. inactiveNumber' = inactiveNumber
                                - (IF proposals[p].Status = "DepositPeriod" THEN 1 ELSE 0)
                                + (IF funded.Status = "DepositPeriod" THEN 1 ELSE 0)
        BY <2>2, <1>2, <1>3, <3>3 DEF Live
      <4>2. activeNumber' = activeNumber
                              - (IF proposals[p].Status = "VotingPeriod" THEN 1 ELSE 0)
                              + (IF funded.Status = "VotingPeriod" THEN 1 ELSE 0)
        BY <2>2, <1>2, <1>3, <3>3 DEF Live
      <4> QED
        BY <3>1, <4>1, <4>2, CountersStep
    <3>5. Checks'
      <4>1. \A e \in quorumQueue : e.id \in ProposalIds
        BY DEF TypeOK, QuorumKey
      <4>2. \A e \in quorumQueue : proposals[e.id].Status \in {"VotingPeriod", "Vetoed"}
        BY DEF QuorumChecksInTime
      <4>3. \A q \in ProposalIds : proposals[q].VotingEndTime \in Nat
        BY DEF TypeOK, Proposal
      <4>4. \A e \in quorumQueue' :
               /\ proposals'[e.id].Status \in {"VotingPeriod", "Vetoed"}
               /\ proposals'[e.id].VotingEndTime >= proposals[e.id].VotingEndTime
        BY <2>2, <1>3, <3>1, <4>1, <4>2, <4>3
      <4>5. Checks /\ phase' # "active"
        BY DEF Checks
      <4> QED
        BY <2>2, <3>1, <4>4, <4>5, ChecksKept
    <3>6. /\ inactiveQueue' \subseteq QueueKey /\ activeQueue' \subseteq QueueKey
          /\ quorumQueue' \subseteq QuorumKey /\ lastMinDeposit' \in LastMinDeposit
          /\ inactiveNumber' \in Nat /\ activeNumber' \in Nat
      BY <2>2, <3>3 DEF TypeOK, Others, Key, QueueKey, Proposal
    <3> QED
      BY <1>2, <1>3, <1>4, <1>5, <3>1, <3>2, <3>4, <3>5, <3>6
  <2> QED
    BY <1>2, <2>1, <2>2
<1>8. balances' \in [Accounts -> Nat] /\ moduleBalance' \in Nat
  BY <1>1, <1>2 DEF TypeOK
<1>9. TypeOK'
  BY <1>4, <1>7, <1>8 DEF TypeOK
<1>10. DepositsConserved'
  <2>1. moduleBalance' = TotalDeposits'
    BY <1>2, <1>4 DEF DepositsConserved
  <2>2. \A q \in ProposalIds :
           proposals'[q].Status \in Live => proposals'[q].TotalDeposit = DepositSum(q)'
    BY <1>4, <1>7 DEF DepositsConserved, Ids
  <2>3. \A b \in Accounts : balances'[b] + burnt'[b] + AccountDeposits(b)' = InitialBalance
    <3>1. \A b \in Accounts : /\ balances[b] \in Nat /\ burnt[b] \in Nat
                              /\ balances'[b] = balances[b] - (IF b = a THEN amount ELSE 0)
      BY <1>1, <1>2 DEF TypeOK
    <3>2. \A b \in Accounts : AccountDeposits(b) \in Nat
      BY StoreTypes, DepositSumsType
    <3>3. \A b \in Accounts : balances[b] + burnt[b] + AccountDeposits(b) = InitialBalance
      BY DEF DepositsConserved
    <3> QED
      BY <1>1, <1>4, <3>1, <3>2, <3>3
  <2> QED
    BY <2>1, <2>2, <2>3 DEF DepositsConserved, Ids
<1>11. DepositsOnLive'
  <2>1. \A q \in ProposalIds : q # p => deposits'[q] = deposits[q]
    BY <1>2 DEF TypeOK
  <2> QED
    BY <1>7, <2>1 DEF DepositsOnLive
<1>12. FreeIds'
  <2>1. p < proposalID'
    BY <1>6 DEF FreeIds, TypeOK, ProposalIds, Live
  <2>2. proposalID \in Int /\ proposalID' \in Int /\ \A q \in ProposalIds : q \in Int
    BY DEF TypeOK, ProposalIds
  <2> QED
    BY <1>7, <2>1, <2>2 DEF FreeIds
<1>13. VetoedHasNoVotes'
  BY <1>7 DEF VetoedHasNoVotes, Ids, Live
<1>14. PanicsOnlyFromParams'
  BY DEF PanicsOnlyFromParams
<1> QED
  BY <1>7, <1>9, <1>10, <1>11, <1>12, <1>13, <1>14 DEF Checks

\* MsgDeposit preserves the invariant: AddDeposit on a proposal in the store.
LEMMA DepositInv ==
    ASSUME Inv, NEW a \in Accounts, NEW p \in ProposalIds, NEW amount \in Amounts,
           Deposit(a, p, amount)
    PROVE  Inv'
<1> DEFINE prop == proposals[p]
<1>1. prop \in Proposal
  BY DEF Inv, TypeOK
<1>2. prop.Status # "None"
  BY DEF Deposit, AddDeposit, Depositable, Live
<1>3. inactiveQueue = Others(inactiveQueue, p) \cup
         (IF prop.Status = "DepositPeriod" THEN {Key(p, prop.DepositEndTime)} ELSE {})
  BY QueuesSplit DEF Inv
<1>4. inactiveNumber = inactiveNumber + (IF proposals[p].Status = "None" THEN 1 ELSE 0)
  BY <1>2 DEF Inv, TypeOK
<1>5. /\ AddDeposit(p, prop, inactiveQueue, inactiveNumber, a, amount, FALSE)
      /\ UNCHANGED <<now, phase, params, proposalID, lastMinInitialDeposit, votes, burnt,
                     ema, panic>>
      /\ phase = "txs"
  BY DEF Deposit, InTx
<1>6. /\ proposalID' \in 1 .. MaxProposals + 1 /\ proposalID' >= proposalID
      /\ lastMinInitialDeposit' \in LastMinDeposit
  BY <1>5 DEF Inv, TypeOK
<1> HIDE DEF prop
<1> QED
  BY <1>1, <1>2, <1>3, <1>4, <1>5, <1>6, AddDepositInv DEF prop

\* MsgSubmitProposal preserves the invariant: AddDeposit on a proposal that enters the
\* inactive queue in the same step.
LEMMA SubmitProposalInv ==
    ASSUME Inv, NEW a \in Accounts, NEW content \in Contents, NEW amount \in Amounts,
           SubmitProposal(a, content, amount)
    PROVE  Inv'
<1> DEFINE p == proposalID
           prop == [NoProposal EXCEPT !.Status = "DepositPeriod", !.Content = content,
                                      !.DepositEndTime = now + params.MaxDepositPeriod]
           queue == inactiveQueue \cup {Key(p, prop.DepositEndTime)}
<1>1. TypeOK /\ FreeIds /\ QueuesMatchProposals
  BY DEF Inv
<1>2. /\ p \in ProposalIds /\ proposals[p].Status = "None"
      /\ p + 1 \in 1 .. MaxProposals + 1 /\ p < p + 1
  <2>1. p \in 1 .. MaxProposals + 1 /\ p <= MaxProposals /\ MaxProposals \in Nat
    BY <1>1, InstanceAssumption DEF TypeOK, SubmitProposal
  <2>2. p \in ProposalIds /\ p >= proposalID
    BY <2>1 DEF ProposalIds
  <2> QED
    BY <1>1, <2>1, <2>2 DEF FreeIds
<1>3. now + params.MaxDepositPeriod \in Nat
  BY <1>1, ParamsFacts DEF TypeOK
<1>4. /\ prop \in Proposal /\ prop.Status = "DepositPeriod" /\ prop.TotalDeposit = 0
  BY <1>3 DEF NoProposal, Proposal, Statuses
<1>5. queue = Others(inactiveQueue, p) \cup
         (IF prop.Status = "DepositPeriod" THEN {Key(p, prop.DepositEndTime)} ELSE {})
  <2>1. inactiveQueue = Others(inactiveQueue, p)
    BY <1>1, <1>2, QueuesSplit
  <2> QED
    BY <1>4, <2>1
<1>6. /\ AddDeposit(p, prop, queue, inactiveNumber + 1, a, amount, TRUE)
      /\ UNCHANGED <<now, phase, params, votes, burnt, ema, panic>>
      /\ phase = "txs" /\ proposalID' = p + 1
      /\ lastMinInitialDeposit' = MinInitialDepositUpdate(inactiveNumber + 1, FALSE)
  BY DEF SubmitProposal, InTx, Increment
<1>7. lastMinInitialDeposit' \in LastMinDeposit
  <2>1. inactiveNumber + 1 \in Nat /\ FALSE \in BOOLEAN
    BY <1>1 DEF TypeOK
  <2>2. MinInitialDepositUpdate(inactiveNumber + 1, FALSE) \in LastMinDeposit
    BY <1>1, <2>1, ThrottlersType, Zenon
  <2> QED
    BY <1>6, <2>2
<1>8. /\ proposalID' \in 1 .. MaxProposals + 1 /\ proposalID' >= proposalID
      /\ p < proposalID'
  BY <1>2, <1>6 DEF ProposalIds
<1>9. inactiveNumber + 1 = inactiveNumber + (IF proposals[p].Status = "None" THEN 1 ELSE 0)
  BY <1>2
<1> HIDE DEF p, prop, queue
<1> QED
  BY <1>2, <1>4, <1>5, <1>6, <1>7, <1>8, <1>9, AddDepositInv

-----------------------------------------------------------------------------
(* Steps that leave proposals alone *)

\* The sums depend on the deposits only.
LEMMA SumsUnchanged ==
    ASSUME UNCHANGED deposits
    PROVE  /\ TotalDeposits' = TotalDeposits
           /\ \A p : DepositSum(p)' = DepositSum(p)
           /\ \A a : AccountDeposits(a)' = AccountDeposits(a)
BY DEF TotalDeposits, AccountDeposits, DepositSum

\* A vote preserves the invariant: only proposals in the voting period accept one.
LEMMA AddVoteInv ==
    ASSUME Inv, NEW v \in Voters, NEW p \in ProposalIds, NEW option \in VoteOptions,
           AddVote(v, p, option)
    PROVE  Inv'
<1> USE DEF Inv
<1>1. /\ UNCHANGED <<now, phase, params, proposals, votingPeriodKeys, proposalID,
                     inactiveQueue, activeQueue, quorumQueue, inactiveNumber, activeNumber,
                     lastMinDeposit, lastMinInitialDeposit, deposits, balances,
                     moduleBalance, burnt, ema, panic>>
      /\ votes' = [votes EXCEPT ![p][v] = option]
      /\ p \in votingPeriodKeys
  BY DEF AddVote, proposalVars, queueVars, throttleVars, bankVars
<1>2. option \in Options
  BY InstanceAssumption
<1>3. TypeOK'
  BY <1>1, <1>2 DEF TypeOK
<1>4. QueuesMatchProposals' /\ CountersMatchProposals'
  BY <1>1 DEF QueuesMatchProposals, CountersMatchProposals, Ids
<1>5. DepositsConserved' /\ DepositsOnLive'
  BY <1>1, SumsUnchanged DEF DepositsConserved, DepositsOnLive, Ids
<1>6. QuorumChecksInTime' /\ ChecksFitVoting' /\ ChecksBeforeTally' /\ FreeIds' /\ PanicsOnlyFromParams'
  BY <1>1 DEF QuorumChecksInTime, ChecksFitVoting, ChecksBeforeTally, NoneDue, FreeIds,
              PanicsOnlyFromParams
<1>7. VetoedHasNoVotes'
  <2>1. proposals[p].Status = "VotingPeriod"
    BY <1>1 DEF QueuesMatchProposals, Ids
  <2>2. \A q \in ProposalIds : q # p => votes'[q] = votes[q]
    BY <1>1 DEF TypeOK
  <2> QED
    BY <1>1, <2>1, <2>2 DEF VetoedHasNoVotes, Ids
<1> QED
  BY <1>3, <1>4, <1>5, <1>6, <1>7

\* Moving to another phase, updating the throttlers on the way or starting a block.
LEMMA PhaseInv ==
    ASSUME Inv,
           UNCHANGED <<params, proposals, votingPeriodKeys, proposalID, inactiveQueue,
                       activeQueue, quorumQueue, inactiveNumber, activeNumber, deposits,
                       votes, balances, moduleBalance, burnt, ema, panic>>,
           now' \in Nat, phase' \in {"txs", "inactive", "quorum", "active", "commit"},
           lastMinDeposit' \in LastMinDeposit, lastMinInitialDeposit' \in LastMinDeposit,
           phase' = "active" => \A e \in quorumQueue : e.time > now'
    PROVE  Inv'
<1> USE DEF Inv
<1>1. TypeOK'
  BY DEF TypeOK
<1>2. QueuesMatchProposals' /\ CountersMatchProposals'
  BY DEF QueuesMatchProposals, CountersMatchProposals, Ids
<1>3. DepositsConserved' /\ DepositsOnLive'
  BY SumsUnchanged DEF DepositsConserved, DepositsOnLive, Ids
<1>4. QuorumChecksInTime' /\ ChecksFitVoting' /\ FreeIds' /\ PanicsOnlyFromParams' /\ VetoedHasNoVotes'
  BY DEF QuorumChecksInTime, ChecksFitVoting, FreeIds, PanicsOnlyFromParams, VetoedHasNoVotes, Ids
<1>5. ChecksBeforeTally'
  BY DEF ChecksBeforeTally, NoneDue
<1> QED
  BY <1>1, <1>2, <1>3, <1>4, <1>5

\* The steps between the queues, and the start of a block, preserve the invariant.
LEMMA WalkedInv ==
    ASSUME Inv,
           \/ BeginEndBlock \/ InactiveWalked \/ QuorumWalked \/ ActiveWalked
           \/ \E gap \in BlockGaps : NextBlock(gap)
    PROVE  Inv'
<1> USE DEF proposalVars, queueVars, throttleVars, bankVars
<1>1. TypeOK
  BY DEF Inv
<1>2. CASE BeginEndBlock \/ InactiveWalked
  BY <1>1, <1>2, PhaseInv DEF BeginEndBlock, InactiveWalked, TypeOK
<1>3. CASE QuorumWalked
  BY <1>1, <1>3, PhaseInv DEF QuorumWalked, TypeOK, NoneDue
<1>4. CASE ActiveWalked
  <2>1. activeNumber \in Nat /\ inactiveNumber \in Nat /\ TRUE \in BOOLEAN
    BY <1>1 DEF TypeOK
  <2>2. /\ MinDepositUpdate(activeNumber, TRUE) \in LastMinDeposit
        /\ MinInitialDepositUpdate(inactiveNumber, TRUE) \in LastMinDeposit
    BY <1>1, <2>1, ThrottlersType, Zenon
  <2> QED
    BY <1>1, <1>4, <2>2, PhaseInv DEF ActiveWalked, TypeOK
<1>5. CASE \E gap \in BlockGaps : NextBlock(gap)
  <2>1. PICK gap \in BlockGaps : NextBlock(gap)
    BY <1>5
  <2>2. gap \in Nat
    BY InstanceAssumption
  <2> QED
    BY <1>1, <2>1, <2>2, PhaseInv DEF NextBlock, TypeOK
<1> QED
  BY <1>2, <1>3, <1>4, <1>5

-----------------------------------------------------------------------------
(* Steps that change one proposal and no deposit *)

\* A step that rewrites a live proposal p, which stays live with the same total
\* deposit, preserves the invariant if it keeps the indexes right.
LEMMA RewriteInv ==
    ASSUME Inv, NEW p \in ProposalIds,
           UNCHANGED <<now, phase, params, proposalID, deposits, votes, balances,
                       moduleBalance, burnt, ema>>,
           PanicsOnlyFromParams',
           proposals' \in [ProposalIds -> Proposal],
           proposals[p].Status \in Live, proposals'[p].Status \in Live,
           proposals'[p].TotalDeposit = proposals[p].TotalDeposit,
           \A q \in ProposalIds : q # p => proposals'[q] = proposals[q],
           QueuesMatchProposals', CountersMatchProposals', Checks',
           votingPeriodKeys' \subseteq ProposalIds,
           inactiveQueue' \subseteq QueueKey, activeQueue' \subseteq QueueKey,
           quorumQueue' \subseteq QuorumKey,
           inactiveNumber' \in Nat, activeNumber' \in Nat,
           lastMinDeposit' \in LastMinDeposit, lastMinInitialDeposit' \in LastMinDeposit
    PROVE  Inv'
<1> USE DEF Inv
<1>1. TypeOK'
  <2>1. panic' \subseteq {"counter", "division", "funds", "missing", "nil"}
    BY DEF PanicsOnlyFromParams
  <2> QED
    BY <2>1 DEF TypeOK
<1>2. DepositsConserved' /\ DepositsOnLive'
  BY SumsUnchanged DEF DepositsConserved, DepositsOnLive, Ids
<1>3. FreeIds'
  BY DEF FreeIds, Live
<1>4. VetoedHasNoVotes'
  BY DEF VetoedHasNoVotes, Ids, Live
<1> QED
  BY <1>1, <1>2, <1>3, <1>4 DEF Checks

\* A due entry of the inactive queue is the key of a proposal in its deposit period.
LEMMA InactiveDue ==
    ASSUME Inv, NEW e \in inactiveQueue
    PROVE  /\ e.id \in ProposalIds /\ proposals[e.id].Status = "DepositPeriod"
           /\ e = Key(e.id, proposals[e.id].DepositEndTime)
BY DEF Inv, QueuesMatchProposals, Ids, Key

\* A due entry of the active queue is the key of a proposal in its voting period.
LEMMA ActiveDue ==
    ASSUME Inv, NEW e \in activeQueue
    PROVE  /\ e.id \in ProposalIds /\ proposals[e.id].Status = "VotingPeriod"
           /\ e.time = proposals[e.id].VotingEndTime
BY DEF Inv, QueuesMatchProposals, Ids, Key

\* Activating a proposal at the end of its deposit period preserves the invariant.
LEMMA ActivateDueInv ==
    ASSUME Inv, NEW e \in inactiveQueue, ActivateDue(e)
    PROVE  Inv'
<1> DEFINE p == e.id
           prop == proposals[p]
<1>1. p \in ProposalIds /\ prop.Status = "DepositPeriod"
  BY InactiveDue
<1>2. TypeOK /\ QueuesMatchProposals /\ CountersMatchProposals /\ Checks
  BY DEF Inv, Checks
<1>3. prop \in Proposal
  BY <1>1, <1>2 DEF TypeOK
<1>4. /\ ActivateVotingPeriod(p, prop, inactiveQueue, inactiveNumber)
      /\ panic' = CounterPanic(inactiveNumber)
      /\ UNCHANGED <<now, phase, params, proposalID, lastMinInitialDeposit, deposits, votes,
                     balances, moduleBalance, burnt, ema>>
      /\ phase' # "active"
  BY DEF ActivateDue, Walking, bankVars
<1>5. inactiveQueue = Others(inactiveQueue, p) \cup {Key(p, prop.DepositEndTime)}
  BY <1>1, <1>2, QueuesSplit
<1>6. inactiveNumber = inactiveNumber + (IF prop.Status = "DepositPeriod" THEN 0 ELSE 1)
  BY <1>1, <1>2 DEF TypeOK
<1>7. PanicsOnlyFromParams'
  <2>1. panic' = {}
    BY <1>1, <1>2, <1>4, CountersCount DEF CounterPanic
  <2> QED
    BY <2>1 DEF PanicsOnlyFromParams
<1>8. lastMinInitialDeposit' \in LastMinDeposit
  BY <1>2, <1>4 DEF TypeOK
<1>9. prop.Status \in Live
  BY <1>1 DEF Live
<1> HIDE DEF p
<1>10. /\ proposals' \in [ProposalIds -> Proposal]
       /\ proposals'[p].Status = "VotingPeriod"
       /\ proposals'[p].TotalDeposit = prop.TotalDeposit
       /\ \A q \in ProposalIds : q # p => proposals'[q] = proposals[q]
       /\ QueuesMatchProposals' /\ CountersMatchProposals' /\ Checks'
       /\ votingPeriodKeys' \subseteq ProposalIds
       /\ inactiveQueue' \subseteq QueueKey /\ activeQueue' \subseteq QueueKey
       /\ quorumQueue' \subseteq QuorumKey
       /\ inactiveNumber' \in Nat /\ activeNumber' \in Nat
       /\ lastMinDeposit' \in LastMinDeposit
  BY <1>1, <1>2, <1>3, <1>4, <1>5, <1>6, ActivateStep
<1>11. proposals'[p].Status \in Live
  BY <1>10 DEF Live
<1> QED
  BY <1>1, <1>4, <1>7, <1>8, <1>9, <1>10, <1>11, RewriteInv

\* Writing prop over the proposal p in its voting period, and moving the active key to
\* its voting end, which is no earlier than before.
LEMMA RewriteVotingInv ==
    ASSUME Inv, NEW p \in ProposalIds, NEW prop \in Proposal,
           proposals[p].Status = "VotingPeriod", prop.Status = "VotingPeriod",
           prop.TotalDeposit = proposals[p].TotalDeposit,
           prop.VotingEndTime >= proposals[p].VotingEndTime,
           SetProposal(p, prop),
           activeQueue' = (activeQueue \ {Key(p, proposals[p].VotingEndTime)})
                             \cup {Key(p, prop.VotingEndTime)},
           quorumQueue' \subseteq quorumQueue, PanicsOnlyFromParams',
           UNCHANGED <<now, phase, params, proposalID, inactiveQueue, inactiveNumber,
                       activeNumber, lastMinDeposit, lastMinInitialDeposit, deposits, votes,
                       balances, moduleBalance, burnt, ema>>
    PROVE  Inv'
<1>1. TypeOK /\ QueuesMatchProposals /\ CountersMatchProposals /\ Checks
  BY DEF Inv, Checks
<1>2. /\ proposals' = [proposals EXCEPT ![p] = prop]
      /\ proposals' \in [ProposalIds -> Proposal]
      /\ proposals'[p] = prop
      /\ \A q \in ProposalIds : q # p => proposals'[q] = proposals[q]
      /\ votingPeriodKeys' \subseteq ProposalIds
  BY <1>1 DEF SetProposal, TypeOK
<1>3. /\ activeQueue' = Others(activeQueue, p) \cup {Key(p, prop.VotingEndTime)}
      /\ inactiveQueue' = Others(inactiveQueue, p)
  BY <1>1, QueuesSplit
<1>4. QueuesMatchProposals'
  BY <1>1, <1>3, StoreTypes, QueuesStep
<1>5. CountersMatchProposals'
  <2>1. /\ inactiveNumber' = inactiveNumber
              - (IF proposals[p].Status = "DepositPeriod" THEN 1 ELSE 0)
              + (IF prop.Status = "DepositPeriod" THEN 1 ELSE 0)
        /\ activeNumber' = activeNumber
              - (IF proposals[p].Status = "VotingPeriod" THEN 1 ELSE 0)
              + (IF prop.Status = "VotingPeriod" THEN 1 ELSE 0)
    BY <1>1 DEF TypeOK
  <2> QED
    BY <1>1, <1>2, <2>1, CountersStep
<1>6. Checks'
  <2>1. \A e \in quorumQueue' : e.id \in ProposalIds /\ e \in quorumQueue
    BY <1>1 DEF TypeOK, QuorumKey
  <2>2. \A e \in quorumQueue : proposals[e.id].Status \in {"VotingPeriod", "Vetoed"}
    BY <1>1 DEF Checks, QuorumChecksInTime
  <2>3. \A q \in ProposalIds : proposals[q].VotingEndTime \in Nat
    BY <1>1 DEF TypeOK, Proposal
  <2>4. \A e \in quorumQueue' :
           /\ proposals'[e.id].Status \in {"VotingPeriod", "Vetoed"}
           /\ proposals'[e.id].VotingEndTime >= proposals[e.id].VotingEndTime
    BY <1>2, <2>1, <2>2, <2>3
  <2>5. phase' = "active" => \A e \in quorumQueue' : e.time > now'
    BY <1>1, <2>1 DEF Checks, ChecksBeforeTally, NoneDue
  <2> QED
    BY <1>1, <1>2, <2>4, <2>5, ChecksKept
<1>7. /\ inactiveQueue' \subseteq QueueKey /\ activeQueue' \subseteq QueueKey
      /\ quorumQueue' \subseteq QuorumKey
      /\ inactiveNumber' \in Nat /\ activeNumber' \in Nat
      /\ lastMinDeposit' \in LastMinDeposit /\ lastMinInitialDeposit' \in LastMinDeposit
  BY <1>1, <1>3 DEF TypeOK, Others, Key, QueueKey, Proposal
<1>8. proposals[p].Status \in Live /\ prop.Status \in Live
  BY DEF Live
<1> QED
  BY <1>2, <1>4, <1>5, <1>6, <1>7, <1>8, RewriteInv

-----------------------------------------------------------------------------
(* Quorum checks *)

\* A proposal without votes does not reach its quorum.
LEMMA NoVotesNoQuorum ==
    ASSUME PositiveQuorum, params \in ParamSets, ema \in [Kinds -> Nat],
           NEW p \in ProposalIds, proposals[p] \in Proposal,
           votes[p] \in [Voters -> Options \cup {NoVote}],
           \A v \in Voters : votes[p][v] = NoVote
    PROVE  ~QuorumReached(p)
<1> DEFINE q == ProposalQuorum(p)
<1>1. VotingPower(votes[p], Power, Options) = 0
  BY NoVotesNoPower
<1>2. q \in Nat \ {0}
  <2>1. proposals[p].Content.kinds \in SUBSET Kinds
    BY InstanceAssumption DEF Proposal, Content, NoContent
  <2> QED
    BY <2>1, QuorumIsPositive DEF ProposalQuorum
<1> HIDE DEF q
<1>3. TotalBonded \in Nat
  BY InstanceAssumption
<1>4. TotalBonded > 0 => q * TotalBonded > 0
  BY <1>2, <1>3
<1>5. TotalBonded > 0 => ~(0 * One >= q * TotalBonded)
  BY <1>2, <1>3, <1>4 DEF One
<1> QED
  BY <1>1, <1>5 DEF QuorumReached, HasReachedQuorum, q

\* A veto deleted the votes, so the quorum check it leaves behind fails.
LEMMA VetoedMissesQuorum ==
    ASSUME PositiveQuorum, Inv, NEW p \in ProposalIds, proposals[p].Status = "Vetoed"
    PROVE  ~QuorumReached(p)
<1>1. /\ votes[p] \in [Voters -> Options \cup {NoVote}]
      /\ \A v \in Voters : votes[p][v] = NoVote
      /\ params \in ParamSets /\ ema \in [Kinds -> Nat] /\ proposals[p] \in Proposal
  BY DEF Inv, TypeOK, VetoedHasNoVotes, Ids
<1> QED
  BY <1>1, NoVotesNoQuorum

\* An entry of the quorum-check queue.
LEMMA CheckFacts ==
    ASSUME Inv, NEW e \in quorumQueue
    PROVE  /\ e \in QuorumKey /\ e.id \in ProposalIds
           /\ e.time \in Nat /\ e.QuorumTimeoutTime \in Nat
           /\ e.QuorumCheckCount \in Nat \ {0} /\ e.QuorumChecksDone \in Nat
           /\ proposals[e.id].Status \in {"VotingPeriod", "Vetoed"}
           /\ proposals[e.id] \in Proposal
           /\ proposals[e.id].VotingEndTime \in Nat
           /\ e.QuorumTimeoutTime <= e.time
           /\ e.QuorumTimeoutTime <= proposals[e.id].VotingEndTime
           /\ SpacedChecks => e.QuorumTimeoutTime + e.QuorumCheckCount
                                 <= proposals[e.id].VotingEndTime
           /\ MissingPanic(e.id) = {}
<1>1. e \in QuorumKey
  BY DEF Inv, TypeOK
<1>2. /\ e.id \in ProposalIds /\ e.time \in Nat /\ e.QuorumTimeoutTime \in Nat
      /\ e.QuorumCheckCount \in Nat \ {0} /\ e.QuorumChecksDone \in Nat
  BY <1>1 DEF QuorumKey
<1>3. /\ proposals[e.id].Status \in {"VotingPeriod", "Vetoed"}
      /\ e.QuorumTimeoutTime <= e.time /\ e.time <= proposals[e.id].VotingEndTime
      /\ SpacedChecks => e.QuorumTimeoutTime + e.QuorumCheckCount
                            <= proposals[e.id].VotingEndTime
  BY DEF Inv, QuorumChecksInTime, ChecksFitVoting
<1>4. proposals[e.id] \in Proposal /\ proposals[e.id].VotingEndTime \in Nat
  BY <1>2 DEF Inv, TypeOK, Proposal
<1>5. e.QuorumTimeoutTime <= proposals[e.id].VotingEndTime
  BY <1>2, <1>3, <1>4
<1> QED
  BY <1>1, <1>2, <1>3, <1>4, <1>5 DEF MissingPanic

\* Unless the interval between two checks is zero, so that moving a check into the
\* future divides by zero, the next check lies in the voting period.
LEMMA NextCheck ==
    ASSUME now \in Nat, NEW e, e.time \in Nat, e.QuorumTimeoutTime \in Nat,
           e.QuorumCheckCount \in Nat \ {0}, proposals[e.id].VotingEndTime \in Nat,
           e.QuorumTimeoutTime <= e.time,
           e.QuorumTimeoutTime <= proposals[e.id].VotingEndTime, CheckInterval(e) # 0
    PROVE  /\ NextCheckTime(e) \in Nat
           /\ e.QuorumTimeoutTime <= NextCheckTime(e)
           /\ NextCheckTime(e) <= proposals[e.id].VotingEndTime
           /\ proposals[e.id].VotingEndTime > now => NextCheckTime(e) > now
<1> DEFINE end == proposals[e.id].VotingEndTime
           t == CheckInterval(e)
           next == e.time + t
           k == (now - next) \div t
           skip == IF next > now THEN next ELSE next + t * (k + 1)
<1>1. /\ e.time \in Nat /\ e.QuorumTimeoutTime \in Nat /\ e.QuorumCheckCount \in Nat \ {0}
      /\ end \in Nat /\ e.QuorumTimeoutTime <= e.time
      /\ e.QuorumTimeoutTime <= end
  OBVIOUS
<1>2. now \in Nat
  OBVIOUS
<1>3. ASSUME NEW x \in Nat, NEW c \in Nat \ {0}
      PROVE  x \div c \in Nat
  BY <1>3
<1>4. t \in Nat \ {0}
  <2>1. end - e.QuorumTimeoutTime \in Nat
    BY <1>1
  <2> QED
    BY <1>1, <1>3, <2>1 DEF CheckInterval
<1> HIDE DEF t, end
<1>5. ASSUME NEW d \in Nat, NEW c \in Nat \ {0}
      PROVE  /\ d \div c \in Nat /\ c * (d \div c + 1) > d
             /\ c * (d \div c + 1) \in Nat
  BY <1>5
<1>6. skip \in Nat /\ skip > now /\ skip >= e.time
  <2>1. CASE next > now
    BY <2>1, <1>1, <1>2, <1>4
  <2>2. CASE ~(next > now)
    <3>1. now - next \in Nat
      BY <2>2, <1>1, <1>2, <1>4
    <3>2. t * (k + 1) > now - next /\ t * (k + 1) \in Nat
      BY <1>4, <1>5, <3>1
    <3> HIDE DEF k
    <3> QED
      BY <2>2, <1>1, <1>2, <1>4, <3>2
  <2> QED
    BY <2>1, <2>2
<1>7. NextCheckTime(e) = IF skip > end THEN end ELSE skip
  BY DEF NextCheckTime, t, end
<1> HIDE DEF skip
<1>8. /\ NextCheckTime(e) \in Nat
      /\ e.QuorumTimeoutTime <= NextCheckTime(e)
      /\ NextCheckTime(e) <= end
      /\ end > now => NextCheckTime(e) > now
  BY <1>1, <1>2, <1>6, <1>7
<1> QED
  BY <1>8 DEF end

LEMMA NextCheckFacts ==
    ASSUME Inv, NEW e \in quorumQueue, CheckInterval(e) # 0
    PROVE  /\ NextCheckTime(e) \in Nat
           /\ e.QuorumTimeoutTime <= NextCheckTime(e)
           /\ NextCheckTime(e) <= proposals[e.id].VotingEndTime
           /\ proposals[e.id].VotingEndTime > now => NextCheckTime(e) > now
<1>1. now \in Nat
  BY DEF Inv, TypeOK
<1> QED
  BY <1>1, CheckFacts, NextCheck

\* If the parameters space their checks, the interval of no check is zero.
LEMMA SpacedInterval ==
    ASSUME Inv, SpacedChecks, NEW e \in quorumQueue
    PROVE  CheckInterval(e) # 0
<1>1. /\ e.QuorumTimeoutTime \in Nat /\ e.QuorumCheckCount \in Nat \ {0}
      /\ proposals[e.id].VotingEndTime \in Nat
      /\ e.QuorumTimeoutTime + e.QuorumCheckCount <= proposals[e.id].VotingEndTime
  BY CheckFacts
<1>2. ASSUME NEW x \in Nat, NEW c \in Nat \ {0}, x >= c
      PROVE  x \div c # 0
  BY <1>2
<1>3. /\ proposals[e.id].VotingEndTime - e.QuorumTimeoutTime \in Nat
      /\ proposals[e.id].VotingEndTime - e.QuorumTimeoutTime >= e.QuorumCheckCount
  BY <1>1
<1> QED
  BY <1>1, <1>2, <1>3 DEF CheckInterval

\* A successful quorum check preserves the invariant.  It is never of a vetoed
\* proposal, which has no votes: here PositiveQuorum is needed.
LEMMA CheckQuorumReachedInv ==
    ASSUME PositiveQuorum, Inv, NEW e \in quorumQueue, CheckQuorumReached(e)
    PROVE  Inv'
<1> DEFINE p == e.id
           endTime == now + params.MaxVotingPeriodExtension
           final == IF LateQuorumExtends(e)
                      THEN [proposals[p] EXCEPT !.VotingEndTime = endTime] ELSE proposals[p]
<1>1. TypeOK /\ QueuesMatchProposals
  BY DEF Inv
<1>2. /\ p \in ProposalIds /\ proposals[p] \in Proposal /\ MissingPanic(p) = {}
      /\ proposals[p].VotingEndTime \in Nat
      /\ proposals[p].Status = "VotingPeriod"
  BY CheckFacts, VetoedMissesQuorum DEF CheckQuorumReached
<1>3. LateQuorumExtends(e) => endTime \in Nat /\ endTime > proposals[p].VotingEndTime
  <2>1. now \in Nat
    BY <1>1 DEF TypeOK
  <2>2. params.MaxVotingPeriodExtension # Nil => params.MaxVotingPeriodExtension \in Int
    BY <1>1, ParamsFacts DEF TypeOK
  <2> QED
    BY <1>2, <2>1, <2>2 DEF LateQuorumExtends
<1>4. /\ final \in Proposal /\ final.Status = "VotingPeriod"
      /\ final.TotalDeposit = proposals[p].TotalDeposit
      /\ final.VotingEndTime = IF LateQuorumExtends(e) THEN endTime
                                ELSE proposals[p].VotingEndTime
  BY <1>2, <1>3 DEF Proposal
<1>5. final.VotingEndTime >= proposals[p].VotingEndTime
  BY <1>2, <1>3, <1>4
<1>6. /\ quorumQueue' \subseteq quorumQueue /\ panic' = NilPanic(e)
      /\ UNCHANGED <<now, phase, params, proposalID, inactiveQueue, inactiveNumber,
                     activeNumber, lastMinDeposit, lastMinInitialDeposit, deposits, votes,
                     balances, moduleBalance, burnt, ema>>
  BY <1>2 DEF CheckQuorumReached, bankVars, throttleVars
<1>7. PanicsOnlyFromParams'
  <2>1. params.MaxVotingPeriodExtension = Nil => params.QuorumCheckCount = 0
    BY <1>1, ParamsFacts DEF TypeOK
  <2> QED
    BY <1>6, <2>1 DEF PanicsOnlyFromParams, NilPanic
<1>8. SetProposal(p, final)
  <2>1. p \in votingPeriodKeys
    BY <1>1, <1>2 DEF QueuesMatchProposals, Ids
  <2>2. CASE LateQuorumExtends(e)
    BY <2>2 DEF CheckQuorumReached
  <2>3. CASE ~LateQuorumExtends(e)
    <3>1. UNCHANGED <<proposals, votingPeriodKeys>>
      BY <2>3 DEF CheckQuorumReached
    <3> QED
      BY <2>1, <2>3, <3>1, <1>1, <1>2 DEF SetProposal, TypeOK
  <2> QED
    BY <2>2, <2>3
<1>9. activeQueue' = (activeQueue \ {Key(p, proposals[p].VotingEndTime)})
                        \cup {Key(p, final.VotingEndTime)}
  <2>1. CASE LateQuorumExtends(e)
    BY <2>1, <1>4 DEF CheckQuorumReached, MoveActiveKey
  <2>2. CASE ~LateQuorumExtends(e)
    <3>1. UNCHANGED activeQueue
      BY <2>2 DEF CheckQuorumReached
    <3>2. Key(p, proposals[p].VotingEndTime) \in activeQueue
      BY <1>1, <1>2, QueuesSplit
    <3> QED
      BY <2>2, <3>1, <3>2
  <2> QED
    BY <2>1, <2>2
<1> HIDE DEF final, p
<1> QED
  BY <1>2, <1>4, <1>5, <1>6, <1>8, <1>9, <1>7, RewriteVotingInv

\* A step that changes only the quorum-check queue, and keeps it right, preserves the
\* invariant.
LEMMA QuorumQueueInv ==
    ASSUME Inv, quorumQueue' \subseteq QuorumKey, QuorumChecksInTime', ChecksFitVoting',
           phase = "quorum", PanicsOnlyFromParams',
           UNCHANGED <<now, phase, params, proposals, votingPeriodKeys, proposalID,
                       inactiveQueue, activeQueue, inactiveNumber, activeNumber,
                       lastMinDeposit, lastMinInitialDeposit, deposits, votes, balances,
                       moduleBalance, burnt, ema>>
    PROVE  Inv'
<1> USE DEF Inv
<1>1. TypeOK'
  <2>1. panic' \subseteq {"counter", "division", "funds", "missing", "nil"}
    BY DEF PanicsOnlyFromParams
  <2> QED
    BY <2>1 DEF TypeOK
<1>2. QueuesMatchProposals' /\ CountersMatchProposals'
  BY DEF QueuesMatchProposals, CountersMatchProposals, Ids
<1>3. DepositsConserved' /\ DepositsOnLive'
  BY SumsUnchanged DEF DepositsConserved, DepositsOnLive, Ids
<1>4. ChecksBeforeTally' /\ FreeIds' /\ VetoedHasNoVotes'
  BY DEF ChecksBeforeTally, FreeIds, VetoedHasNoVotes, Ids
<1> QED
  BY <1>1, <1>2, <1>3, <1>4

\* A failed quorum check preserves the invariant: it panics only on checks that are not
\* spaced, or the next check lies between this one and the voting end.
LEMMA CheckQuorumMissedInv ==
    ASSUME Inv, NEW e \in quorumQueue, CheckQuorumMissed(e)
    PROVE  Inv'
<1> DEFINE p == e.id
           again == /\ e.QuorumChecksDone < e.QuorumCheckCount
                    /\ proposals[p].VotingEndTime > now
           entry == [e EXCEPT !.time = NextCheckTime(e), !.QuorumChecksDone = @ + 1]
           added == IF again THEN {entry} ELSE {}
           same == UNCHANGED <<now, phase, params, proposals, votingPeriodKeys, proposalID,
                               inactiveQueue, activeQueue, inactiveNumber, activeNumber,
                               lastMinDeposit, lastMinInitialDeposit, deposits, votes,
                               balances, moduleBalance, burnt, ema>>
<1>1. /\ e \in QuorumKey /\ p \in ProposalIds
      /\ e.QuorumCheckCount \in Nat \ {0} /\ e.QuorumChecksDone \in Nat
      /\ e.QuorumTimeoutTime \in Nat
      /\ proposals[p].Status \in {"VotingPeriod", "Vetoed"}
      /\ SpacedChecks => e.QuorumTimeoutTime + e.QuorumCheckCount
                            <= proposals[p].VotingEndTime
      /\ MissingPanic(p) = {}
  BY CheckFacts
<1>2. /\ phase = "quorum" /\ same
      /\ IF again /\ CheckInterval(e) = 0
           THEN panic' = {"division"} /\ quorumQueue' = quorumQueue
           ELSE panic' = {} /\ quorumQueue' = (quorumQueue \ {e}) \cup added
  BY <1>1 DEF CheckQuorumMissed, Walking, proposalVars, throttleVars, bankVars
<1>3. CASE again /\ CheckInterval(e) = 0
  <2>1. panic' = {"division"} /\ UNCHANGED quorumQueue
    BY <1>2, <1>3
  <2>2. ~SpacedChecks
    BY <1>3, SpacedInterval
  <2>3. PanicsOnlyFromParams'
    BY <2>1, <2>2 DEF PanicsOnlyFromParams
  <2>4. quorumQueue' \subseteq QuorumKey /\ QuorumChecksInTime' /\ ChecksFitVoting'
    BY <1>2, <2>1 DEF Inv, TypeOK, QuorumChecksInTime, ChecksFitVoting
  <2> QED
    BY <1>2, <2>3, <2>4, QuorumQueueInv
<1>4. CASE ~again
  <2>1. panic' = {} /\ quorumQueue' = quorumQueue \ {e}
    BY <1>2, <1>4
  <2>2. PanicsOnlyFromParams'
    BY <2>1 DEF PanicsOnlyFromParams
  <2>3. quorumQueue' \subseteq QuorumKey /\ QuorumChecksInTime' /\ ChecksFitVoting'
    BY <1>2, <2>1 DEF Inv, TypeOK, QuorumChecksInTime, ChecksFitVoting
  <2> QED
    BY <1>2, <2>2, <2>3, QuorumQueueInv
<1>5. CASE again /\ CheckInterval(e) # 0
  <2>1. panic' = {} /\ quorumQueue' = (quorumQueue \ {e}) \cup {entry}
    BY <1>2, <1>5
  <2>2. /\ NextCheckTime(e) \in Nat
        /\ e.QuorumTimeoutTime <= NextCheckTime(e)
        /\ NextCheckTime(e) <= proposals[p].VotingEndTime
    BY <1>5, NextCheckFacts
  <2>3. PanicsOnlyFromParams'
    BY <2>1 DEF PanicsOnlyFromParams
  <2>4. /\ entry \in QuorumKey /\ entry.id = p /\ entry.time = NextCheckTime(e)
        /\ entry.QuorumTimeoutTime = e.QuorumTimeoutTime
        /\ entry.QuorumCheckCount = e.QuorumCheckCount
        /\ entry.QuorumChecksDone = e.QuorumChecksDone + 1
    <3> DEFINE t == NextCheckTime(e)
               d == e.QuorumChecksDone + 1
    <3>1. /\ t \in Nat /\ d \in Nat /\ e \in QuorumKey
          /\ entry = [e EXCEPT !.time = t, !.QuorumChecksDone = d]
      BY <1>1, <2>2
    <3> HIDE DEF t, d, entry
    <3>2. /\ entry \in QuorumKey /\ entry.id = e.id /\ entry.time = t
          /\ entry.QuorumTimeoutTime = e.QuorumTimeoutTime
          /\ entry.QuorumCheckCount = e.QuorumCheckCount
          /\ entry.QuorumChecksDone = d
      BY <3>1 DEF QuorumKey
    <3> QED
      BY <3>2 DEF t, d
  <2>5. /\ quorumQueue \subseteq QuorumKey
        /\ \A f \in quorumQueue : f # e => f.id # p
    BY DEF Inv, TypeOK, QuorumChecksInTime
  <2>6. e.QuorumChecksDone + 1 <= e.QuorumCheckCount
    BY <1>1, <1>5
  <2> HIDE DEF entry, p
  <2>7. quorumQueue' \subseteq QuorumKey
    BY <2>1, <2>4, <2>5
  <2>8. \A f \in quorumQueue' : \/ f \in quorumQueue /\ f.id # p
                                \/ f = entry
    BY <2>1, <2>5
  <2>9. QuorumChecksInTime'
    <3>1. \A f \in quorumQueue' :
             /\ proposals[f.id].Status \in {"VotingPeriod", "Vetoed"}
             /\ f.QuorumTimeoutTime <= f.time
             /\ f.time <= proposals[f.id].VotingEndTime
             /\ f.QuorumChecksDone <= f.QuorumCheckCount
      BY <1>1, <2>2, <2>4, <2>6, <2>8 DEF Inv, QuorumChecksInTime
    <3>2. \A f, g \in quorumQueue' : f.id = g.id => f = g
      BY <2>4, <2>8 DEF Inv, QuorumChecksInTime
    <3> QED
      BY <1>2, <3>1, <3>2 DEF QuorumChecksInTime
  <2>10. ChecksFitVoting'
    BY <1>1, <1>2, <2>4, <2>8 DEF Inv, ChecksFitVoting
  <2> QED
    BY <1>2, <2>3, <2>7, <2>9, <2>10, QuorumQueueInv
<1> QED
  BY <1>3, <1>4, <1>5

\* A quorum check the staking module fails on preserves the invariant.
LEMMA CheckQuorumErrorInv ==
    ASSUME Inv, NEW e \in quorumQueue, CheckQuorumError(e)
    PROVE  Inv'
<1>1. /\ phase = "quorum" /\ panic' = {}
      /\ quorumQueue' = quorumQueue \ {e}
      /\ UNCHANGED <<now, phase, params, proposals, votingPeriodKeys, proposalID,
                     inactiveQueue, activeQueue, inactiveNumber, activeNumber,
                     lastMinDeposit, lastMinInitialDeposit, deposits, votes, balances,
                     moduleBalance, burnt, ema>>
  BY CheckFacts DEF CheckQuorumError, Walking, proposalVars, throttleVars, bankVars
<1>2. quorumQueue' \subseteq QuorumKey
  BY <1>1 DEF Inv, TypeOK
<1>3. QuorumChecksInTime' /\ ChecksFitVoting'
  BY <1>1 DEF Inv, QuorumChecksInTime, ChecksFitVoting
<1>4. PanicsOnlyFromParams'
  BY <1>1 DEF PanicsOnlyFromParams
<1> QED
  BY <1>1, <1>2, <1>3, <1>4, QuorumQueueInv

-----------------------------------------------------------------------------
(* Steps that end a proposal *)

\* A step that ends the live proposal p, settles its deposits and takes it out of the
\* queues and the counters preserves the invariant.  If it leaves a quorum check of p
\* behind, it is a veto.
LEMMA CloseInv ==
    ASSUME Inv, NEW p \in ProposalIds, NEW prop \in Proposal, NEW burn,
           proposals[p].Status \in Live, prop.Status \notin Live,
           SetProposal(p, prop), SettleDeposits(p, burn),
           inactiveQueue' = Others(inactiveQueue, p),
           activeQueue' = Others(activeQueue, p),
           inactiveNumber' = inactiveNumber
              - (IF proposals[p].Status = "DepositPeriod" THEN 1 ELSE 0),
           activeNumber' = activeNumber
              - (IF proposals[p].Status = "VotingPeriod" THEN 1 ELSE 0),
           \A e \in quorumQueue : e.id = p =>
              prop.Status = "Vetoed" /\ prop.VotingEndTime = proposals[p].VotingEndTime,
           votes' \in [ProposalIds -> [Voters -> Options \cup {NoVote}]],
           \A q \in ProposalIds : q # p => votes'[q] = votes[q],
           prop.Status = "Vetoed" => \A v \in Voters : votes'[p][v] = NoVote,
           UNCHANGED <<now, phase, proposalID, quorumQueue>>,
           params' \in ParamSets, ema' \in [Kinds -> Nat],
           lastMinDeposit' \in LastMinDeposit, lastMinInitialDeposit' \in LastMinDeposit,
           panic' = {}
    PROVE  Inv'
<1>1. /\ TypeOK /\ QueuesMatchProposals /\ CountersMatchProposals /\ Checks
      /\ DepositsConserved /\ DepositsOnLive /\ FreeIds /\ VetoedHasNoVotes
  BY DEF Inv, Checks
<1>2. /\ proposals' = [proposals EXCEPT ![p] = prop]
      /\ proposals' \in [ProposalIds -> Proposal]
      /\ proposals'[p] = prop
      /\ \A q \in ProposalIds : q # p => proposals'[q] = proposals[q]
      /\ votingPeriodKeys' \subseteq ProposalIds
  BY <1>1 DEF SetProposal, TypeOK
<1>3. moduleBalance = TotalDeposits
  BY <1>1 DEF DepositsConserved
<1>4. /\ deposits' \in [ProposalIds -> [Accounts -> Nat]]
      /\ balances' \in [Accounts -> Nat] /\ burnt' \in [Accounts -> Nat]
      /\ moduleBalance' \in Nat
      /\ \A a \in Accounts : deposits'[p][a] = 0
      /\ \A q \in ProposalIds : q # p => /\ deposits'[q] = deposits[q]
                                        /\ DepositSum(q)' = DepositSum(q)
      /\ moduleBalance' = TotalDeposits'
      /\ \A a \in Accounts : balances'[a] + burnt'[a] + AccountDeposits(a)' =
                                balances[a] + burnt[a] + AccountDeposits(a)
  BY <1>1, <1>3, DepositsSettled, Zenon
<1>5. prop.Status # "DepositPeriod" /\ prop.Status # "VotingPeriod"
  BY DEF Live
<1>6. QueuesMatchProposals'
  BY <1>1, <1>5, StoreTypes, QueuesStep
<1>7. CountersMatchProposals' /\ inactiveNumber' \in Nat /\ activeNumber' \in Nat
  <2>1. inactiveNumber \in Nat /\ activeNumber \in Nat
    BY <1>1 DEF TypeOK
  <2>2. /\ proposals[p].Status = "DepositPeriod" => inactiveNumber > 0
        /\ proposals[p].Status = "VotingPeriod" => activeNumber > 0
    BY <1>1, CountersCount
  <2>3. /\ inactiveNumber' = inactiveNumber
              - (IF proposals[p].Status = "DepositPeriod" THEN 1 ELSE 0)
              + (IF prop.Status = "DepositPeriod" THEN 1 ELSE 0)
        /\ activeNumber' = activeNumber
              - (IF proposals[p].Status = "VotingPeriod" THEN 1 ELSE 0)
              + (IF prop.Status = "VotingPeriod" THEN 1 ELSE 0)
    BY <1>5, <2>1
  <2>4. CountersMatchProposals'
    BY <1>1, <1>2, <2>3, CountersStep
  <2> QED
    BY <2>1, <2>2, <2>4
<1>8. Checks'
  <2>1. \A e \in quorumQueue : e.id \in ProposalIds
    BY <1>1 DEF TypeOK, QuorumKey
  <2>2. \A e \in quorumQueue : proposals[e.id].Status \in {"VotingPeriod", "Vetoed"}
    BY <1>1 DEF Checks, QuorumChecksInTime
  <2>3. \A q \in ProposalIds : proposals[q].VotingEndTime \in Nat
    BY <1>1 DEF TypeOK, Proposal
  <2>4. \A e \in quorumQueue' :
           /\ proposals'[e.id].Status \in {"VotingPeriod", "Vetoed"}
           /\ proposals'[e.id].VotingEndTime >= proposals[e.id].VotingEndTime
    BY <1>2, <2>1, <2>2, <2>3
  <2>5. phase' = "active" => \A e \in quorumQueue' : e.time > now'
    BY <1>1 DEF Checks, ChecksBeforeTally, NoneDue
  <2> QED
    BY <1>1, <1>2, <2>4, <2>5, ChecksKept
<1>9. TypeOK'
  <2>1. inactiveQueue' \subseteq QueueKey /\ activeQueue' \subseteq QueueKey
    BY <1>1 DEF TypeOK, Others
  <2> QED
    BY <1>1, <1>2, <1>4, <1>7, <2>1 DEF TypeOK
<1>10. DepositsConserved' /\ DepositsOnLive'
  <2>1. \A q \in ProposalIds :
           proposals'[q].Status \in Live => proposals'[q].TotalDeposit = DepositSum(q)'
    BY <1>1, <1>2, <1>4 DEF DepositsConserved, Ids
  <2>2. \A a \in Accounts : balances'[a] + burnt'[a] + AccountDeposits(a)' = InitialBalance
    BY <1>1, <1>4 DEF DepositsConserved
  <2> QED
    BY <1>1, <1>2, <1>4, <2>1, <2>2 DEF DepositsConserved, DepositsOnLive, Ids
<1>11. FreeIds'
  BY <1>1, <1>2 DEF FreeIds, Live
<1>12. VetoedHasNoVotes'
  BY <1>1, <1>2 DEF VetoedHasNoVotes, Ids
<1> QED
  BY <1>6, <1>7, <1>8, <1>9, <1>10, <1>11, <1>12 DEF Inv, Checks, PanicsOnlyFromParams

\* Nothing stands in the way of settling the deposits of p.
LEMMA NoFundsPanic ==
    ASSUME Inv, NEW p \in ProposalIds
    PROVE  FundsPanic(p) = {}
<1>1. TypeOK /\ moduleBalance = TotalDeposits
  BY DEF Inv, DepositsConserved
<1>2. DepositSum(p) \in Nat /\ TotalDeposits \in Nat /\ DepositSum(p) <= TotalDeposits
  BY <1>1, StoreTypes, DepositSumsType
<1> QED
  BY <1>1, <1>2 DEF FundsPanic

\* Deleting a proposal at the end of its deposit period preserves the invariant.
LEMMA DropDueInv ==
    ASSUME Inv, NEW e \in inactiveQueue, DropDue(e)
    PROVE  Inv'
<1> DEFINE p == e.id
           burn == params.BurnProposalDepositPrevote
<1>1. p \in ProposalIds /\ proposals[p].Status = "DepositPeriod"
  BY InactiveDue
<1>2. TypeOK /\ QueuesMatchProposals /\ CountersMatchProposals
  BY DEF Inv
<1>3. NoProposal \in Proposal /\ NoProposal.Status = "None"
  BY DEF NoProposal, Proposal, Statuses
<1>4. /\ SetProposal(p, NoProposal) /\ SettleDeposits(p, burn)
      /\ inactiveQueue' = inactiveQueue \ {Key(p, proposals[p].DepositEndTime)}
      /\ activeQueue' = activeQueue \ {Key(p, proposals[p].VotingEndTime)}
      /\ inactiveNumber' = inactiveNumber - 1
      /\ panic' = MissingPanic(p) \cup FundsPanic(p) \cup CounterPanic(inactiveNumber)
      /\ UNCHANGED <<now, phase, params, proposalID, quorumQueue, activeNumber,
                     lastMinDeposit, lastMinInitialDeposit, votes, ema>>
  BY DEF DropDue, Decrement, throttleVars
<1>5. /\ inactiveQueue' = Others(inactiveQueue, p)
      /\ activeQueue' = Others(activeQueue, p)
  BY <1>1, <1>2, <1>4, QueuesSplit
<1>6. panic' = {}
  <2>1. inactiveNumber > 0 /\ FundsPanic(p) = {}
    BY <1>1, <1>2, CountersCount, NoFundsPanic
  <2>2. inactiveNumber # 0
    BY <2>1, <1>2 DEF TypeOK
  <2> QED
    BY <1>1, <1>4, <2>1, <2>2 DEF CounterPanic, MissingPanic
<1>7. \A f \in quorumQueue : f.id # p
  BY <1>1 DEF Inv, QuorumChecksInTime
<1>8. /\ inactiveNumber' = inactiveNumber
            - (IF proposals[p].Status = "DepositPeriod" THEN 1 ELSE 0)
      /\ activeNumber' = activeNumber
            - (IF proposals[p].Status = "VotingPeriod" THEN 1 ELSE 0)
  BY <1>1, <1>2, <1>4 DEF TypeOK
<1>9. /\ votes' \in [ProposalIds -> [Voters -> Options \cup {NoVote}]]
      /\ params' \in ParamSets /\ ema' \in [Kinds -> Nat]
      /\ lastMinDeposit' \in LastMinDeposit /\ lastMinInitialDeposit' \in LastMinDeposit
  BY <1>2, <1>4 DEF TypeOK
<1>10. proposals[p].Status \in Live /\ NoProposal.Status \notin Live
  BY <1>1, <1>3 DEF Live
<1> HIDE DEF p, burn
<1> QED
  BY <1>1, <1>3, <1>4, <1>5, <1>6, <1>7, <1>8, <1>9, <1>10, CloseInv

\* When the voting period of p is tallied, no quorum check of p is left: it would be
\* due by the voting end, and every due check has been walked.
LEMMA TalliedIsChecked ==
    ASSUME Inv, NEW e \in activeQueue, Walking("active"), IsFirstDue(activeQueue, e)
    PROVE  \A f \in quorumQueue : f.id # e.id
<1>1. e.time = proposals[e.id].VotingEndTime /\ e.time <= now
  BY ActiveDue DEF IsFirstDue
<1>2. \A f \in quorumQueue : /\ f.time > now
                             /\ f.time <= proposals[f.id].VotingEndTime
  BY DEF Inv, ChecksBeforeTally, NoneDue, Walking, QuorumChecksInTime
<1>3. \A f \in quorumQueue : f.time \in Nat
  BY CheckFacts
<1>4. now \in Nat /\ e.time \in Nat
  BY DEF Inv, TypeOK, QueueKey
<1> QED
  BY <1>1, <1>2, <1>3, <1>4

\* A proposal with a new status is a proposal, and nothing else of it changes.
LEMMA StatusRewritten ==
    ASSUME NEW old \in Proposal, NEW status \in Statuses
    PROVE  LET prop == [old EXCEPT !.Status = status]
           IN  /\ prop \in Proposal /\ prop.Status = status
               /\ prop.VotingEndTime = old.VotingEndTime
BY DEF Proposal

\* A proposal in its voting period is in the active queue once, and in no other.
LEMMA VotingSplit ==
    ASSUME QueuesMatchProposals, NEW p \in ProposalIds,
           proposals[p].Status = "VotingPeriod"
    PROVE  /\ inactiveQueue = Others(inactiveQueue, p)
           /\ activeQueue \ {Key(p, proposals[p].VotingEndTime)} = Others(activeQueue, p)
           /\ Key(p, proposals[p].VotingEndTime) \in activeQueue
<1>1. /\ inactiveQueue = Others(inactiveQueue, p) \cup {}
      /\ activeQueue = Others(activeQueue, p) \cup {Key(p, proposals[p].VotingEndTime)}
      /\ \A t : Key(p, t) \notin Others(activeQueue, p)
  BY QueuesSplit
<1> QED
  BY <1>1

\* CloseVoting preserves the invariant.
LEMMA CloseVotingInv ==
    ASSUME Inv, NEW e \in activeQueue, Walking("active"), IsFirstDue(activeQueue, e),
           NEW status \in {"Passed", "Rejected", "Failed"}, NEW burn, NEW part \in Nat,
           CloseVoting(e.id, status, burn, part),
           votes' \in [ProposalIds -> [Voters -> Options \cup {NoVote}]],
           \A q \in ProposalIds : q # e.id => votes'[q] = votes[q],
           params' \in ParamSets,
           lastMinDeposit' \in LastMinDeposit, lastMinInitialDeposit' \in LastMinDeposit
    PROVE  Inv'
<1> DEFINE p == e.id
           prop == [proposals[p] EXCEPT !.Status = status]
<1>1. p \in ProposalIds /\ proposals[p].Status = "VotingPeriod"
  BY ActiveDue
<1>2. TypeOK /\ QueuesMatchProposals /\ CountersMatchProposals
  BY DEF Inv
<1>3. prop \in Proposal /\ prop.Status = status
  <2>1. proposals[p] \in Proposal /\ status \in Statuses
    BY <1>1, <1>2 DEF TypeOK, Statuses
  <2> QED
    BY <2>1, StatusRewritten
<1>4. /\ SetProposal(p, prop) /\ SettleDeposits(p, burn)
      /\ activeQueue' = activeQueue \ {Key(p, proposals[p].VotingEndTime)}
      /\ activeNumber' = activeNumber - 1
      /\ ema' = UpdateParticipationEMA(ema, proposals[p].Content.kinds, part)
      /\ panic' = MissingPanic(p) \cup FundsPanic(p) \cup CounterPanic(activeNumber)
      /\ UNCHANGED <<now, phase, proposalID, inactiveQueue, quorumQueue, inactiveNumber>>
  BY DEF CloseVoting, Decrement
<1>5. /\ inactiveQueue' = Others(inactiveQueue, p)
      /\ activeQueue' = Others(activeQueue, p)
  BY <1>1, <1>2, <1>4, VotingSplit
<1>6. panic' = {}
  <2>1. activeNumber > 0 /\ FundsPanic(p) = {}
    BY <1>1, <1>2, CountersCount, NoFundsPanic
  <2>2. activeNumber # 0
    BY <2>1, <1>2 DEF TypeOK
  <2> QED
    BY <1>1, <1>4, <2>1, <2>2 DEF CounterPanic, MissingPanic
<1>7. \A f \in quorumQueue : f.id # p
  BY TalliedIsChecked
<1>8. /\ inactiveNumber' = inactiveNumber
            - (IF proposals[p].Status = "DepositPeriod" THEN 1 ELSE 0)
      /\ activeNumber' = activeNumber
            - (IF proposals[p].Status = "VotingPeriod" THEN 1 ELSE 0)
  BY <1>1, <1>2, <1>4 DEF TypeOK
<1>9. ema' \in [Kinds -> Nat]
  BY <1>2, <1>4, UpdateParticipationEMAType DEF TypeOK
<1>10. proposals[p].Status \in Live /\ prop.Status \notin Live /\ prop.Status # "Vetoed"
  BY <1>1, <1>3 DEF Live
<1> HIDE DEF p, prop
<1>11. \A q \in ProposalIds : q # p => votes'[q] = votes[q]
  BY DEF p
<1> QED
  BY <1>1, <1>3, <1>4, <1>5, <1>6, <1>7, <1>8, <1>9, <1>10, <1>11, CloseInv

\* The messages of a passed proposal leave valid parameters behind.
LEMMA ExecuteMessagesType ==
    ASSUME TypeOK, NEW content \in Contents \cup {NoContent}, ExecuteMessages(content)
    PROVE  /\ params' \in ParamSets
           /\ lastMinDeposit' \in LastMinDeposit /\ lastMinInitialDeposit' \in LastMinDeposit
<1>1. CASE content.fails \/ content.params = NoParams
  BY <1>1 DEF ExecuteMessages, TypeOK, throttleVars
<1>2. CASE ~(content.fails \/ content.params = NoParams)
  <2>1. content.params \in ParamSets
    BY <1>2, InstanceAssumption DEF Content, NoContent
  <2>2. /\ params' = content.params
        /\ lastMinDeposit' = [lastMinDeposit EXCEPT !.Time = now]
        /\ lastMinInitialDeposit' = [lastMinInitialDeposit EXCEPT !.Time = now]
    BY <1>2 DEF ExecuteMessages
  <2> QED
    BY <2>1, <2>2 DEF TypeOK, LastMinDeposit
<1> QED
  BY <1>1, <1>2

\* A tally preserves the invariant, whatever the outcome.
LEMMA TallyDueInv ==
    ASSUME Inv, NEW e \in activeQueue, TallyDue(e)
    PROVE  Inv'
<1> DEFINE p == e.id
           prop == proposals[p]
           quorum == ProposalQuorum(p)
           threshold == GetThreshold(params, prop.Content.kinds, prop.Endorsed)
           part == Participation(votes[p], Power, TotalBonded)
           burn == BurnsDeposits(votes[p], Power, TotalBonded, quorum, threshold, params)
<1>1. TypeOK
  BY DEF Inv
<1>2. p \in ProposalIds
  BY ActiveDue
<1>3. part \in Nat
  BY <1>1, <1>2, ParticipationType DEF TypeOK
<1>4. prop.Content \in Contents \cup {NoContent}
  BY <1>1, <1>2 DEF TypeOK, Proposal
<1>5. /\ votes' \in [ProposalIds -> [Voters -> Options \cup {NoVote}]]
      /\ \A q \in ProposalIds : q # p => votes'[q] = votes[q]
  <2>1. DeleteVotes(p)
    BY DEF TallyDue
  <2> QED
    BY <1>1, <1>2, <2>1 DEF DeleteVotes, TypeOK
<1>6. Walking("active") /\ IsFirstDue(activeQueue, e)
  BY DEF TallyDue
<1>7. \/ /\ CloseVoting(p, IF prop.Content.fails THEN "Failed" ELSE "Passed", FALSE, part)
         /\ ExecuteMessages(prop.Content)
      \/ /\ CloseVoting(p, "Rejected", burn, part)
         /\ UNCHANGED <<params, lastMinDeposit, lastMinInitialDeposit>>
  BY DEF TallyDue, throttleVars
<1>8. /\ params' \in ParamSets
      /\ lastMinDeposit' \in LastMinDeposit /\ lastMinInitialDeposit' \in LastMinDeposit
  <2>1. CASE ExecuteMessages(prop.Content)
    BY <1>1, <1>4, <2>1, ExecuteMessagesType
  <2>2. CASE UNCHANGED <<params, lastMinDeposit, lastMinInitialDeposit>>
    BY <1>1, <2>2 DEF TypeOK
  <2> QED
    BY <1>7, <2>1, <2>2
<1> HIDE DEF part, burn
<1>9. \E status \in {"Passed", "Rejected", "Failed"} : \E b : CloseVoting(p, status, b, part)
  BY <1>7
<1> QED
  BY <1>3, <1>5, <1>6, <1>8, <1>9, CloseVotingInv

\* A tally the staking module fails on preserves the invariant.
LEMMA TallyDueErrorInv ==
    ASSUME Inv, NEW e \in activeQueue, TallyDueError(e)
    PROVE  Inv'
<1>1. TypeOK /\ e.id \in ProposalIds
  BY ActiveDue DEF Inv
<1>2. PICK kept \in SUBSET Voters :
         votes' = [votes EXCEPT ![e.id] =
                      [v \in Voters |-> IF v \in kept THEN votes[e.id][v] ELSE NoVote]]
  BY DEF TallyDueError
<1>3. /\ votes' \in [ProposalIds -> [Voters -> Options \cup {NoVote}]]
      /\ \A q \in ProposalIds : q # e.id => votes'[q] = votes[q]
  BY <1>1, <1>2 DEF TypeOK
<1>4. /\ Walking("active") /\ IsFirstDue(activeQueue, e)
      /\ CloseVoting(e.id, "Rejected", FALSE, 0)
      /\ UNCHANGED <<params, lastMinDeposit, lastMinInitialDeposit>>
  BY DEF TallyDueError, throttleVars
<1>5. /\ params' \in ParamSets
      /\ lastMinDeposit' \in LastMinDeposit /\ lastMinInitialDeposit' \in LastMinDeposit
  BY <1>1, <1>4 DEF TypeOK
<1> QED
  BY <1>3, <1>4, <1>5, CloseVotingInv

-----------------------------------------------------------------------------
(* The messages of the DAOs *)

\* A handler that rewrites fields of a proposal in its voting period, but neither its
\* end nor its total deposit, preserves the invariant.
LEMMA SameEndInv ==
    ASSUME Inv, NEW p \in ProposalIds, NEW prop \in Proposal,
           proposals[p].Status = "VotingPeriod", prop.Status = proposals[p].Status,
           prop.TotalDeposit = proposals[p].TotalDeposit,
           prop.VotingEndTime = proposals[p].VotingEndTime,
           RewriteProposal(p, prop), UNCHANGED activeQueue
    PROVE  Inv'
<1>1. /\ Key(p, proposals[p].VotingEndTime) \in activeQueue
      /\ proposals[p].VotingEndTime \in Nat
  BY VotingSplit DEF Inv, TypeOK, Proposal
<1>2. activeQueue' = (activeQueue \ {Key(p, proposals[p].VotingEndTime)})
                         \cup {Key(p, prop.VotingEndTime)}
  BY <1>1
<1>3. PanicsOnlyFromParams'
  BY DEF Inv, PanicsOnlyFromParams, RewriteProposal
<1> QED
  BY <1>1, <1>2, <1>3, RewriteVotingInv DEF RewriteProposal, throttleVars, bankVars

\* Annotating a proposal preserves the invariant.
LEMMA AnnotateProposalInv ==
    ASSUME Inv, NEW signer, NEW p \in ProposalIds, NEW overwrite,
           AnnotateProposal(signer, p, overwrite)
    PROVE  Inv'
<1> DEFINE prop == [proposals[p] EXCEPT !.Annotation = TRUE]
<1>1. /\ proposals[p].Status = "VotingPeriod" /\ RewriteProposal(p, prop)
      /\ UNCHANGED activeQueue
  BY DEF AnnotateProposal, InVotingPeriod
<1>2. proposals[p] \in Proposal
  BY DEF Inv, TypeOK
<1>3. /\ prop \in Proposal /\ prop.Status = proposals[p].Status
      /\ prop.TotalDeposit = proposals[p].TotalDeposit
      /\ prop.VotingEndTime = proposals[p].VotingEndTime
  BY <1>2 DEF Proposal
<1> HIDE DEF prop
<1> QED
  BY <1>1, <1>3, SameEndInv

\* Endorsing a proposal preserves the invariant.
LEMMA EndorseProposalInv ==
    ASSUME Inv, NEW signer, NEW p \in ProposalIds, EndorseProposal(signer, p)
    PROVE  Inv'
<1> DEFINE prop == [proposals[p] EXCEPT !.Endorsed = TRUE]
<1>1. /\ proposals[p].Status = "VotingPeriod" /\ RewriteProposal(p, prop)
      /\ UNCHANGED activeQueue
  BY DEF EndorseProposal, InVotingPeriod
<1>2. proposals[p] \in Proposal
  BY DEF Inv, TypeOK
<1>3. /\ prop \in Proposal /\ prop.Status = proposals[p].Status
      /\ prop.TotalDeposit = proposals[p].TotalDeposit
      /\ prop.VotingEndTime = proposals[p].VotingEndTime
  BY <1>2 DEF Proposal
<1> HIDE DEF prop
<1> QED
  BY <1>1, <1>3, SameEndInv

\* A proposal with a new voting end is a proposal, with the same deposit and status.
LEMMA EndExtended ==
    ASSUME NEW old \in Proposal, NEW end \in Nat
    PROVE  LET prop == [old EXCEPT !.VotingEndTime = end,
                                   !.TimesVotingPeriodExtended = @ + 1]
           IN  /\ prop \in Proposal /\ prop.Status = old.Status
               /\ prop.TotalDeposit = old.TotalDeposit
               /\ prop.VotingEndTime = end
<1> DEFINE times == old.TimesVotingPeriodExtended + 1
<1>1. times \in Nat
  BY DEF Proposal
<1> HIDE DEF times
<1>2. LET prop == [old EXCEPT !.VotingEndTime = end, !.TimesVotingPeriodExtended = times]
      IN  /\ prop \in Proposal /\ prop.Status = old.Status
          /\ prop.TotalDeposit = old.TotalDeposit
          /\ prop.VotingEndTime = end
  BY <1>1 DEF Proposal
<1> QED
  BY <1>2 DEF times

\* Extending the voting period preserves the invariant: the new end is later, so that
\* the scheduled quorum checks still lie before it.
LEMMA ExtendVotingPeriodInv ==
    ASSUME Inv, NEW signer, NEW p \in ProposalIds, ExtendVotingPeriod(signer, p)
    PROVE  Inv'
<1> DEFINE end == proposals[p].VotingEndTime + ExtensionDuration
           prop == [proposals[p] EXCEPT !.VotingEndTime = end,
                                        !.TimesVotingPeriodExtended = @ + 1]
<1>1. /\ proposals[p].Status = "VotingPeriod" /\ RewriteProposal(p, prop)
      /\ MoveActiveKey(p, proposals[p].VotingEndTime, end)
  BY DEF ExtendVotingPeriod, InVotingPeriod, NewEndTime
<1>2. proposals[p] \in Proposal
  BY DEF Inv, TypeOK
<1>3. end \in Nat /\ end >= proposals[p].VotingEndTime
  BY <1>2, DaoAssumption DEF Proposal
<1> HIDE DEF end
<1>4. /\ prop \in Proposal /\ prop.Status = proposals[p].Status
      /\ prop.TotalDeposit = proposals[p].TotalDeposit
      /\ prop.VotingEndTime = end
  BY <1>2, <1>3, EndExtended
<1>5. PanicsOnlyFromParams'
  BY <1>1 DEF Inv, PanicsOnlyFromParams, RewriteProposal
<1> HIDE DEF prop
<1> QED
  BY <1>1, <1>3, <1>4, <1>5, RewriteVotingInv
     DEF RewriteProposal, MoveActiveKey, throttleVars, bankVars

\* A veto preserves the invariant: it leaves the quorum check of p, but no vote of p.
LEMMA VetoProposalInv ==
    ASSUME Inv, NEW signer, NEW p \in ProposalIds, NEW burn,
           VetoProposal(signer, p, burn)
    PROVE  Inv'
<1> DEFINE prop == [proposals[p] EXCEPT !.Status = "Vetoed"]
<1>1. TypeOK /\ QueuesMatchProposals /\ CountersMatchProposals /\ panic = {}
  BY DEF Inv, VetoProposal, InTx
<1>2. /\ proposals[p].Status = "VotingPeriod" /\ activeNumber > 0
      /\ SetProposal(p, prop) /\ SettleDeposits(p, burn) /\ DeleteVotes(p)
      /\ activeQueue' = activeQueue \ {Key(p, proposals[p].VotingEndTime)}
      /\ activeNumber' = activeNumber - 1
      /\ lastMinInitialDeposit' = MinInitialDepositUpdate(inactiveNumber, TRUE)
      /\ lastMinDeposit' = MinDepositUpdate(activeNumber - 1, TRUE)
      /\ UNCHANGED <<now, phase, params, proposalID, inactiveQueue, quorumQueue,
                     inactiveNumber, ema, panic>>
  BY DEF VetoProposal, InVotingPeriod, Decrement
<1>3. /\ prop \in Proposal /\ prop.Status = "Vetoed"
      /\ prop.VotingEndTime = proposals[p].VotingEndTime
  <2>1. proposals[p] \in Proposal /\ "Vetoed" \in Statuses
    BY <1>1 DEF TypeOK, Statuses
  <2> QED
    BY <2>1, StatusRewritten
<1>4. /\ inactiveQueue' = Others(inactiveQueue, p)
      /\ activeQueue' = Others(activeQueue, p)
  BY <1>1, <1>2, VotingSplit
<1>5. /\ inactiveNumber \in Nat /\ activeNumber - 1 \in Nat /\ TRUE \in BOOLEAN
      /\ params \in ParamSets /\ ema \in [Kinds -> Nat]
  BY <1>1, <1>2 DEF TypeOK
<1>6. lastMinDeposit' \in LastMinDeposit /\ lastMinInitialDeposit' \in LastMinDeposit
  BY <1>1, <1>2, <1>5, ThrottlersType
<1>7. /\ votes' \in [ProposalIds -> [Voters -> Options \cup {NoVote}]]
      /\ \A q \in ProposalIds : q # p => votes'[q] = votes[q]
      /\ \A v \in Voters : votes'[p][v] = NoVote
  BY <1>1, <1>2 DEF TypeOK, DeleteVotes
<1>8. /\ inactiveNumber' = inactiveNumber
            - (IF proposals[p].Status = "DepositPeriod" THEN 1 ELSE 0)
      /\ activeNumber' = activeNumber
            - (IF proposals[p].Status = "VotingPeriod" THEN 1 ELSE 0)
  BY <1>2, <1>5
<1>9. proposals[p].Status \in Live /\ prop.Status \notin Live
  BY <1>2, <1>3 DEF Live
<1> HIDE DEF prop
<1> QED
  BY <1>1, <1>2, <1>3, <1>4, <1>5, <1>6, <1>7, <1>8, <1>9, CloseInv

-----------------------------------------------------------------------------
(* The theorems *)

\* A chain starts with the invariant.
LEMMA InitInv ==
    ASSUME Init
    PROVE  Inv
<1> USE DEF Init
<1>1. TypeOK
  <2>1. /\ InitParams \in ParamSets
        /\ InitParams.MinDepositThrottler.FloorValue \in Nat
        /\ InitParams.MinInitialDepositThrottler.FloorValue \in Nat
    BY ParamsAssumption DEF ParamsType, ThrottlerParams
  <2>2. lastMinDeposit \in LastMinDeposit /\ lastMinInitialDeposit \in LastMinDeposit
    BY <2>1, InstanceAssumption DEF LastMinDeposit
  <2>3. NoProposal \in Proposal
    BY DEF NoProposal, Proposal, Statuses
  <2>4. InitEMA \in Nat /\ StartTime \in Nat /\ InitialBalance \in Nat
    BY InstanceAssumption DEF One
  <2>5. proposalID \in 1 .. MaxProposals + 1
    BY InstanceAssumption
  <2> QED
    BY <2>1, <2>2, <2>3, <2>4, <2>5 DEF TypeOK
<1>2. \A p \in ProposalIds : proposals[p].Status = "None"
  BY DEF NoProposal
<1>3. \A S : "None" \notin S => Ids(S) = {}
  BY <1>2 DEF Ids
<1>4. QueuesMatchProposals /\ CountersMatchProposals
  BY <1>3, FS_EmptySet DEF QueuesMatchProposals, CountersMatchProposals
<1>5. DepositsConserved
  <2>1. \A p \in ProposalIds : DepositSum(p) = 0
    BY SumZero DEF DepositSum
  <2>2. TotalDeposits = 0
    BY <2>1, SumZero DEF TotalDeposits
  <2>3. \A a \in Accounts : AccountDeposits(a) = 0
    BY SumZero DEF AccountDeposits
  <2>4. Ids(Live) = {}
    BY <1>3 DEF Live
  <2> QED
    BY <2>2, <2>3, <2>4, InstanceAssumption DEF DepositsConserved
<1>6. DepositsOnLive /\ FreeIds /\ VetoedHasNoVotes
  BY <1>2 DEF DepositsOnLive, FreeIds, VetoedHasNoVotes, Ids
<1>7. QuorumChecksInTime /\ ChecksFitVoting /\ ChecksBeforeTally /\ PanicsOnlyFromParams
  BY DEF QuorumChecksInTime, ChecksFitVoting, ChecksBeforeTally, NoneDue, PanicsOnlyFromParams
<1> QED
  BY <1>1, <1>4, <1>5, <1>6, <1>7 DEF Inv

\* Every step keeps the invariant.
LEMMA NextInv ==
    ASSUME PositiveQuorum, Inv, [Next]_vars
    PROVE  Inv'
<1>1. CASE Transaction
  BY <1>1, SubmitProposalInv, DepositInv, AddVoteInv DEF Transaction
<1>2. CASE DaoTransaction
  BY <1>2, AnnotateProposalInv, EndorseProposalInv, ExtendVotingPeriodInv, VetoProposalInv
     DEF DaoTransaction
<1>3. CASE EndBlocker
  <2>1. CASE BeginEndBlock \/ InactiveWalked \/ QuorumWalked \/ ActiveWalked
    BY <2>1, WalkedInv
  <2>2. CASE \E e \in inactiveQueue : ActivateDue(e) \/ DropDue(e)
    BY <2>2, ActivateDueInv, DropDueInv
  <2>3. CASE \E e \in quorumQueue :
                CheckQuorumReached(e) \/ CheckQuorumMissed(e) \/ CheckQuorumError(e)
    BY <2>3, CheckQuorumReachedInv, CheckQuorumMissedInv, CheckQuorumErrorInv
  <2>4. CASE \E e \in activeQueue : TallyDue(e) \/ TallyDueError(e)
    BY <2>4, TallyDueInv, TallyDueErrorInv
  <2> QED
    BY <1>3, <2>1, <2>2, <2>3, <2>4 DEF EndBlocker
<1>4. CASE \E gap \in BlockGaps : NextBlock(gap)
  BY <1>4, WalkedInv
<1>5. CASE UNCHANGED vars
  <2>1. UNCHANGED <<now, phase, params, proposals, votingPeriodKeys, proposalID,
                    inactiveQueue, activeQueue, quorumQueue, inactiveNumber, activeNumber,
                    lastMinDeposit, lastMinInitialDeposit, deposits, votes, balances,
                    moduleBalance, burnt, ema, panic>>
    BY <1>5 DEF vars, proposalVars, queueVars, throttleVars, bankVars
  <2> QED
    BY <2>1, PhaseInv DEF Inv, TypeOK, ChecksBeforeTally, NoneDue
<1> QED
  BY <1>1, <1>2, <1>3, <1>4, <1>5 DEF Next

\* Inv is an invariant of governance with the DAOs (x/gov/abci.go and every message
\* handler), for every instance in which no parameter set has a zero quorum.
THEOREM Invariance ==
    ASSUME PositiveQuorum
    PROVE  Spec => []Inv
<1>1. Init => Inv
  BY InitInv
<1>2. Inv /\ [Next]_vars => Inv'
  BY NextInv
<1> QED
  BY <1>1, <1>2, PTL DEF Spec

\* The store keeps its types: no balance, deposit, counter or time becomes negative.
THEOREM TypeCorrect ==
    ASSUME PositiveQuorum
    PROVE  Spec => []TypeOK
<1>1. Inv => TypeOK
  BY DEF Inv
<1> QED
  BY <1>1, Invariance, PTL

\* The time queues and the voting-period keys always match the proposals: extensions,
\* late quorums, vetoes and tallies lose no entry and leave none behind.
THEOREM QueuesConsistent ==
    ASSUME PositiveQuorum
    PROVE  Spec => []QueuesMatchProposals
<1>1. Inv => QueuesMatchProposals
  BY DEF Inv
<1> QED
  BY <1>1, Invariance, PTL

\* The stored proposal counters that drive the throttlers always count right.
THEOREM CountersConsistent ==
    ASSUME PositiveQuorum
    PROVE  Spec => []CountersMatchProposals
<1>1. Inv => CountersMatchProposals
  BY DEF Inv
<1> QED
  BY <1>1, Invariance, PTL

\* EndBlocker halts the chain only on the two kinds of parameters that ValidateBasic
\* should refuse: quorum checks closer than a time unit, and disabled quorum checks
\* without an extension.  No counter, missing proposal or lack of funds ever halts it.
THEOREM HaltsOnlyFromParams ==
    ASSUME PositiveQuorum
    PROVE  Spec => []PanicsOnlyFromParams
<1>1. Inv => PanicsOnlyFromParams
  BY DEF Inv
<1> QED
  BY <1>1, Invariance, PTL

\* Deposits are conserved: the module account is solvent, and an account's balance,
\* deposits and burned deposits always add up to what it started with.
THEOREM DepositsSafe ==
    ASSUME PositiveQuorum
    PROVE  Spec => []DepositsConserved
<1>1. Inv => DepositsConserved
  BY DEF Inv
<1> QED
  BY <1>1, Invariance, PTL

\* Quorum checks lie between the quorum timeout and the voting end, one per proposal,
\* and no tallied proposal has one.
THEOREM QuorumChecksScheduled ==
    ASSUME PositiveQuorum
    PROVE  Spec => []QuorumChecksInTime
<1>1. Inv => QuorumChecksInTime
  BY DEF Inv
<1> QED
  BY <1>1, Invariance, PTL
=============================================================================
