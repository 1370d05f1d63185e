-------------------------- MODULE Enactment_proofs --------------------------
(***************************************************************************)
(* The core DAOs hold no stake and cast no MsgVote, and the constitution is *)
(* amended by the proposals that pass, each in full and once, for every     *)
(* number of accounts, validators and proposals, every text, patch and list *)
(* of messages, and every order of staking, voting and execution.  And an   *)
(* amendment drafted from the constitution applies to it.                   *)
(***************************************************************************)
EXTENDS Enactment, UnifiedDiff_proofs

\* The cached context of a running proposal is well-formed, and the DAOs its messages
\* have installed so far hold no stake: no transaction runs before it is written.
CacheInv ==
    ~Idle =>
       /\ cache.id \in Ids
       /\ cache.next \in Nat \ {0}
       /\ cache = [id |-> cache.id, next |-> cache.next,
                   constitution |-> cache.constitution, daoParams |-> cache.daoParams]
       /\ cache.daoParams \in DaoParams
       /\ \A a \in Daos(cache.daoParams) : ~HasStake(a)

IsMessage(m) ==
    /\ m.type = "daos" => m.params \in DaoParamSets
    /\ m.type = "amendment" => ParseUnifiedDiff(m.patch)

IsMessageList(msgs) ==
    /\ Len(msgs) \in Nat
    /\ DOMAIN msgs = 1 .. Len(msgs)
    /\ \A i \in DOMAIN msgs : IsMessage(msgs[i])

\* Proposals carry DAO parameters of the instance and patches that parse.
MessagesInv ==
    /\ DOMAIN proposals = Ids
    /\ \A p \in Ids : IsMessageList(proposals[p].msgs)

\* The inductive invariant.
DaosInv == CoreDaosTypeOK /\ DaosHoldNoStake /\ CacheInv /\ MessagesInv

LEMMA MessagesType ==
    ASSUME NEW t \in MessageTypes, NEW m \in Messages(t)
    PROVE  IsMessage(m)
BY DEF MessageTypes, Messages, Amendment, Law, UpdateDaos, IsMessage

LEMMA BundlesType ==
    ASSUME NEW msgs \in Bundles
    PROVE  IsMessageList(msgs)
<1>1. CASE \E s \in Shapes : Len(s) = 1 /\ \E m \in Messages(s[1]) : msgs = <<m>>
  <2>1. PICK s \in Shapes : Len(s) = 1 /\ \E m \in Messages(s[1]) : msgs = <<m>>
    BY <1>1
  <2>2. PICK m \in Messages(s[1]) : msgs = <<m>>
    BY <2>1
  <2>3. s[1] \in MessageTypes
    BY <2>1, EnactmentAssumption
  <2>4. IsMessage(m)
    BY <2>3, MessagesType
  <2> QED
    BY <2>2, <2>4 DEF IsMessageList
<1>2. CASE \E s \in Shapes : Len(s) = 2 /\ msgs \in Messages(s[1]) \X Messages(s[2])
  <2>1. PICK s \in Shapes : Len(s) = 2 /\ msgs \in Messages(s[1]) \X Messages(s[2])
    BY <1>2
  <2>2. PICK m \in Messages(s[1]), n \in Messages(s[2]) : msgs = <<m, n>>
    BY <2>1
  <2>3. s[1] \in MessageTypes /\ s[2] \in MessageTypes
    <3>1. s \in {<<t>> : t \in MessageTypes} \cup (MessageTypes \X MessageTypes)
      BY <2>1, EnactmentAssumption, Zenon
    <3>2. s \in MessageTypes \X MessageTypes
      BY <2>1, <3>1
    <3> QED
      BY <3>2
  <2>4. IsMessage(m) /\ IsMessage(n)
    BY <2>3, MessagesType
  <2> QED
    BY <2>2, <2>4 DEF IsMessageList
<1>3. msgs \in Singles \/ msgs \in Pairs
  BY DEF Bundles
<1>4. \/ \E s \in {t \in Shapes : Len(t) = 1} : msgs \in {<<m>> : m \in Messages(s[1])}
      \/ \E s \in {t \in Shapes : Len(t) = 2} : msgs \in Messages(s[1]) \X Messages(s[2])
  BY <1>3, Zenon DEF Singles, Pairs
<1> QED
  BY <1>1, <1>2, <1>4, Zenon

\* A step of staking leaves an account that is no DAO as it may; a DAO stays without stake.
LEMMA StakingKeepsDaos ==
    ASSUME CoreDaosTypeOK, DaosHoldNoStake, StakingStep
    PROVE  CoreDaosTypeOK' /\ DaosHoldNoStake'
<1> USE CoreDaosAssumption
<1>1. /\ daoParams \in DaoParams
      /\ delegated \in [Accounts -> [Validators -> Nat]]
      /\ unbonding \in [Accounts -> Nat]
      /\ checkedVoters \subseteq Accounts
  BY DEF CoreDaosTypeOK
<1>2. Daos(daoParams) \subseteq Accounts
  BY <1>1 DEF Daos, DaoParams
<1>3. \A d \in Daos(daoParams) :
         unbonding[d] = 0 /\ \A v \in Validators : delegated[d][v] = 0
  BY <1>1, <1>2 DEF DaosHoldNoStake, HasStake
<1> SUFFICES /\ daoParams' = daoParams /\ checkedVoters' = checkedVoters
             /\ delegated' \in [Accounts -> [Validators -> Nat]]
             /\ unbonding' \in [Accounts -> Nat]
             /\ \A d \in Daos(daoParams) :
                   unbonding'[d] = 0 /\ \A v \in Validators : delegated'[d][v] = 0
  BY <1>1 DEF CoreDaosTypeOK, DaosHoldNoStake, HasStake, Daos
<1>4. ASSUME NEW a \in Accounts, NEW v \in Validators, NEW n \in Amounts, Delegate(a, v, n)
      PROVE  /\ daoParams' = daoParams /\ checkedVoters' = checkedVoters
             /\ delegated' \in [Accounts -> [Validators -> Nat]]
             /\ unbonding' \in [Accounts -> Nat]
             /\ \A d \in Daos(daoParams) :
                   unbonding'[d] = 0 /\ \A w \in Validators : delegated'[d][w] = 0
  BY <1>1, <1>2, <1>3, <1>4 DEF Delegate, ValidateDelegation
<1>5. ASSUME NEW a \in Accounts, NEW v \in Validators, NEW n \in Amounts, Undelegate(a, v, n)
      PROVE  /\ daoParams' = daoParams /\ checkedVoters' = checkedVoters
             /\ delegated' \in [Accounts -> [Validators -> Nat]]
             /\ unbonding' \in [Accounts -> Nat]
             /\ \A d \in Daos(daoParams) :
                   unbonding'[d] = 0 /\ \A w \in Validators : delegated'[d][w] = 0
  BY <1>1, <1>2, <1>3, <1>5 DEF Undelegate, ValidateDelegation
<1>6. ASSUME NEW a \in Accounts, NEW v \in Validators, NEW n \in Amounts,
             CancelUnbonding(a, v, n)
      PROVE  /\ daoParams' = daoParams /\ checkedVoters' = checkedVoters
             /\ delegated' \in [Accounts -> [Validators -> Nat]]
             /\ unbonding' \in [Accounts -> Nat]
             /\ \A d \in Daos(daoParams) :
                   unbonding'[d] = 0 /\ \A w \in Validators : delegated'[d][w] = 0
  BY <1>1, <1>2, <1>3, <1>6 DEF CancelUnbonding, ValidateDelegation
<1>7. ASSUME NEW a \in Accounts, NEW v \in Validators, NEW w \in Validators,
             NEW n \in Amounts, BeginRedelegate(a, v, w, n)
      PROVE  /\ daoParams' = daoParams /\ checkedVoters' = checkedVoters
             /\ delegated' \in [Accounts -> [Validators -> Nat]]
             /\ unbonding' \in [Accounts -> Nat]
             /\ \A d \in Daos(daoParams) :
                   unbonding'[d] = 0 /\ \A u \in Validators : delegated'[d][u] = 0
  BY <1>1, <1>2, <1>3, <1>7 DEF BeginRedelegate, ValidateDelegation
<1>8. ASSUME NEW a \in Accounts, NEW n \in Amounts, CompleteUnbonding(a, n)
      PROVE  /\ daoParams' = daoParams /\ checkedVoters' = checkedVoters
             /\ delegated' \in [Accounts -> [Validators -> Nat]]
             /\ unbonding' \in [Accounts -> Nat]
             /\ \A d \in Daos(daoParams) :
                   unbonding'[d] = 0 /\ \A w \in Validators : delegated'[d][w] = 0
  <2>1. a \notin Daos(daoParams)
    BY <1>1, <1>2, <1>3, <1>8 DEF CompleteUnbonding
  <2> QED
    BY <1>1, <1>2, <1>3, <1>8, <2>1 DEF CompleteUnbonding
<1>9. ASSUME NEW v \in Validators, Slash(v)
      PROVE  /\ daoParams' = daoParams /\ checkedVoters' = checkedVoters
             /\ delegated' \in [Accounts -> [Validators -> Nat]]
             /\ unbonding' \in [Accounts -> Nat]
             /\ \A d \in Daos(daoParams) :
                   unbonding'[d] = 0 /\ \A w \in Validators : delegated'[d][w] = 0
  <2>1. \A a \in Accounts : delegated[a][v] \div 2 \in Nat
    BY <1>1
  <2>2. 0 \div 2 = 0
    OBVIOUS
  <2> QED
    BY <1>1, <1>2, <1>3, <1>9, <2>1, <2>2 DEF Slash
<1> QED
  BY <1>4, <1>5, <1>6, <1>7, <1>8, <1>9 DEF StakingStep

\* The context after a message: a new text, new parameters, the next message.
LEMMA CacheStep ==
    ASSUME NEW id \in Ids, NEW next \in Nat, NEW text, NEW prm \in DaoParams,
           \A a \in Daos(prm) : ~HasStake(a), UNCHANGED <<delegated, unbonding>>,
           cache' = [id |-> id, next |-> next + 1, constitution |-> text, daoParams |-> prm]
    PROVE  CacheInv'
<1>1. /\ cache'.id = id /\ cache'.next = next + 1
      /\ cache'.constitution = text /\ cache'.daoParams = prm
  OBVIOUS
<1>2. \A a \in Daos(prm) : ~HasStake(a)'
  BY DEF HasStake
<1> QED
  BY <1>1, <1>2 DEF CacheInv, Daos, HasStake

LEMMA EnactmentInitInv == EnactmentInit => DaosInv
BY CoreDaosAssumption, EnactmentAssumption
   DEF EnactmentInit, CoreDaosInit, DaosInv, CoreDaosTypeOK, DaosHoldNoStake, CacheInv,
       MessagesInv, IsMessageList, Idle, NoCache, NoProposal, Daos, DaoParams, Ids

\* The DAOs of the parameters that a message or a proposal installs hold no stake.
LEMMA EnactmentNextInv == DaosInv /\ [EnactmentNext]_vars => DaosInv'
<1> SUFFICES ASSUME DaosInv, [EnactmentNext]_vars PROVE DaosInv'
  OBVIOUS
<1> USE CoreDaosAssumption
<1>1. CoreDaosTypeOK /\ DaosHoldNoStake /\ CacheInv /\ MessagesInv
  BY DEF DaosInv
<1>2. ASSUME coreDaosVars' = coreDaosVars
      PROVE  CoreDaosTypeOK' /\ DaosHoldNoStake'
  BY <1>1, <1>2 DEF CoreDaosTypeOK, DaosHoldNoStake, HasStake, Daos, coreDaosVars
<1>3. ASSUME cache' = cache, UNCHANGED <<delegated, unbonding>>
      PROVE  CacheInv'
  BY <1>1, <1>3 DEF CacheInv, Idle, HasStake, Daos, NoCache
<1>4. ASSUME UNCHANGED proposals
      PROVE  MessagesInv'
  BY <1>1, <1>4 DEF MessagesInv
<1>5. ASSUME cache' = NoCache
      PROVE  CacheInv'
  BY <1>5 DEF CacheInv, Idle
<1>6. ASSUME NEW p \in Ids, NEW status, proposals' = [proposals EXCEPT ![p].status = status]
      PROVE  MessagesInv'
  <2>1. DOMAIN proposals' = Ids
    BY <1>1, <1>6 DEF MessagesInv
  <2>2. \A q \in Ids : proposals'[q].msgs = proposals[q].msgs
    BY <1>1, <1>6 DEF MessagesInv
  <2> QED
    BY <1>1, <2>1, <2>2 DEF MessagesInv
<1>10. ASSUME NEW p \in Ids, Submit(p) PROVE DaosInv'
  <2>1. PICK msgs \in Bundles :
           proposals' = [proposals EXCEPT ![p] = [status |-> "open", msgs |-> msgs]]
    BY <1>10 DEF Submit
  <2>2. DOMAIN proposals' = Ids
    BY <1>1, <2>1 DEF MessagesInv
  <2>3. \A q \in Ids : proposals'[q].msgs = IF q = p THEN msgs ELSE proposals[q].msgs
    BY <1>1, <2>1 DEF MessagesInv
  <2>4. MessagesInv'
    BY <1>1, <2>2, <2>3, BundlesType DEF MessagesInv
  <2> QED
    BY <1>2, <1>3, <1>10, <2>4 DEF DaosInv, Submit, coreDaosVars
<1>11. ASSUME NEW p \in Ids, Refuse(p) PROVE DaosInv'
  BY <1>2, <1>3, <1>6, <1>11 DEF DaosInv, Refuse, coreDaosVars
<1>12. ASSUME NEW p \in Ids, Pass(p) PROVE DaosInv'
  <2>1. cache' = [id |-> p, next |-> 1, constitution |-> constitution, daoParams |-> daoParams]
    BY <1>12 DEF Pass
  <2>2. UNCHANGED <<proposals, coreDaosVars>>
    BY <1>12 DEF Pass
  <2>3. \A a \in Daos(daoParams) : ~HasStake(a)
    BY <1>1 DEF DaosHoldNoStake
  <2>4. daoParams \in DaoParams
    BY <1>1 DEF CoreDaosTypeOK
  <2>5. CacheInv'
    BY <2>1, <2>2, <2>3, <2>4 DEF CacheInv, HasStake, Daos, coreDaosVars
  <2> QED
    BY <1>2, <1>4, <2>2, <2>5 DEF DaosInv
<1>13. CASE ExecuteAmendment
  <2>1. ~Idle /\ UNCHANGED <<proposals, coreDaosVars>>
    BY <1>13 DEF ExecuteAmendment, Executing
  <2>2. PICK text : cache' = [cache EXCEPT !.constitution = text, !.next = @ + 1]
    BY <1>13 DEF ExecuteAmendment
  <2>3. cache' = [id |-> cache.id, next |-> cache.next + 1, constitution |-> text, daoParams |-> cache.daoParams]
    BY <1>1, <2>1, <2>2 DEF CacheInv
  <2>4. CacheInv'
    BY <1>1, <2>1, <2>3, CacheStep DEF CacheInv, coreDaosVars
  <2> QED
    BY <1>2, <1>4, <2>1, <2>4 DEF DaosInv
<1>14. CASE ExecuteLaw
  <2>1. ~Idle /\ UNCHANGED <<proposals, coreDaosVars>>
    BY <1>14 DEF ExecuteLaw, Executing
  <2>2. cache' = [cache EXCEPT !.next = @ + 1]
    BY <1>14 DEF ExecuteLaw
  <2>3. cache' = [id |-> cache.id, next |-> cache.next + 1, constitution |-> cache.constitution, daoParams |-> cache.daoParams]
    BY <1>1, <2>1, <2>2 DEF CacheInv
  <2>4. CacheInv'
    BY <1>1, <2>1, <2>3, CacheStep DEF CacheInv, coreDaosVars
  <2> QED
    BY <1>2, <1>4, <2>1, <2>4 DEF DaosInv
<1>15. CASE ExecuteUpdateDaos
  <2>1. ~Idle /\ UNCHANGED <<proposals, coreDaosVars>>
    BY <1>15 DEF ExecuteUpdateDaos, Executing
  <2>2. cache.id \in Ids /\ cache.next \in 1 .. Len(proposals[cache.id].msgs)
    BY <1>1, <2>1, <1>15 DEF ExecuteUpdateDaos, Executing, CacheInv, MessagesInv, IsMessageList
  <2>3. /\ Message.type = "daos"
        /\ MayBecomeDaos(Message.params)
        /\ cache' = [cache EXCEPT !.daoParams = Message.params, !.next = @ + 1]
    BY <1>15 DEF ExecuteUpdateDaos
  <2>4. Message.params \in DaoParams
    BY <1>1, <2>2, <2>3 DEF MessagesInv, IsMessageList, IsMessage, Message
  <2>5. \A a \in Daos(Message.params) : ~HasStake(a)
    BY <2>3 DEF MayBecomeDaos
  <2>6. cache' = [id |-> cache.id, next |-> cache.next + 1,
                 constitution |-> cache.constitution, daoParams |-> Message.params]
    BY <1>1, <2>1, <2>3 DEF CacheInv
  <2>7. CacheInv'
    BY <1>1, <2>1, <2>4, <2>5, <2>6, CacheStep DEF CacheInv, coreDaosVars
  <2> QED
    BY <1>2, <1>4, <2>1, <2>7 DEF DaosInv
<1>16. CASE ExecutionFails
  <2>1. cache.id \in Ids
    BY <1>1, <1>16 DEF ExecutionFails, Executing, CacheInv
  <2> QED
    BY <1>2, <1>5, <1>6, <1>16, <2>1 DEF DaosInv, ExecutionFails, Discard, coreDaosVars
<1>17. CASE WriteCache
  <2>1. /\ cache.id \in Ids /\ cache.daoParams \in DaoParams
        /\ \A a \in Daos(cache.daoParams) : ~HasStake(a)
    BY <1>1, <1>17 DEF WriteCache, CacheInv
  <2>2. CoreDaosTypeOK' /\ DaosHoldNoStake'
    BY <1>1, <1>17, <2>1
       DEF CoreDaosTypeOK, DaosHoldNoStake, HasStake, Daos, WriteCache
  <2> QED
    BY <1>5, <1>6, <1>17, <2>1, <2>2 DEF DaosInv, WriteCache
<1>18. CASE Idle /\ StakingStep /\ UNCHANGED enactmentVars
  <2>1. CoreDaosTypeOK' /\ DaosHoldNoStake'
    BY <1>1, <1>18, StakingKeepsDaos
  <2>2. CacheInv'
    BY <1>18 DEF CacheInv, Idle, enactmentVars
  <2> QED
    BY <1>4, <1>18, <2>1, <2>2 DEF DaosInv, enactmentVars
<1>19. CASE VoteStep /\ UNCHANGED enactmentVars
  <2>1. UNCHANGED <<daoParams, delegated, unbonding>> /\ checkedVoters' \subseteq Accounts
    BY <1>1, <1>19 DEF VoteStep, VoteByMsgVote, VoteByMsgVoteWeighted,
                           VoteByNestedMsgVote, CoreDaosTypeOK
  <2>2. CoreDaosTypeOK' /\ DaosHoldNoStake'
    BY <1>1, <2>1 DEF CoreDaosTypeOK, DaosHoldNoStake, HasStake, Daos
  <2> QED
    BY <1>3, <1>4, <1>19, <2>1, <2>2 DEF DaosInv, enactmentVars
<1>20. CASE UNCHANGED vars
  BY <1>2, <1>3, <1>4, <1>20 DEF DaosInv, vars, coreDaosVars
<1> QED
  BY <1>10, <1>11, <1>12, <1>13, <1>14, <1>15, <1>16, <1>17, <1>18, <1>19, <1>20
     DEF EnactmentNext, ProposalStep

\* The inductive invariant of staking, voting and execution.
THEOREM DaosInvariance == EnactmentSpec => []DaosInv
BY EnactmentInitInv, EnactmentNextInv, PTL DEF EnactmentSpec

\* No account that is a DAO has bonded or unbonding tokens, whenever it became one: the
\* check of MsgUpdateParams and the staking hooks leave no gap between them.
THEOREM CoreDaosCannotStake == EnactmentSpec => []DaosHoldNoStake
<1>1. DaosInv => DaosHoldNoStake
  BY DEF DaosInv
<1> QED
  BY <1>1, DaosInvariance, PTL

\* Without stake there is nothing for the vote decorator to count.
LEMMA NoStakeNotEnough ==
    ASSUME CoreDaosTypeOK, NEW a \in Accounts, ~HasStake(a)
    PROVE  ~EnoughStake(a)
<1>1. \A v \in Validators : delegated[a][v] = 0
  BY DEF HasStake, CoreDaosTypeOK
<1>2. DelegationsChecked(a) = {}
  BY <1>1 DEF DelegationsChecked
<1>3. SumOver(delegated[a], DelegationsChecked(a)) = 0
  BY <1>2, SumEmpty
<1> QED
  BY <1>3, CoreDaosAssumption DEF EnoughStake

\* No DAO passes the stake check of the vote decorator, which looks at every MsgVote that is a
\* message of the transaction or of one of its MsgExecs.
THEOREM CoreDaosPassNoStakeCheck == EnactmentSpec => DaosPassNoStakeCheck
<1>1. DaosInv /\ [EnactmentNext]_vars =>
         [(checkedVoters' \ checkedVoters) \cap Daos(daoParams) = {}]_coreDaosVars
  <2> SUFFICES ASSUME DaosInv, [EnactmentNext]_vars, NEW a \in checkedVoters' \ checkedVoters,
                      a \in Daos(daoParams)
               PROVE  FALSE
    OBVIOUS
  <2>1. CoreDaosTypeOK /\ DaosHoldNoStake
    BY DEF DaosInv
  <2>2. checkedVoters' # checkedVoters
    OBVIOUS
  <2>3. \E b \in Accounts : VoteByMsgVote(b) \/ VoteByMsgVoteWeighted(b) \/ VoteByNestedMsgVote(b)
    BY <2>2 DEF EnactmentNext, ProposalStep, Submit, Refuse, Pass, ExecuteAmendment,
                ExecuteLaw, ExecuteUpdateDaos, ExecutionFails, WriteCache, StakingStep,
                Delegate, Undelegate, CancelUnbonding, BeginRedelegate, CompleteUnbonding,
                Slash, VoteStep, vars, coreDaosVars
  <2>4. PICK b \in Accounts :
             VoteByMsgVote(b) \/ VoteByMsgVoteWeighted(b) \/ VoteByNestedMsgVote(b)
    BY <2>3
  <2>5. a = b /\ EnoughStake(b)
    BY <2>4 DEF VoteByMsgVote, VoteByMsgVoteWeighted, VoteByNestedMsgVote
  <2>6. ~HasStake(a)
    BY <2>1 DEF DaosHoldNoStake
  <2> QED
    BY <2>1, <2>5, <2>6, NoStakeNotEnough
<1> QED
  BY <1>1, DaosInvariance, PTL DEF EnactmentSpec, DaosPassNoStakeCheck

-----------------------------------------------------------------------------
(* The constitution *)

Statuses == {"none", "open", "refused", "failed", "passed"}

\* How often the first n messages mark a line x.
Done(msgs, n, mark, x) ==
    SumOver([k \in DOMAIN msgs |-> Changes(msgs[k], mark, x)], 1 .. n)

\* Enacted, for any proposals.
Total(props, mark, x) ==
    SumOver([p \in Ids |-> AllChanges(props[p].msgs, mark, x)],
            {p \in Ids : props[p].status = "passed"})

LEMMA ChangesType ==
    ASSUME NEW m, IsMessage(m), NEW mark, NEW x
    PROVE  Changes(m, mark, x) \in Nat
<1>1. CASE m.type # "amendment"
  BY <1>1 DEF Changes
<1>2. CASE m.type = "amendment"
  <2>1. m.patch \in Seq(Hunk(STRING))
    BY <1>2 DEF IsMessage, ParseUnifiedDiff
  <2> QED
    BY <1>2, <2>1, LinesInType DEF Changes, LinesIn
<1> QED
  BY <1>1, <1>2

\* One message more.
LEMMA DoneStep ==
    ASSUME NEW msgs, IsMessageList(msgs), NEW n \in 1 .. Len(msgs), NEW mark, NEW x
    PROVE  /\ Done(msgs, n - 1, mark, x) \in Nat
           /\ Done(msgs, n, mark, x) = Done(msgs, n - 1, mark, x) + Changes(msgs[n], mark, x)
<1> DEFINE f == [k \in DOMAIN msgs |-> Changes(msgs[k], mark, x)]
<1>1. /\ Len(msgs) \in Nat /\ DOMAIN msgs = 1 .. Len(msgs) /\ n \in Nat \ {0}
      /\ \A k \in 1 .. Len(msgs) : f[k] = Changes(msgs[k], mark, x)
  BY DEF IsMessageList
<1>2. \A k \in 1 .. n : f[k] \in Nat
  BY <1>1, ChangesType DEF IsMessageList
<1>3. f[n] = Changes(msgs[n], mark, x)
  BY <1>1
<1> HIDE DEF f
<1>4. /\ SumOver(f, 1 .. n - 1) \in Nat
      /\ SumOver(f, 1 .. n) = SumOver(f, 1 .. n - 1) + f[n]
  BY <1>1, <1>2, SumUpTo
<1> QED
  BY <1>3, <1>4 DEF Done, f

LEMMA DoneNone ==
    ASSUME NEW msgs, NEW mark, NEW x
    PROVE  Done(msgs, 0, mark, x) = 0
<1>1. 1 .. 0 = {}
  OBVIOUS
<1> QED
  BY <1>1, SumEmpty DEF Done

LEMMA DoneAll ==
    ASSUME NEW msgs, IsMessageList(msgs), NEW mark, NEW x
    PROVE  /\ AllChanges(msgs, mark, x) = Done(msgs, Len(msgs), mark, x)
           /\ AllChanges(msgs, mark, x) \in Nat
<1> DEFINE f == [k \in DOMAIN msgs |-> Changes(msgs[k], mark, x)]
<1>1. Len(msgs) \in Nat /\ DOMAIN msgs = 1 .. Len(msgs)
  BY DEF IsMessageList
<1>2. \A k \in 1 .. Len(msgs) : f[k] \in Nat
  BY <1>1, ChangesType DEF IsMessageList
<1>3. IsFiniteSet(1 .. Len(msgs))
  BY <1>1, FS_Interval
<1> HIDE DEF f
<1>4. SumOver(f, 1 .. Len(msgs)) \in Nat
  BY <1>2, <1>3, SumType
<1> QED
  BY <1>1, <1>4 DEF AllChanges, Done, f

\* Proposals that have not passed do not count.
LEMMA TotalSame ==
    ASSUME NEW props, NEW next, NEW mark, NEW x,
           \A p \in Ids : next[p].status = "passed" <=> props[p].status = "passed",
           \A p \in Ids : props[p].status = "passed" => next[p].msgs = props[p].msgs
    PROVE  Total(next, mark, x) = Total(props, mark, x)
<1> DEFINE f == [p \in Ids |-> AllChanges(props[p].msgs, mark, x)]
           g == [p \in Ids |-> AllChanges(next[p].msgs, mark, x)]
           S == {p \in Ids : props[p].status = "passed"}
<1>1. S = {p \in Ids : next[p].status = "passed"}
  OBVIOUS
<1>2. \A p \in S : f[p] = g[p]
  OBVIOUS
<1> HIDE DEF f, g
<1>3. SumOver(f, S) = SumOver(g, S)
  BY <1>2, SumSame
<1> QED
  BY <1>1, <1>3 DEF Total, f, g

\* Proposal q passes, and only q.
Passes(props, next, q) ==
    /\ \A p \in Ids : IsMessageList(props[p].msgs)
    /\ \A p \in Ids : next[p].msgs = props[p].msgs
    /\ \A p \in Ids : p # q => (next[p].status = "passed" <=> props[p].status = "passed")
    /\ props[q].status # "passed" /\ next[q].status = "passed"

\* A proposal that passes counts in full, and once.
LEMMA TotalOneMore ==
    ASSUME NEW props, NEW next, NEW q \in Ids, NEW mark, NEW x,
           Passes(props, next, q)
    PROVE  /\ Total(props, mark, x) \in Nat
           /\ Total(next, mark, x) = Total(props, mark, x) + AllChanges(props[q].msgs, mark, x)
<1> DEFINE f == [p \in Ids |-> AllChanges(props[p].msgs, mark, x)]
           g == [p \in Ids |-> AllChanges(next[p].msgs, mark, x)]
           S == {p \in Ids : props[p].status = "passed"}
           T == {p \in Ids : next[p].status = "passed"}
<1>1. q \in T /\ T \ {q} = S /\ T \in SUBSET Ids
  BY DEF Passes
<1>2. f = g /\ f[q] = AllChanges(props[q].msgs, mark, x)
  BY DEF Passes
<1>3. \A p \in Ids : f[p] \in Nat
  BY DoneAll DEF Passes
<1>4. IsFiniteSet(T)
  <2>1. IsFiniteSet(Ids)
    BY EnactmentAssumption, FS_Interval DEF Ids
  <2> QED
    BY <1>1, <2>1, FS_Subset
<1> HIDE DEF f, g, S, T
<1>5. SumOver(f, T \ {q}) \in Nat /\ SumOver(f, T) = SumOver(f, T \ {q}) + f[q]
  BY <1>1, <1>3, <1>4, SumSplit
<1>6. Total(props, mark, x) = SumOver(f, S) /\ Total(next, mark, x) = SumOver(g, T)
  BY DEF Total, f, g, S, T
<1> QED
  BY <1>1, <1>2, <1>5, <1>6

\* The text new has the lines x of the text old, less the deleted and plus the inserted.
Balanced(new, old, deleted, inserted, x) ==
    Occurrences(new, x) + deleted = Occurrences(old, x) + inserted

\* So does the constitution, compared with the first one and all proposals that passed.
ConstitutionBalanced(text, props) ==
    \A x : x # EmptyLine =>
       Balanced(text, InitConstitution, Total(props, "-", x), Total(props, "+", x), x)

\* And the text in the cached context, compared with the stored one and what has run.
CacheBalanced(new, text, msgs, n) ==
    \A x : x # EmptyLine =>
       Balanced(new, text, Done(msgs, n, "-", x), Done(msgs, n, "+", x), x)

\* The proposals are records, and the one that runs is open and within its messages.
ProposalsInv ==
    \A p \in Ids :
       /\ proposals[p] = [status |-> proposals[p].status, msgs |-> proposals[p].msgs]
       /\ proposals[p].status \in Statuses

RunningInv ==
    ~Idle =>
       /\ proposals[cache.id].status = "open"
       /\ cache.constitution \in Text \ {<<>>}
       /\ cache.next <= Len(proposals[cache.id].msgs) + 1
       /\ CacheBalanced(cache.constitution, constitution, proposals[cache.id].msgs, cache.next - 1)

\* The inductive invariant of the constitution, on top of DaosInv.
ConstitutionInv ==
    /\ constitution \in Text \ {<<>>}
    /\ ProposalsInv
    /\ ConstitutionBalanced(constitution, proposals)
    /\ RunningInv

LEMMA InitIsText == InitConstitution \in Text \ {<<>>}
<1>1. InitConstitution \in Seq(STRING) /\ InitConstitution # <<>>
  BY EnactmentAssumption
<1>2. InitConstitution \in Seq(Line)
  BY <1>1 DEF Line
<1> QED
  BY <1>1, <1>2 DEF Text

\* A message that has run accounts for what it changes.
LEMMA MessageAccountedFor ==
    ASSUME NEW msgs, IsMessageList(msgs), NEW n \in 1 .. Len(msgs),
           NEW text \in Text \ {<<>>}, NEW old \in Text, CacheBalanced(text, old, msgs, n - 1)
    PROVE  /\ msgs[n].type # "amendment" => CacheBalanced(text, old, msgs, n)
           /\ ApplyUnifiedDiff(text, msgs[n].patch).ok /\ msgs[n].type = "amendment" =>
                 CacheBalanced(ApplyUnifiedDiff(text, msgs[n].patch).result, old, msgs, n)
<1> DEFINE new == ApplyUnifiedDiff(text, msgs[n].patch).result
<1>1. ASSUME NEW x, x # EmptyLine
      PROVE  /\ Occurrences(text, x) \in Nat /\ Occurrences(old, x) \in Nat
             /\ Occurrences(text, x) + Done(msgs, n - 1, "-", x)
                  = Occurrences(old, x) + Done(msgs, n - 1, "+", x)
             /\ Done(msgs, n - 1, "-", x) \in Nat /\ Done(msgs, n - 1, "+", x) \in Nat
             /\ Done(msgs, n, "-", x) = Done(msgs, n - 1, "-", x) + Changes(msgs[n], "-", x)
             /\ Done(msgs, n, "+", x) = Done(msgs, n - 1, "+", x) + Changes(msgs[n], "+", x)
  <2>1. Occurrences(text, x) \in Nat /\ Occurrences(old, x) \in Nat
    BY OccurrencesAll DEF Text
  <2>2. Occurrences(text, x) + Done(msgs, n - 1, "-", x)
          = Occurrences(old, x) + Done(msgs, n - 1, "+", x)
    BY <1>1, Zenon DEF CacheBalanced, Balanced
  <2> QED
    BY <2>1, <2>2, DoneStep
<1>2. ASSUME msgs[n].type # "amendment" PROVE CacheBalanced(text, old, msgs, n)
  <2> SUFFICES ASSUME NEW x, x # EmptyLine
               PROVE  Occurrences(text, x) + Done(msgs, n, "-", x)
                        = Occurrences(old, x) + Done(msgs, n, "+", x)
    BY DEF CacheBalanced, Balanced
  <2>1. Changes(msgs[n], "-", x) = 0 /\ Changes(msgs[n], "+", x) = 0
    BY <1>2 DEF Changes
  <2> QED
    BY <1>1, <2>1
<1>3. ASSUME ApplyUnifiedDiff(text, msgs[n].patch).ok, msgs[n].type = "amendment"
      PROVE  CacheBalanced(new, old, msgs, n)
  <2> SUFFICES ASSUME NEW x, x # EmptyLine
               PROVE  Occurrences(new, x) + Done(msgs, n, "-", x)
                        = Occurrences(old, x) + Done(msgs, n, "+", x)
    BY DEF CacheBalanced, Balanced
  <2>1. Changes(msgs[n], "-", x) = LinesIn(msgs[n].patch, Marked("-", x))
    BY <1>3 DEF Changes, LinesIn
  <2>2. Changes(msgs[n], "+", x) = LinesIn(msgs[n].patch, Marked("+", x))
    BY <1>3 DEF Changes, LinesIn
  <2>3. /\ LinesIn(msgs[n].patch, Marked("-", x)) \in Nat
        /\ LinesIn(msgs[n].patch, Marked("+", x)) \in Nat
        /\ Occurrences(new, x) + LinesIn(msgs[n].patch, Marked("-", x))
             = Occurrences(text, x) + LinesIn(msgs[n].patch, Marked("+", x))
    BY <1>3, PatchAccountsForLines
  <2>4. Occurrences(new, x) \in Nat
    <3>1. new \in Text
      BY PatchedType
    <3> QED
      BY <3>1, OccurrencesAll DEF Text
  <2> DEFINE a == Occurrences(new, x)
             b == Occurrences(text, x)
             c == Occurrences(old, x)
             d == Done(msgs, n - 1, "-", x)
             i == Done(msgs, n - 1, "+", x)
             m == Changes(msgs[n], "-", x)
             p == Changes(msgs[n], "+", x)
  <2>5. /\ a \in Nat /\ b \in Nat /\ c \in Nat /\ d \in Nat /\ i \in Nat /\ m \in Nat /\ p \in Nat
        /\ a + m = b + p /\ b + d = c + i
        /\ Done(msgs, n, "-", x) = d + m /\ Done(msgs, n, "+", x) = i + p
    BY <1>1, <2>1, <2>2, <2>3, <2>4
  <2> HIDE DEF a, b, c, d, i, m, p
  <2>6. a + (d + m) = c + (i + p)
    BY <2>5
  <2> QED
    BY <2>5, <2>6, Zenon DEF a, c
<1> QED
  BY <1>2, <1>3

\* The proposal that has run all its messages passes: its text is accounted for.
LEMMA PassedAccountedFor ==
    ASSUME NEW props, NEW next, NEW q \in Ids, NEW old \in Text, NEW text \in Text,
           Passes(props, next, q),
           ConstitutionBalanced(old, props),
           CacheBalanced(text, old, props[q].msgs, Len(props[q].msgs))
    PROVE  ConstitutionBalanced(text, next)
<1> SUFFICES ASSUME NEW x, x # EmptyLine
             PROVE  Occurrences(text, x) + Total(next, "-", x)
                      = Occurrences(InitConstitution, x) + Total(next, "+", x)
  BY DEF ConstitutionBalanced, Balanced
<1>0. \A mark : /\ Total(props, mark, x) \in Nat
               /\ Total(next, mark, x) = Total(props, mark, x) + AllChanges(props[q].msgs, mark, x)
  BY TotalOneMore
<1> DEFINE msgs == props[q].msgs
           a == Occurrences(text, x)
           b == Occurrences(old, x)
           c == Occurrences(InitConstitution, x)
           d == Total(props, "-", x)
           i == Total(props, "+", x)
           m == AllChanges(msgs, "-", x)
           p == AllChanges(msgs, "+", x)
<1>1. a \in Nat /\ b \in Nat /\ c \in Nat
  BY InitIsText, OccurrencesAll DEF Text
<1>2. d \in Nat /\ Total(next, "-", x) = d + m
  BY <1>0
<1>3. i \in Nat /\ Total(next, "+", x) = i + p
  BY <1>0
<1>4. /\ m \in Nat /\ m = Done(msgs, Len(msgs), "-", x)
      /\ p \in Nat /\ p = Done(msgs, Len(msgs), "+", x)
  BY DoneAll DEF Passes
<1>5. b + d = c + i
  BY Zenon DEF ConstitutionBalanced, Balanced
<1>6. a + Done(msgs, Len(msgs), "-", x) = b + Done(msgs, Len(msgs), "+", x)
  BY Zenon DEF CacheBalanced, Balanced
<1>7. a + m = b + p
  BY <1>4, <1>6
<1> HIDE DEF a, b, c, d, i, m, p
<1>8. d \in Nat /\ i \in Nat /\ m \in Nat /\ p \in Nat
  BY <1>2, <1>3, <1>4, Zenon
<1>9. a + (d + m) = c + (i + p)
  BY <1>1, <1>5, <1>7, <1>8
<1> QED
  BY <1>2, <1>3, <1>9, Zenon DEF a, c

LEMMA ConstitutionInit == EnactmentInit => ConstitutionInv
<1> SUFFICES ASSUME EnactmentInit PROVE ConstitutionInv
  OBVIOUS
<1>1. /\ constitution = InitConstitution /\ proposals = [p \in Ids |-> NoProposal]
      /\ cache = NoCache
  BY DEF EnactmentInit
<1>2. ProposalsInv
  BY <1>1 DEF ProposalsInv, NoProposal, Statuses
<1>3. RunningInv
  BY <1>1 DEF RunningInv, Idle
<1>4. ASSUME NEW mark, NEW x PROVE Total(proposals, mark, x) = 0
  <2>1. {p \in Ids : proposals[p].status = "passed"} = {}
    BY <1>1 DEF NoProposal
  <2> QED
    BY <2>1, SumEmpty DEF Total
<1>5. ConstitutionBalanced(constitution, proposals)
  BY <1>1, <1>4 DEF ConstitutionBalanced, Balanced
<1> QED
  BY <1>1, <1>2, <1>3, <1>5, InitIsText DEF ConstitutionInv

\* Steps that leave the passed proposals and the constitution alone.
LEMMA BalanceKept ==
    ASSUME NEW text, NEW props, NEW next, ConstitutionBalanced(text, props),
           \A p \in Ids : next[p].status = "passed" <=> props[p].status = "passed",
           \A p \in Ids : props[p].status = "passed" => next[p].msgs = props[p].msgs
    PROVE  ConstitutionBalanced(text, next)
<1>1. \A mark, x : Total(next, mark, x) = Total(props, mark, x)
  BY TotalSame
<1> QED
  BY <1>1 DEF ConstitutionBalanced, Balanced

\* Changing the status of a proposal changes nothing else.
LEMMA StatusUpdate ==
    ASSUME MessagesInv, ProposalsInv, NEW q \in Ids, NEW status \in Statuses,
           proposals' = [proposals EXCEPT ![q].status = status]
    PROVE  /\ ProposalsInv'
           /\ \A p \in Ids : proposals'[p].msgs = proposals[p].msgs
           /\ \A p \in Ids : p # q => proposals'[p].status = proposals[p].status
           /\ proposals'[q].status = status
<1>1. /\ DOMAIN proposals = Ids
      /\ proposals[q] = [status |-> proposals[q].status, msgs |-> proposals[q].msgs]
  BY DEF MessagesInv, ProposalsInv
<1>2. \A p \in Ids : p # q => proposals'[p] = proposals[p]
  BY <1>1
<1>3. proposals'[q] = [status |-> status, msgs |-> proposals[q].msgs]
  BY <1>1
<1> QED
  BY <1>2, <1>3 DEF ProposalsInv

\* The text of a running proposal goes on from the message it has reached.
LEMMA RunStep ==
    ASSUME ~Idle, CacheInv, MessagesInv, ConstitutionInv, Executing,
           UNCHANGED <<constitution, proposals>>,
           NEW text \in Text \ {<<>>}, NEW prm,
           cache' = [id |-> cache.id, next |-> cache.next + 1, constitution |-> text,
                     daoParams |-> prm],
           CacheBalanced(text, constitution, proposals[cache.id].msgs, cache.next)
    PROVE  ConstitutionInv'
<1>1. /\ cache'.id = cache.id /\ cache'.next = cache.next + 1 /\ cache'.constitution = text
  OBVIOUS
<1>2. /\ cache.next \in Nat \ {0} /\ cache.id \in Ids
      /\ cache.next <= Len(proposals[cache.id].msgs) /\ Len(proposals[cache.id].msgs) \in Nat
      /\ proposals[cache.id].status = "open"
  BY DEF CacheInv, MessagesInv, IsMessageList, ConstitutionInv, RunningInv, Executing
<1>3. (cache.next + 1) - 1 = cache.next
  BY <1>2
<1>4. RunningInv'
  BY <1>1, <1>2, <1>3 DEF RunningInv
<1>5. ProposalsInv' /\ constitution' \in Text \ {<<>>} /\ ConstitutionBalanced(constitution, proposals)'
  BY DEF ConstitutionInv, ProposalsInv
<1> QED
  BY <1>4, <1>5 DEF ConstitutionInv

\* Every step accounts for the lines it changes.
LEMMA ConstitutionNext == DaosInv /\ ConstitutionInv /\ [EnactmentNext]_vars => ConstitutionInv'
<1> SUFFICES ASSUME DaosInv, ConstitutionInv, [EnactmentNext]_vars PROVE ConstitutionInv'
  OBVIOUS
<1>1. /\ CacheInv /\ MessagesInv
      /\ constitution \in Text \ {<<>>} /\ ProposalsInv
      /\ ConstitutionBalanced(constitution, proposals) /\ RunningInv
  BY DEF DaosInv, ConstitutionInv
<1>2. CASE UNCHANGED <<constitution, proposals, cache>>
  <2>1. ConstitutionBalanced(constitution, proposals)'
    BY <1>1, <1>2
  <2>2. RunningInv' /\ ProposalsInv'
    BY <1>1, <1>2 DEF RunningInv, Idle, NoCache, ProposalsInv
  <2> QED
    BY <1>1, <1>2, <2>1, <2>2 DEF ConstitutionInv
<1>3. ASSUME NEW p \in Ids, Submit(p) PROVE ConstitutionInv'
  <2>1. /\ Idle /\ proposals[p] = NoProposal /\ UNCHANGED <<constitution, cache>>
    BY <1>3 DEF Submit
  <2>2. PICK msgs \in Bundles :
           proposals' = [proposals EXCEPT ![p] = [status |-> "open", msgs |-> msgs]]
    BY <1>3 DEF Submit
  <2>3. /\ \A q \in Ids : q # p => proposals'[q] = proposals[q]
        /\ proposals'[p] = [status |-> "open", msgs |-> msgs]
    BY <1>1, <2>2 DEF MessagesInv
  <2>4. proposals[p].status = "none" /\ proposals'[p].status = "open"
    BY <2>1, <2>3 DEF NoProposal
  <2>5. ProposalsInv'
    BY <1>1, <2>3 DEF ProposalsInv, Statuses
  <2>6. ConstitutionBalanced(constitution, proposals')
    <3>1. \A q \in Ids : proposals'[q].status = "passed" <=> proposals[q].status = "passed"
      BY <2>3, <2>4
    <3>2. \A q \in Ids : proposals[q].status = "passed" => proposals'[q].msgs = proposals[q].msgs
      BY <2>3, <2>4
    <3> QED
      BY <1>1, <3>1, <3>2, BalanceKept
  <2>7. RunningInv'
    BY <2>1 DEF RunningInv, Idle
  <2> QED
    BY <1>1, <2>1, <2>5, <2>6, <2>7 DEF ConstitutionInv
<1>4. ASSUME NEW q \in Ids, NEW status \in Statuses, status # "passed",
             proposals[q].status = "open",
             proposals' = [proposals EXCEPT ![q].status = status],
             constitution' = constitution, cache' = NoCache
      PROVE  ConstitutionInv'
  <2>1. /\ ProposalsInv'
        /\ \A p \in Ids : proposals'[p].msgs = proposals[p].msgs
        /\ \A p \in Ids : p # q => proposals'[p].status = proposals[p].status
        /\ proposals'[q].status = status
    BY <1>1, <1>4, StatusUpdate
  <2>2. \A p \in Ids : proposals'[p].status = "passed" <=> proposals[p].status = "passed"
    BY <1>4, <2>1
  <2>3. ConstitutionBalanced(constitution, proposals')
    BY <1>1, <2>1, <2>2, BalanceKept
  <2>4. RunningInv'
    BY <1>4 DEF RunningInv, Idle
  <2> QED
    BY <1>1, <1>4, <2>1, <2>3, <2>4 DEF ConstitutionInv
<1>5. ASSUME NEW p \in Ids, Refuse(p) PROVE ConstitutionInv'
  <2>1. /\ proposals[p].status = "open" /\ constitution' = constitution /\ cache' = NoCache
        /\ proposals' = [proposals EXCEPT ![p].status = "refused"] /\ "refused" \in Statuses
    BY <1>5 DEF Refuse, Idle, Statuses
  <2> QED
    BY <1>4, <2>1
<1>6. ASSUME NEW p \in Ids, Pass(p) PROVE ConstitutionInv'
  <2>1. /\ proposals[p].status = "open" /\ UNCHANGED <<constitution, proposals>>
        /\ cache' = [id |-> p, next |-> 1, constitution |-> constitution, daoParams |-> daoParams]
    BY <1>6 DEF Pass
  <2>2. /\ cache'.id = p /\ cache'.next = 1 /\ cache'.constitution = constitution
    BY <2>1
  <2>3. Len(proposals[p].msgs) \in Nat
    BY <1>1 DEF MessagesInv, IsMessageList
  <2>4. CacheBalanced(constitution, constitution, proposals[p].msgs, 0)
    BY DoneNone DEF CacheBalanced, Balanced
  <2>5. RunningInv'
    BY <1>1, <2>1, <2>2, <2>3, <2>4 DEF RunningInv
  <2>6. ProposalsInv' /\ ConstitutionBalanced(constitution, proposals)'
    BY <1>1, <2>1 DEF ProposalsInv
  <2> QED
    BY <1>1, <2>1, <2>5, <2>6 DEF ConstitutionInv
<1>7. ASSUME ~Idle, Executing
      PROVE  /\ cache.id \in Ids /\ IsMessageList(proposals[cache.id].msgs)
             /\ cache.next \in 1 .. Len(proposals[cache.id].msgs)
             /\ cache.constitution \in Text \ {<<>>}
             /\ CacheBalanced(cache.constitution, constitution, proposals[cache.id].msgs, cache.next - 1)
             /\ cache = [id |-> cache.id, next |-> cache.next,
                         constitution |-> cache.constitution, daoParams |-> cache.daoParams]
  BY <1>1, <1>7 DEF CacheInv, MessagesInv, IsMessageList, RunningInv, Executing
<1>8. CASE ExecuteAmendment
  <2>1. ~Idle /\ Executing /\ UNCHANGED <<constitution, proposals>>
    BY <1>8 DEF ExecuteAmendment, Executing
  <2> DEFINE patched == ApplyUnifiedDiff(cache.constitution, Message.patch)
  <2>2. /\ Message.type = "amendment" /\ patched.ok
        /\ cache' = [cache EXCEPT !.constitution = patched.result, !.next = @ + 1]
    BY <1>8 DEF ExecuteAmendment
  <2>3. patched.result \in Text \ {<<>>}
    BY <1>7, <2>1, PatchedType
  <2>4. CacheBalanced(patched.result, constitution, proposals[cache.id].msgs, cache.next)
    BY <1>1, <1>7, <2>1, <2>2, MessageAccountedFor DEF Message
  <2> HIDE DEF patched
  <2>5. cache' = [id |-> cache.id, next |-> cache.next + 1,
                  constitution |-> patched.result, daoParams |-> cache.daoParams]
    BY <1>7, <2>1, <2>2
  <2> QED
    BY <1>1, <2>1, <2>3, <2>4, <2>5, RunStep
<1>9. CASE ExecuteLaw
  <2>1. ~Idle /\ Executing /\ UNCHANGED <<constitution, proposals>>
    BY <1>9 DEF ExecuteLaw, Executing
  <2>2. Message.type = "law" /\ cache' = [cache EXCEPT !.next = @ + 1]
    BY <1>9 DEF ExecuteLaw
  <2>3. CacheBalanced(cache.constitution, constitution, proposals[cache.id].msgs, cache.next)
    BY <1>1, <1>7, <2>1, <2>2, MessageAccountedFor DEF Message
  <2>4. cache' = [id |-> cache.id, next |-> cache.next + 1,
                  constitution |-> cache.constitution, daoParams |-> cache.daoParams]
    BY <1>7, <2>1, <2>2
  <2> QED
    BY <1>1, <1>7, <2>1, <2>3, <2>4, RunStep
<1>10. CASE ExecuteUpdateDaos
  <2>1. ~Idle /\ Executing /\ UNCHANGED <<constitution, proposals>>
    BY <1>10 DEF ExecuteUpdateDaos, Executing
  <2>2. /\ Message.type = "daos"
        /\ cache' = [cache EXCEPT !.daoParams = Message.params, !.next = @ + 1]
    BY <1>10 DEF ExecuteUpdateDaos
  <2>3. CacheBalanced(cache.constitution, constitution, proposals[cache.id].msgs, cache.next)
    BY <1>1, <1>7, <2>1, <2>2, MessageAccountedFor DEF Message
  <2>4. cache' = [id |-> cache.id, next |-> cache.next + 1,
                  constitution |-> cache.constitution, daoParams |-> Message.params]
    BY <1>7, <2>1, <2>2
  <2> QED
    BY <1>1, <1>7, <2>1, <2>3, <2>4, RunStep
<1>11. CASE ExecutionFails
  <2>1. ~Idle /\ cache.id \in Ids /\ proposals[cache.id].status = "open"
    BY <1>1, <1>11 DEF ExecutionFails, Executing, CacheInv, RunningInv
  <2>2. /\ constitution' = constitution /\ cache' = NoCache
        /\ proposals' = [proposals EXCEPT ![cache.id].status = "failed"] /\ "failed" \in Statuses
    BY <1>11 DEF ExecutionFails, Discard, Statuses
  <2> QED
    BY <1>4, <2>1, <2>2
<1>12. CASE WriteCache
  <2> DEFINE q == cache.id
  <2>1. /\ ~Idle /\ q \in Ids /\ proposals[q].status = "open"
        /\ cache.constitution \in Text \ {<<>>}
    BY <1>1, <1>12 DEF WriteCache, CacheInv, RunningInv
  <2>2. /\ constitution' = cache.constitution /\ cache' = NoCache
        /\ proposals' = [proposals EXCEPT ![q].status = "passed"] /\ "passed" \in Statuses
    BY <1>12 DEF WriteCache, Statuses
  <2>3. CacheBalanced(cache.constitution, constitution, proposals[q].msgs, Len(proposals[q].msgs))
    <3>1. cache.next - 1 = Len(proposals[q].msgs)
      BY <1>1, <1>12, <2>1 DEF WriteCache, RunningInv, CacheInv, MessagesInv, IsMessageList
    <3> QED
      BY <1>1, <2>1, <3>1 DEF RunningInv
  <2> HIDE DEF q
  <2>4. /\ ProposalsInv'
        /\ \A p \in Ids : proposals'[p].msgs = proposals[p].msgs
        /\ \A p \in Ids : p # q => proposals'[p].status = proposals[p].status
        /\ proposals'[q].status = "passed"
    BY <1>1, <2>1, <2>2, StatusUpdate
  <2>5. Passes(proposals, proposals', q)
    BY <1>1, <2>1, <2>4 DEF Passes, MessagesInv
  <2>6. ConstitutionBalanced(cache.constitution, proposals')
    BY <1>1, <2>1, <2>3, <2>5, PassedAccountedFor
  <2>7. RunningInv'
    BY <2>2 DEF RunningInv, Idle
  <2> QED
    BY <2>1, <2>2, <2>4, <2>6, <2>7 DEF ConstitutionInv
<1> QED
  BY <1>2, <1>3, <1>5, <1>6, <1>8, <1>9, <1>10, <1>11, <1>12
     DEF EnactmentNext, ProposalStep, enactmentVars, vars

\* The constitution is accounted for throughout.
THEOREM ConstitutionInvariance == EnactmentSpec => []ConstitutionInv
BY ConstitutionInit, ConstitutionNext, DaosInvariance, PTL DEF EnactmentSpec

\* No amendment is lost, applied twice or applied in part, whatever the texts, the patches,
\* their order and the failures of other messages of the same proposals.
THEOREM ConstitutionAccountedFor == EnactmentSpec => []LinesAccountedFor
<1>1. ConstitutionInv => LinesAccountedFor
  <2>1. \A mark, x : Enacted(mark, x) = Total(proposals, mark, x)
    BY DEF Enacted, Passed, Total
  <2> QED
    BY <2>1 DEF ConstitutionInv, ConstitutionBalanced, Balanced, LinesAccountedFor
<1> QED
  BY <1>1, ConstitutionInvariance, PTL

\* The stored text always has a line, and a proposal that runs is an open one.
THEOREM EnactmentTypeCorrect == EnactmentSpec => []EnactmentTypeOK
<1>1. DaosInv /\ ConstitutionInv => EnactmentTypeOK
  <2> SUFFICES ASSUME DaosInv, ConstitutionInv PROVE EnactmentTypeOK
    OBVIOUS
  <2>1. Len(constitution) > 0
    BY EmptySeq DEF ConstitutionInv, Text
  <2> QED
    BY <2>1 DEF DaosInv, ConstitutionInv, EnactmentTypeOK, CacheInv, RunningInv, ProposalsInv,
                Statuses
<1> QED
  BY <1>1, DaosInvariance, ConstitutionInvariance, PTL

\* The patch algorithm does what the hunks say, on every text and patch of the model.
THEOREM PatchesReplaceHunks == EnactmentSpec => []PatchReplacesHunks
<1>1. PatchReplacesHunks
  <2> SUFFICES ASSUME EnactmentInit, NEW src \in Texts \cup {constitution},
                      NEW patch, ParseUnifiedDiff(patch), InOrder(patch)
               PROVE  LET applied == ApplyUnifiedDiff(src, patch)
                      IN  /\ applied.ok <=> Fits(src, patch)
                          /\ applied.ok => applied.result = AsText(Patched(src, patch))
    BY DEF PatchReplacesHunks
  <2>1. src \in Text
    BY EnactmentAssumption DEF EnactmentInit, Text, Line
  <2> QED
    BY <2>1, PatchDoesWhatItSays, Zenon
<1> QED
  BY <1>1, PTL

\* Every line is a string, the empty one too.
LEMMA TextsAreStrings == Text = Seq(STRING)
<1>1. Line = STRING
  BY EmptyLineAssumption DEF Line
<1> QED
  BY <1>1 DEF Text

LEMMA DraftsApplyToTexts ==
    ASSUME NEW src \in Seq(STRING) \ {<<>>}, NEW dst \in Seq(STRING) \ {<<>>}
    PROVE  DraftsApply(src, dst)
<1>1. Context \in Nat
  BY EnactmentAssumption
<1>2. ClientLines(src) # ClientLines(dst) =>
         \A patch \in GenerateUnifiedDiff(src, dst, Context) :
            /\ ApplyUnifiedDiff(src, patch).ok
            /\ ApplyUnifiedDiff(src, patch).result = ClientLines(dst) \o FinalBreak(src)
  BY <1>1, DraftGivesTarget
<1> QED
  BY <1>2, Zenon DEF DraftsApply

\* Whatever text the passed proposals have made of the constitution, an amendment the
\* client drafts from it applies to it and gives the lines its author wants.
THEOREM DraftsAreClean == EnactmentSpec => []DraftsApplyCleanly
<1>1. ConstitutionInv => DraftsApplyCleanly
  <2> SUFFICES ASSUME ConstitutionInv PROVE DraftsApplyCleanly
    OBVIOUS
  <2>1. constitution \in Seq(STRING) \ {<<>>}
    BY TextsAreStrings DEF ConstitutionInv
  <2>2. \A text \in Targets \cup Texts : text \in Seq(STRING) \ {<<>>}
    BY EnactmentAssumption
  <2>3. \A text \in Targets : DraftsApply(constitution, text)
    BY <2>1, <2>2, DraftsApplyToTexts
  <2>4. \A src, dst \in Texts : DraftsApply(src, dst)
    BY <2>2, DraftsApplyToTexts
  <2> QED
    BY <2>3, <2>4 DEF DraftsApplyCleanly
<1> QED
  BY <1>1, ConstitutionInvariance, PTL
=============================================================================
