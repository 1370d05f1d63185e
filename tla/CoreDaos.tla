------------------------------ MODULE CoreDaos ------------------------------
(***************************************************************************)
(* The two core DAOs and staking: the parameters of x/coredaos, its staking *)
(* hooks, which keep the DAOs from staking, and the ante handler that lets  *)
(* only stakers vote.  Staking itself is the Cosmos SDK's: what an account  *)
(* has delegated to each validator, and what it has unbonding, in tokens.   *)
(* A transaction that returns an error is an action that is not enabled.    *)
(***************************************************************************)
EXTENDS Integers, Sums

CONSTANTS
    Accounts,               \* the accounts that stake, vote or are a DAO
    NumValidators,          \* validators, numbered in the order of the store
    Amounts,                \* tokens a transaction may move
    MaxStake,               \* bound on the tokens an account has staked
    MinStakedTokens,        \* minStakedTokens of the vote decorator
    MaxDelegationsChecked,  \* maxDelegationsChecked of the vote decorator
    DaoParamSets,           \* parameters a MsgUpdateParams may install
    Unset                   \* an empty DAO address

Validators == 1 .. NumValidators

\* types.Params, without the extension limits (see GovDaos).
DaoParams ==
    [SteeringDaoAddress  : Accounts \cup {Unset},
     OversightDaoAddress : Accounts \cup {Unset}]

ASSUME CoreDaosAssumption ==
    /\ Unset \notin Accounts
    /\ NumValidators \in Nat
    /\ Amounts \subseteq Nat \ {0}
    /\ MaxStake \in Nat
    /\ MinStakedTokens \in Nat \ {0}
    /\ MaxDelegationsChecked \in Nat \ {0}
    /\ DaoParamSets \subseteq DaoParams

VARIABLES
    daoParams,        \* the stored parameters
    delegated,        \* account -> validator -> tokens
    unbonding,        \* account -> tokens on their way out of staking
    checkedVoters     \* the accounts whose last vote passed the decorator's check of stake

stakingVars == <<delegated, unbonding>>
coreDaosVars == <<daoParams, delegated, unbonding, checkedVoters>>

\* DefaultParams: both DAOs are disabled.
CoreDaosInit ==
    /\ daoParams = [SteeringDaoAddress |-> Unset, OversightDaoAddress |-> Unset]
    /\ delegated = [a \in Accounts |-> [v \in Validators |-> 0]]
    /\ unbonding = [a \in Accounts |-> 0]
    /\ checkedVoters = {}

-----------------------------------------------------------------------------
\* GetDelegatorBonded.
Bonded(a) == SumOver(delegated[a], Validators)

\* GetDelegatorBonded or GetDelegatorUnbonding is positive.
HasStake(a) ==
    \/ \E v \in Validators : delegated[a][v] > 0
    \/ unbonding[a] > 0

\* The addresses of the parameters that are set.
Daos(params) == {params.SteeringDaoAddress, params.OversightDaoAddress} \ {Unset}

\* Mutant of MayBecomeDaos: tokens that are unbonding are not looked at.
MayBecomeDaos_BondedOnly(params) ==
    \A a \in Daos(params) : \A v \in Validators : delegated[a][v] = 0

\* MsgUpdateParams is refused while one of the new DAOs has bonded or unbonding tokens.
MayBecomeDaos(params) == \A a \in Daos(params) : ~HasStake(a)

\* Mutant of ValidateDelegation: only the Steering DAO is kept from staking.
ValidateDelegation_SteeringOnly(a) == a # daoParams.SteeringDaoAddress

\* The hooks before a delegation is created or changed, also by undelegating.
ValidateDelegation(a) == a \notin Daos(daoParams)

Delegate(a, v, n) ==
    /\ ValidateDelegation(a)
    /\ Bonded(a) + unbonding[a] + n <= MaxStake
    /\ delegated' = [delegated EXCEPT ![a][v] = @ + n]
    /\ UNCHANGED <<daoParams, unbonding, checkedVoters>>

Undelegate(a, v, n) ==
    /\ ValidateDelegation(a)
    /\ n <= delegated[a][v]
    /\ delegated' = [delegated EXCEPT ![a][v] = @ - n]
    /\ unbonding' = [unbonding EXCEPT ![a] = @ + n]
    /\ UNCHANGED <<daoParams, checkedVoters>>

BeginRedelegate(a, v, w, n) ==
    /\ ValidateDelegation(a)
    /\ v # w
    /\ n <= delegated[a][v]
    /\ delegated' = [delegated EXCEPT ![a][v] = @ - n, ![a][w] = @ + n]
    /\ UNCHANGED <<daoParams, unbonding, checkedVoters>>

CancelUnbonding(a, v, n) ==
    /\ ValidateDelegation(a)
    /\ n <= unbonding[a]
    /\ unbonding' = [unbonding EXCEPT ![a] = @ - n]
    /\ delegated' = [delegated EXCEPT ![a][v] = @ + n]
    /\ UNCHANGED <<daoParams, checkedVoters>>

\* Some of the unbonding tokens of a are paid out; no hook is called.
CompleteUnbonding(a, n) ==
    /\ n <= unbonding[a]
    /\ unbonding' = [unbonding EXCEPT ![a] = @ - n]
    /\ UNCHANGED <<daoParams, delegated, checkedVoters>>

\* A validator is slashed: every delegation to it loses half, rounded down.
Slash(v) ==
    /\ delegated' = [a \in Accounts |-> [delegated[a] EXCEPT ![v] = @ \div 2]]
    /\ UNCHANGED <<daoParams, unbonding, checkedVoters>>

StakingStep ==
    \/ \E a \in Accounts, v \in Validators, n \in Amounts :
          Delegate(a, v, n) \/ Undelegate(a, v, n) \/ CancelUnbonding(a, v, n)
    \/ \E a \in Accounts, v, w \in Validators, n \in Amounts : BeginRedelegate(a, v, w, n)
    \/ \E a \in Accounts, n \in Amounts : CompleteUnbonding(a, n)
    \/ \E v \in Validators : Slash(v)

-----------------------------------------------------------------------------
(* Votes.                                                                   *)

\* The delegations of a that the decorator looks at, in the order of the store.
DelegationsChecked(a) ==
    LET delegations == {v \in Validators : delegated[a][v] > 0}
    IN  {v \in delegations :
            Cardinality({w \in delegations : w <= v}) <= MaxDelegationsChecked}

\* They reach the minimum.
EnoughStake(a) == SumOver(delegated[a], DelegationsChecked(a)) >= MinStakedTokens

\* A MsgVote that GovVoteDecorator looks at: one of the transaction's messages, or a message
\* of one of its MsgExecs.
VoteByMsgVote(a) ==
    /\ EnoughStake(a)
    /\ checkedVoters' = checkedVoters \cup {a}
    /\ UNCHANGED <<daoParams, delegated, unbonding>>

\* The decorator knows no MsgVoteWeighted.
VoteByMsgVoteWeighted(a) ==
    /\ checkedVoters' = checkedVoters \ {a}
    /\ UNCHANGED <<daoParams, delegated, unbonding>>

\* A MsgVote in a MsgExec of a MsgExec: validAuthz unpacks the outer one only, and the
\* MsgExec it finds there is "not a vote message".
VoteByNestedMsgVote(a) ==
    /\ checkedVoters' = checkedVoters \ {a}
    /\ UNCHANGED <<daoParams, delegated, unbonding>>

VoteStep ==
    \E a \in Accounts :
       VoteByMsgVote(a) \/ VoteByMsgVoteWeighted(a) \/ VoteByNestedMsgVote(a)

-----------------------------------------------------------------------------
CoreDaosTypeOK ==
    /\ daoParams \in DaoParams
    /\ delegated \in [Accounts -> [Validators -> Nat]]
    /\ unbonding \in [Accounts -> Nat]
    /\ checkedVoters \subseteq Accounts

(***************************************************************************)
(* "Core DAOs cannot stake" (hooks.go, types/errors.go): no account that is *)
(* a DAO has bonded or unbonding tokens, whenever it became one.            *)
(***************************************************************************)
DaosHoldNoStake == \A a \in Daos(daoParams) : ~HasStake(a)

(***************************************************************************)
(* No account passes the decorator's check of stake while it is a DAO: the  *)
(* check counts stake of the moment, and the hooks leave a DAO none.  This  *)
(* is about the votes the decorator looks at; a DAO can still vote with a   *)
(* MsgVoteWeighted or from a nested MsgExec.                                *)
(***************************************************************************)
DaosPassNoStakeCheck ==
    [][(checkedVoters' \ checkedVoters) \cap Daos(daoParams) = {}]_coreDaosVars
=============================================================================
