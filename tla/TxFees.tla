------------------------------- MODULE TxFees -------------------------------
(***************************************************************************)
(* The fees of transactions: x/dynamicfee composed with x/photon.  A block  *)
(* runs its transactions through the ante handlers (ValidateFeeDecorator of *)
(* x/photon, then DynamicfeeCheckDecorator), the messages and the post      *)
(* handler of x/dynamicfee; then the EndBlocker of x/dynamicfee, and after  *)
(* it that of x/gov, which may execute parameter changes (the order is      *)
(* orderEndBlockers in app/modules.go).                                     *)
(*                                                                          *)
(* A transaction that the ante handlers refuse changes nothing and is an    *)
(* action that is not enabled.  A panic in EndBlocker or InitGenesis stops  *)
(* the chain: halted.                                                       *)
(***************************************************************************)
EXTENDS Aimd, Photon

CONSTANTS
    Fees,             \* what a transaction may offer: sequences of coins
    GasLimits,        \* gas limits of transactions
    MintAmounts,      \* what the MsgMintPhoton of a transaction may burn; 0 for none
    Grants,           \* pairs <<granter, grantee>> with a fee allowance
    FeeParamSets,     \* parameters a MsgUpdateParams of x/dynamicfee may install
    MaxGases,         \* values of the consensus parameter Block.MaxGas
    RestartAllowed    \* whether the chain may be restarted from an exported genesis

Coin == [denom : Denoms, amount : Nat]

\* No fee granter: the payer pays.
Self == "self"

ASSUME TxFeesAssumption ==
    /\ Fees \subseteq Seq(Coin)
    /\ GasLimits \subseteq Nat
    /\ MintAmounts \subseteq Burns \cup {0}
    /\ Grants \subseteq Accounts \X Accounts
    /\ FeeParamSets \subseteq FeeParams
    /\ MaxGases \subseteq (0 .. MaxInt64) \cup {-1}
    /\ RestartAllowed \in BOOLEAN
    /\ Self \notin Accounts

VARIABLES
    feeParams,        \* KeyParams of x/dynamicfee
    feeState,         \* KeyState
    justEnabled,      \* whether KeyEnabledHeight is the current height (or above)
    maxGas,           \* consensus parameter Block.MaxGas
    collector,        \* the fee collector account, by denom
    phase,            \* "deliver": transactions; "ended": after EndBlock of x/dynamicfee
    halted

feeVars == <<feeParams, feeState, justEnabled, maxGas, collector, phase, halted>>
vars == <<photonVars, feeVars>>

\* A transaction: a MsgMintPhoton (burn > 0), some other message, or both.
Tx == {t \in [payer : Accounts, granter : Accounts \cup {Self}, fee : Fees,
              gas : GasLimits, burn : MintAmounts, other : BOOLEAN] :
         t.burn > 0 \/ t.other}

NoFees == [d \in Denoms |-> 0]

\* InitGenesis of a state NewState made (DefaultGenesisState, DefaultAIMDGenesisState).
Init ==
    /\ PhotonInit
    /\ feeParams \in {p \in FeeParamSets : ValidFeeParams(p) /\ ValidState(NewState(p))}
    /\ feeState = NewState(feeParams)
    /\ justEnabled = FALSE
    /\ maxGas \in MaxGases
    /\ collector = NoFees
    /\ phase = "deliver"
    /\ halted = FALSE

-----------------------------------------------------------------------------
\* Mutant of GetMaxBlockGas: a limit of zero is taken literally.
GetMaxBlockGas_Raw(p) == IF maxGas = -1 THEN p.DefaultMaxBlockGas ELSE maxGas

\* Keeper.GetMaxBlockGas: 0 and -1 stand for the default of the parameters.
GetMaxBlockGas(p) == IF maxGas \in {0, -1} THEN p.DefaultMaxBlockGas ELSE maxGas

\* The types of the messages of a transaction.
MsgTypes(t) == {m \in {"mint", "other"} : IF m = "mint" THEN t.burn > 0 ELSE t.other}

\* AllowsAnyTxFee of x/photon/ante.
AllowsAnyTxFee(t) ==
    LET exceptions == photonParams.TxFeeExceptions
    IN  \/ exceptions # <<>> /\ exceptions[1] = "*"
        \/ \A m \in MsgTypes(t) : \E i \in DOMAIN exceptions : exceptions[i] = m

\* ValidateFeeDecorator.AnteHandle of x/photon/ante.
ValidateFee(t) ==
    \/ \A i \in DOMAIN t.fee : t.fee[i].amount = 0
    \/ AllowsAnyTxFee(t)
    \/ Len(t.fee) = 1 /\ t.fee[1].denom = "photon"

\* ConvertToDenom fails on a zero rate (it divides by it, and the tx panics).
Convertible(denom) == denom = "photon" \/ Rate(bank) > 0

\* Keeper.GetMinGasPrice, through ConvertToDenom of x/photon for the bond denom.
GetMinGasPrice(denom) ==
    IF denom = "photon" THEN feeState.BaseGasPrice
                        ELSE Quo(feeState.BaseGasPrice, Rate(bank))

\* CheckTxFee.
CheckTxFee(gasPrice, coin, gas) ==
    gasPrice = 0 \/ coin.amount >= RequiredFee(gasPrice, gas)

\* The account DeductFees charges.
DeductFeesFrom(t) == IF t.granter = Self THEN t.payer ELSE t.granter

\* The fee is charged to the payer or, with an allowance, to the granter.
MayCharge(t) == \/ t.granter \in {Self, t.payer}
                \/ <<t.granter, t.payer>> \in Grants

\* What the fee of a transaction sums up to, per denom.
FeeIn(t, d) ==
    SumOver([i \in DOMAIN t.fee |-> t.fee[i].amount],
            {i \in DOMAIN t.fee : t.fee[i].denom = d})

\* Mutant of CanDeduct: the balance of the granter is not checked.
CanDeduct_GranterUnchecked(t) ==
    /\ MayCharge(t)
    /\ \A d \in Denoms : bank.bal[d][t.payer] >= FeeIn(t, d)

\* DeductFees succeeds: an allowance if one is needed, and enough coins.
CanDeduct(t) ==
    /\ MayCharge(t)
    /\ \A d \in Denoms : bank.bal[d][DeductFeesFrom(t)] >= FeeIn(t, d)

\* The bank after DeductFees: the entire fee is taken.
DeductedBank(t) ==
    [bank EXCEPT !.bal = [d \in Denoms |->
        [bank.bal[d] EXCEPT ![DeductFeesFrom(t)] = @ - FeeIn(t, d)]]]

\* The fee collector after DeductFees.
Collected(t) == [d \in Denoms |-> collector[d] + FeeIn(t, d)]

(***************************************************************************)
(* dynamicfeeCheckDecorator.anteHandle.  The priority of a transaction paid *)
(* in another denom divides by its gas price, and panics if that is zero.   *)
(***************************************************************************)
DynamicfeeAnte(t) ==
    /\ t.gas > 0
    /\ Len(t.fee) = 1
    /\ LET payCoin == t.fee[1]
       IN  /\ Convertible(payCoin.denom)
           /\ CheckTxFee(GetMinGasPrice(payCoin.denom), payCoin, t.gas)
           /\ payCoin.denom = "photon" \/ GetMinGasPrice(payCoin.denom) > 0
    /\ CanDeduct(t)

\* ante.DeductFeeDecorator of the SDK, the fallback while x/dynamicfee is disabled:
\* when a block is executed it requires no minimum.
FallbackAnte(t) == t.gas > 0 /\ CanDeduct(t)

\* The two fee decorators of NewAnteHandler, in their order.
AnteHandle(t) ==
    /\ ValidateFee(t)
    /\ IF feeParams.Enabled THEN DynamicfeeAnte(t) ELSE FallbackAnte(t)

\* Whether the messages succeed after the fee has been deducted; others may fail too.
MsgsSucceed(t) ==
    t.burn > 0 => CanMint(DeductedBank(t), photonParams, t.payer, t.burn)

\* The bank after the messages.
AfterMsgs(t) ==
    IF t.burn > 0 THEN AfterMint(DeductedBank(t), t.payer, t.burn) ELSE DeductedBank(t)

\* Whether PostHandle counts gas: not while disabled nor in the block that enabled it.
CountsGas == feeParams.Enabled /\ ~justEnabled

\* A transaction that consumes `used` gas and succeeds.
DeliverTx(t, used) ==
    /\ phase = "deliver"
    /\ AnteHandle(t)
    /\ MsgsSucceed(t)
    /\ CountsGas => GasFits(feeState, used, GetMaxBlockGas(feeParams))
    /\ bank' = AfterMsgs(t)
    /\ collector' = Collected(t)
    /\ feeState' = IF CountsGas THEN Update(feeState, used) ELSE feeState
    /\ UNCHANGED <<photonParams, feeParams, justEnabled, maxGas, phase, halted>>

(***************************************************************************)
(* A transaction whose messages or post handler fail: an error, out of gas, *)
(* or the block is full.  The SDK keeps what the ante handlers wrote and    *)
(* discards the writes of the messages and of the post handler.             *)
(***************************************************************************)
FailTx(t) ==
    /\ phase = "deliver"
    /\ AnteHandle(t)
    /\ bank' = DeductedBank(t)
    /\ collector' = Collected(t)
    /\ UNCHANGED <<photonParams, feeParams, feeState, justEnabled, maxGas, phase, halted>>

-----------------------------------------------------------------------------
(***************************************************************************)
(* EndBlock of x/dynamicfee.  Panics in the two updates are recovered, the  *)
(* ones in the average and the net gas that are logged, and in              *)
(* IncrementHeight, are not.                                                *)
(***************************************************************************)
EndBlock ==
    /\ phase = "deliver"
    /\ phase' = "ended"
    /\ IF feeParams.Enabled
       THEN LET maxBlockGas == GetMaxBlockGas(feeParams)
                panics      == \/ AveragePanics(feeState, maxBlockGas)
                               \/ TargetOverflows(maxBlockGas, feeParams)
            IN  /\ halted' = panics
                /\ feeState' = IF panics THEN feeState
                                         ELSE Repriced(feeState, feeParams, maxBlockGas)
       ELSE UNCHANGED <<feeState, halted>>
    /\ UNCHANGED <<photonVars, feeParams, justEnabled, maxGas, collector>>

\* Mutant of StateForParams: a parameter change keeps the state.
StateForParams_Kept(p) == feeState

\* The state MsgUpdateParams stores.
StateForParams(p) == NewState(p)

\* MsgUpdateParams of x/dynamicfee, executed by x/gov in EndBlock; nothing validates p.
UpdateFeeParams(p) ==
    /\ phase = "ended"
    /\ justEnabled' = (justEnabled \/ (~feeParams.Enabled /\ p.Enabled))
    /\ feeParams' = p
    /\ feeState' = StateForParams(p)
    /\ UNCHANGED <<photonVars, maxGas, collector, phase, halted>>

\* MsgUpdateParams of x/photon, executed by x/gov in EndBlock.
GovUpdatesPhoton(p) ==
    /\ phase = "ended"
    /\ UpdatePhotonParams(p)
    /\ UNCHANGED feeVars

\* A change of the consensus parameters; it holds from the next block on.
UpdateMaxGas(g) ==
    /\ phase = "ended"
    /\ maxGas' = g
    /\ UNCHANGED <<photonVars, feeParams, feeState, justEnabled, collector, phase, halted>>

\* The next block: x/mint may reward an account, x/distribution empties the collector.
BeginBlock ==
    /\ phase = "ended"
    /\ phase' = "deliver"
    /\ justEnabled' = FALSE
    /\ collector' = NoFees
    /\ \/ UNCHANGED photonVars
       \/ \E a \in Accounts, n \in Rewards : Reward(a, n)
    /\ UNCHANGED <<feeParams, feeState, maxGas, halted>>

\* The checks of GenesisState.ValidateBasic and InitGenesis.
GenesisValid(p, s) ==
    /\ ValidFeeParams(p)
    /\ ValidState(s)
    /\ p.Window = Cardinality(DOMAIN s.Window)

\* ExportGenesis of a committed block and InitGenesis of the restarted chain.
Restart ==
    /\ RestartAllowed
    /\ phase = "ended"
    /\ halted' = ~GenesisValid(feeParams, feeState)
    /\ justEnabled' = FALSE
    /\ UNCHANGED <<photonVars, feeParams, feeState, maxGas, collector, phase>>

-----------------------------------------------------------------------------
Transactions ==
    \E t \in Tx : FailTx(t) \/ \E used \in 1 .. t.gas : DeliverTx(t, used)

GovEndBlock ==
    \/ \E p \in FeeParamSets : UpdateFeeParams(p)
    \/ \E p \in PhotonParamSets : GovUpdatesPhoton(p)
    \/ \E g \in MaxGases : UpdateMaxGas(g)

Next ==
    /\ ~halted
    /\ Transactions \/ EndBlock \/ GovEndBlock \/ BeginBlock \/ Restart

Spec == Init /\ [][Next]_vars

\* Consensus keeps producing blocks; no transaction or parameter change is assumed.
\* EndBlock and BeginBlock are the only steps that change the phase.
FairSpec ==
    /\ Spec
    /\ WF_phase(~halted /\ phase = "deliver" /\ phase' = "ended")
    /\ WF_phase(~halted /\ phase = "ended" /\ phase' = "deliver")

-----------------------------------------------------------------------------
\* Every variable has its type; in particular no account pays more than it has.
FeesTypeOK ==
    /\ PhotonTypeOK
    /\ feeParams \in FeeParamSets
    /\ feeState \in FeeStates(feeParams)
    /\ justEnabled \in BOOLEAN
    /\ maxGas \in MaxGases
    /\ collector \in [Denoms -> Nat]
    /\ phase \in {"deliver", "ended"}
    /\ halted \in BOOLEAN

(***************************************************************************)
(* Whatever sequence of parameter changes and restarts, the window has the  *)
(* size of the parameters and the index points into it, so that State.Update *)
(* and IncrementHeight never index outside it.                              *)
(***************************************************************************)
WindowMatchesParams ==
    /\ DOMAIN feeState.Window = 0 .. feeParams.Window - 1
    /\ feeState.Index \in DOMAIN feeState.Window

(***************************************************************************)
(* The price never falls below the minimum and the learning rate stays      *)
(* between its bounds, for the parameters in force, whichever panics the    *)
(* updates recover from.                                                    *)
(***************************************************************************)
PriceAndRateWithinParams ==
    /\ feeState.BaseGasPrice >= feeParams.MinBaseGasPrice
    /\ feeParams.MinLearningRate <= feeState.LearningRate
    /\ feeState.LearningRate <= feeParams.MaxLearningRate

(***************************************************************************)
(* The gas counted for the current block never exceeds the limit in force,  *)
(* also when the limit is lowered between two blocks.                       *)
(***************************************************************************)
BlockGasWithinLimit ==
    feeState.Window[feeState.Index] <= GetMaxBlockGas(feeParams)

(***************************************************************************)
(* The ante handler charges for the gas limit, the post handler counts the  *)
(* gas consumed.  While only photon is accepted, the fees collected in a    *)
(* block pay for all the gas counted in it at the price of the block.       *)
(***************************************************************************)
RevenueCoversGas ==
    photonParams.TxFeeExceptions = <<>> =>
        ToDec(collector["photon"])
            >= feeState.BaseGasPrice * feeState.Window[feeState.Index]

\* No EndBlock of x/dynamicfee and no restart from an exported genesis panics.
NotHalted == ~halted

(***************************************************************************)
(* "Window [...] must be a value that is greater than 0" (AIMD.md): no      *)
(* EndBlock ever stops the chain on parameters with an empty window.        *)
(***************************************************************************)
NoHaltFromEmptyWindow == ~(halted /\ feeParams.Window = 0)

(***************************************************************************)
(* EndBlock moves the price with demand: a block below the target never     *)
(* raises it, one at the target keeps it, and one above never lowers it and *)
(* raises it where no rounding can hide the rise: the excess over the       *)
(* target, the adjustment and the rise are two units of the decimals each.  *)
(* The exceptions are the recovered panics: a target of zero, and decimals  *)
(* beyond the largest, after which the price starts from the minimum.       *)
(***************************************************************************)
PriceFollowsDemand ==
    [][phase = "deliver" /\ phase' = "ended" /\ feeParams.Enabled /\ ~halted' =>
         LET target == GetTargetBlockGas(GetMaxBlockGas(feeParams), feeParams)
             gas    == feeState.Window[feeState.Index]
             excess == gas - target
             old    == feeState.BaseGasPrice
             new    == feeState'.BaseGasPrice
             rate   == feeState'.LearningRate
             rated  == [feeState EXCEPT !.LearningRate = rate]
         IN  target > 0 =>
               /\ gas <= target => new <= old
               /\ gas >= target /\ ~PriceOverflows(rated, target) =>
                    /\ new >= old
                    /\ (/\ One * excess >= 2 * target
                        /\ rate * excess >= 2 * target
                        /\ old * (rate * excess) >= 2 * (One * target)) => new > old]_vars

\* No gas was counted in any block of the window.
Idle == \A i \in DOMAIN feeState.Window : feeState.Window[i] = 0

(***************************************************************************)
(* If from some time on the pricing stays enabled and blocks stay empty,    *)
(* the price falls to the minimum and stays there: neither rounding nor the *)
(* adaptation of the learning rate stops it above.                          *)
(***************************************************************************)
PriceDecays ==
    <>[](feeParams.Enabled /\ Idle)
        => <>[](feeState.BaseGasPrice = feeParams.MinBaseGasPrice)
=============================================================================
