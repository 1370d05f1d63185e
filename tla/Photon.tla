------------------------------- MODULE Photon -------------------------------
(***************************************************************************)
(* x/photon: photon is minted by burning bond denom (atone), at a rate that *)
(* falls to zero as the supply of photon reaches MaxSupply.  The module     *)
(* stores its parameters; balances and supplies are the bank's.  A message  *)
(* that returns an error is an action that is not enabled.                  *)
(***************************************************************************)
EXTENDS Decimals, Sequences, Sums

CONSTANTS
    Accounts,         \* the accounts that hold spendable coins
    MaxSupply,        \* types.MaxSupply
    Burns,            \* amounts a MsgMintPhoton may burn
    Staked,           \* bonded bond denom, which cannot be burned
    InitBond,         \* spendable bond denom of each account at genesis
    InitPhoton,       \* photon of each account at genesis
    Rewards,          \* amounts of bond denom the mint module may create at once
    MaxBond,          \* bound on the supply of bond denom
    PhotonParamSets   \* parameters a MsgUpdateParams may install

Denoms == {"bond", "photon"}

\* types.Params: minting may be disabled; TxFeeExceptions lists message types.
PhotonParams == [MintDisabled : BOOLEAN, TxFeeExceptions : Seq({"mint", "other", "*"})]

ASSUME PhotonAssumption ==
    /\ IsFiniteSet(Accounts)
    /\ MaxSupply \in Nat
    /\ Burns \subseteq Nat \ {0}         \* MsgMintPhoton.ValidateBasic
    /\ Staked \in Nat \ {0}              \* otherwise no block is produced
    /\ InitBond \in [Accounts -> Nat] /\ InitPhoton \in [Accounts -> Nat]
    /\ SumOver(InitPhoton, Accounts) <= MaxSupply
    /\ Rewards \subseteq Nat \ {0}
    /\ MaxBond \in Nat /\ Staked + SumOver(InitBond, Accounts) <= MaxBond
    /\ PhotonParamSets \subseteq PhotonParams

\* The supply of bond denom stays below the precision of decimals (10^18 units).
ASSUME PrecisionAssumption == MaxBond < One

VARIABLES
    bank,             \* balances of the accounts and supplies, by denom
    photonParams      \* the stored parameters

photonVars == <<bank, photonParams>>

Bank == [bal : [Denoms -> [Accounts -> Nat]], supply : [Denoms -> Nat]]

PhotonInit ==
    /\ bank = [bal    |-> [d \in Denoms |-> IF d = "bond" THEN InitBond ELSE InitPhoton],
               supply |-> [d \in Denoms |->
                             IF d = "bond" THEN Staked + SumOver(InitBond, Accounts)
                                           ELSE SumOver(InitPhoton, Accounts)]]
    /\ photonParams \in PhotonParamSets

-----------------------------------------------------------------------------
\* Mutant of PhotonConversionRate: the photon already minted is not deducted.
PhotonConversionRate_Whole(bondSupply, uphotonSupply) ==
    Quo(ToDec(MaxSupply), ToDec(bondSupply))

(***************************************************************************)
(* Keeper.PhotonConversionRate, a decimal.  It panics on a zero bond denom  *)
(* supply; BondSupplyCoversBalances shows that there is always some.        *)
(***************************************************************************)
PhotonConversionRate(bondSupply, uphotonSupply) ==
    LET remainMintableUphotons == ToDec(MaxSupply) - ToDec(uphotonSupply)
    IN  IF remainMintableUphotons < 0
        THEN 0
        ELSE Quo(remainMintableUphotons, ToDec(bondSupply))

\* The current rate, as every caller computes it from the bank's supplies.
Rate(b) == PhotonConversionRate(b.supply["bond"], b.supply["photon"])

\* Mutant of UphotonToMint: the rate is truncated to an integer first.
UphotonToMint_IntegerRate(b, amount) == amount * TruncateInt(Rate(b))

\* The photons minted for an amount of bond denom.
UphotonToMint(b, amount) == RoundInt(Mul(ToDec(amount), Rate(b)))

\* Mutant of CanMint: the balance of the account is not checked.
CanMint_Unchecked(b, p, a, amount) ==
    /\ ~p.MintDisabled
    /\ b.supply["bond"] >= amount
    /\ UphotonToMint(b, amount) # 0

\* The conditions under which MintPhoton returns no error.
CanMint(b, p, a, amount) ==
    /\ ~p.MintDisabled
    /\ UphotonToMint(b, amount) # 0
    /\ b.bal["bond"][a] >= amount

\* Mutant of AfterMint: the account keeps the coins that were burned.
AfterMint_NoDebit(b, a, amount) ==
    [b EXCEPT !.bal["photon"][a] = @ + UphotonToMint(b, amount),
              !.supply["bond"]   = @ - amount,
              !.supply["photon"] = @ + UphotonToMint(b, amount)]

\* The burn and mint phase, through the module account and back.
AfterMint(b, a, amount) ==
    [b EXCEPT !.bal["bond"][a]   = @ - amount,
              !.bal["photon"][a] = @ + UphotonToMint(b, amount),
              !.supply["bond"]   = @ - amount,
              !.supply["photon"] = @ + UphotonToMint(b, amount)]

MintPhoton(a, amount) ==
    /\ CanMint(bank, photonParams, a, amount)
    /\ bank' = AfterMint(bank, a, amount)
    /\ UNCHANGED photonParams

\* MsgUpdateParams, signed by the governance account.
UpdatePhotonParams(p) == photonParams' = p /\ UNCHANGED bank

\* The bank after the mint module created n bond denom and account a received it.
AfterReward(b, a, n) ==
    [b EXCEPT !.bal["bond"][a] = @ + n, !.supply["bond"] = @ + n]

Reward(a, n) ==
    /\ bank.supply["bond"] + n <= MaxBond
    /\ bank' = AfterReward(bank, a, n)
    /\ UNCHANGED photonParams

PhotonNext ==
    \/ \E a \in Accounts, amount \in Burns : MintPhoton(a, amount)
    \/ \E p \in PhotonParamSets : UpdatePhotonParams(p)
    \/ \E a \in Accounts, n \in Rewards : Reward(a, n)

PhotonSpec == PhotonInit /\ [][PhotonNext]_photonVars

-----------------------------------------------------------------------------
\* Balances and supplies are natural numbers, also after the rounding of MintPhoton.
PhotonTypeOK == bank \in Bank /\ photonParams \in PhotonParamSets

(***************************************************************************)
(* "This ensures PHOTON's supply never exceeds 1 B tokens" (README of       *)
(* x/photon), although MintPhoton rounds twice, and to the nearest.         *)
(***************************************************************************)
SupplyBounded == bank.supply["photon"] <= MaxSupply

(***************************************************************************)
(* The bond denom supply covers the bonded coins and what the accounts can  *)
(* spend, so it is never zero and PhotonConversionRate never panics.        *)
(***************************************************************************)
BondSupplyCoversBalances ==
    /\ bank.supply["bond"] <= MaxBond
    /\ bank.supply["bond"] >= Staked + SumOver(bank.bal["bond"], Accounts)

(***************************************************************************)
(* For every amount that could be burned now, that is, all but the bonded   *)
(* coins, MintPhoton gives the quotient of the README, amount * (max -      *)
(* photon supply) / bond supply, to less than one photon.                   *)
(***************************************************************************)
MintFollowsFormula ==
    LET bond == bank.supply["bond"]
        left == MaxSupply - bank.supply["photon"]
    IN  \A amount \in 1 .. bond - Staked :
            Abs(UphotonToMint(bank, amount) * bond - amount * left) < bond

Supplies == INSTANCE PhotonSupply
                WITH bond <- bank.supply["bond"], photon <- bank.supply["photon"]

\* x/photon keeps the promises of PhotonSupply.
ImplementsPhotonSupply == Supplies!Spec
=============================================================================
