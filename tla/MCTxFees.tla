------------------------------ MODULE MCTxFees ------------------------------
(***************************************************************************)
(* Instances of TxFees for TLC.  Decimals have One = 100 units; prices are  *)
(* around 1.0 and gas limits of a few units.                                *)
(***************************************************************************)
EXTENDS TxFees

\* The proportions of DefaultAIMDParams, with rates that move in a few blocks.
Aimd2 ==
    [Alpha |-> 15, Beta |-> 50, Gamma |-> 25, MinBaseGasPrice |-> 50,
     TargetBlockUtilization |-> 50, DefaultMaxBlockGas |-> 4,
     MinLearningRate |-> 20, MaxLearningRate |-> 50, Window |-> 2, Enabled |-> TRUE]

\* DefaultParams: plain EIP-1559, a window of one block and a constant rate.
Eip1559 ==
    [Alpha |-> 0, Beta |-> 100, Gamma |-> 0, MinBaseGasPrice |-> 100,
     TargetBlockUtilization |-> 50, DefaultMaxBlockGas |-> 2,
     MinLearningRate |-> 25, MaxLearningRate |-> 25, Window |-> 1, Enabled |-> TRUE]

Disabled == [Aimd2 EXCEPT !.Enabled = FALSE]

\* Accepted by UpdateParams, although Params.ValidateBasic would refuse it.
NoWindow == [Aimd2 EXCEPT !.Window = 0]

AllParams     == {Aimd2, Eip1559, Disabled}
AimdOrEip     == {Aimd2, Eip1559}
EipOrDisabled == {Eip1559, Disabled}
AimdOrNone    == {Aimd2, NoWindow}

MCBond   == [a \in Accounts |-> 2]
MCPhoton == [a \in Accounts |-> 9]

\* One account pays for another, which owns only bond denom.
CONSTANTS a1, a2
SharedBond   == [a \in Accounts |-> IF a = a1 THEN 3 ELSE 1]
SharedPhoton == [a \in Accounts |-> IF a = a1 THEN 2 ELSE 0]

PhotonOnly == [MintDisabled |-> FALSE, TxFeeExceptions |-> <<>>]
MintInBond == [MintDisabled |-> FALSE, TxFeeExceptions |-> <<"mint">>]
AnyFee     == [MintDisabled |-> TRUE,  TxFeeExceptions |-> <<"*">>]

OnePhotonSet   == {PhotonOnly}
ThreePhotonSets == {PhotonOnly, MintInBond, AnyFee}

FeeCoin(d, n) == [denom |-> d, amount |-> n]

PhotonFees == {<<FeeCoin("photon", n)>> : n \in 1 .. 3}
MixedFees  ==
    {<<>>, <<FeeCoin("photon", 1)>>, <<FeeCoin("bond", 2)>>,
     <<FeeCoin("bond", 1), FeeCoin("photon", 1)>>}

NoGrants == {}
OneGrant == {<<a1, a2>>}
=============================================================================
