------------------------------ MODULE MCPhoton ------------------------------
(***************************************************************************)
(* Instances of Photon for TLC: decimals with One = 100 units, a bond denom *)
(* supply below that, and a maximum supply small enough to be reached.      *)
(***************************************************************************)
EXTENDS Photon

MCBond   == [a \in Accounts |-> 6]
MCPhoton0 == [a \in Accounts |-> 0]

MintOn  == [MintDisabled |-> FALSE, TxFeeExceptions |-> <<"mint">>]
MintOff == [MintDisabled |-> TRUE,  TxFeeExceptions |-> <<"mint">>]

OnAndOff == {MintOn, MintOff}
=============================================================================
