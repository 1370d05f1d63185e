---------------------------- MODULE PhotonSupply ----------------------------
(***************************************************************************)
(* What x/photon promises about the two supplies, whatever the accounts,    *)
(* fees and parameters are: photon comes into being only by burning bond    *)
(* denom, never beyond MaxSupply, and some bond denom always remains.       *)
(***************************************************************************)
EXTENDS Integers

CONSTANT MaxSupply

VARIABLES bond,     \* supply of the bond denom
          photon    \* supply of photon

Init == bond \in Nat \ {0} /\ photon \in 0 .. MaxSupply

\* Part of the bond denom is turned into photon.
Mint ==
    /\ bond' < bond /\ bond' > 0
    /\ photon' > photon /\ photon' <= MaxSupply

\* Staking rewards.
Inflate == bond' > bond /\ photon' = photon

Next == Mint \/ Inflate

Spec == Init /\ [][Next]_<<bond, photon>>
=============================================================================
