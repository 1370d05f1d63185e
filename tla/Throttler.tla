----------------------------- MODULE Throttler -----------------------------
(***************************************************************************)
(* The deposit auto-throttler of x/gov (x/gov/keeper/min_deposit.go and     *)
(* min_initial_deposit.go).  The two files run the same algorithm on two    *)
(* independent values: MinDeposit, driven by the number of proposals in the *)
(* voting period, and MinInitialDeposit, driven by the number of proposals  *)
(* in the deposit period.  Both are modelled by the operators below.        *)
(*                                                                          *)
(* Amounts are of one denomination.  Decimals (LegacyDec) are integers in   *)
(* hundredths: One stands for 1.0.                                          *)
(***************************************************************************)
EXTENDS Integers, FiniteSets

\* LegacyOneDec.
One == 100

\* A throttler's parameters (MinDepositThrottler, MinInitialDepositThrottler).
ThrottlerParams ==
    [FloorValue : Nat, UpdatePeriod : Nat, TargetProposals : Nat,
     IncreaseRatio : Nat, DecreaseRatio : Nat, Sensitivity : Nat]

\* v1.LastMinDeposit: the stored value and the time it was stored at.
LastMinDeposit == [Value : Nat, Time : Nat]

\* Dec.ApproxRoot: the k-th root of the natural number d, in hundredths and
\* rounded down (the number of positive r whose k-th power does not exceed d).
ApproxRoot(d, k) == Cardinality({r \in 1 .. One * d : r ^ k <= d * One ^ k})

\* v1.GetNewMinDeposit for one denomination: scale, truncate, clamp to the floor.
GetNewMinDeposit(floor, last, percChange) ==
    LET scaled == (last * percChange) \div One
    IN  IF scaled < floor THEN floor ELSE scaled

\* A rise, caused by one more proposal while at or above the target.
Increased(th, last, now) ==
    [Value |-> GetNewMinDeposit(th.FloorValue, last.Value, One + th.IncreaseRatio),
     Time  |-> now]

\* A time-based fall, the faster the further below the target.
Decreased(th, last, num, now) ==
    LET b == ApproxRoot(th.TargetProposals - num, th.Sensitivity)
    IN  [Value |-> GetNewMinDeposit(th.FloorValue, last.Value,
                                    One - (th.DecreaseRatio * b) \div One),
         Time  |-> now]

\* Mutant of UpdateMinDeposit: at the target the value rises with time, too.
UpdateMinDeposit_TimeRise(th, last, num, now, checkElapsedTime) ==
    LET above == num >= th.TargetProposals
        due   == now - last.Time >= th.UpdatePeriod
    IN  CASE checkElapsedTime /\ due /\ ~above -> Decreased(th, last, num, now)
          [] above /\ (checkElapsedTime => due) -> Increased(th, last, now)
          [] OTHER                             -> last

(***************************************************************************)
(* UpdateMinDeposit / UpdateMinInitialDeposit.  With checkElapsedTime only  *)
(* a fall is possible, and only when the update period has elapsed;         *)
(* without it only a rise.                                                  *)
(***************************************************************************)
UpdateMinDeposit(th, last, num, now, checkElapsedTime) ==
    LET above == num >= th.TargetProposals
        due   == now - last.Time >= th.UpdatePeriod
    IN  CASE checkElapsedTime /\ due /\ ~above -> Decreased(th, last, num, now)
          [] ~checkElapsedTime /\ above        -> Increased(th, last, now)
          [] OTHER                             -> last
=============================================================================
