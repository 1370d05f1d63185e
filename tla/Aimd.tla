-------------------------------- MODULE Aimd --------------------------------
(***************************************************************************)
(* The dynamic fee pricing of x/dynamicfee/types: a window of the gas of    *)
(* the last blocks, the learning rate (additive increase, multiplicative    *)
(* decrease) and the base gas price that it drives.                         *)
(***************************************************************************)
EXTENDS Decimals, Sums

CONSTANTS
    MaxDec,     \* the largest decimal; beyond it LegacyDec panics
    MaxInt64    \* the largest int64; beyond it Int.Int64 panics

ASSUME WidthAssumption == MaxDec \in Nat /\ MaxInt64 \in Nat

\* types.Params.  FeeDenom is photon throughout (DefaultFeeDenom).
FeeParams ==
    [Alpha : Int, Beta : Int, Gamma : Int, MinBaseGasPrice : Int,
     TargetBlockUtilization : Int, DefaultMaxBlockGas : Nat,
     MinLearningRate : Int, MaxLearningRate : Int, Window : Nat, Enabled : BOOLEAN]

\* Params.ValidateBasic.
ValidFeeParams(p) ==
    /\ p.Window > 0
    /\ p.Alpha >= 0
    /\ 0 <= p.Beta /\ p.Beta <= One
    /\ 0 <= p.Gamma /\ 2 * p.Gamma <= One
    /\ p.MinBaseGasPrice >= 0
    /\ 0 < p.TargetBlockUtilization /\ p.TargetBlockUtilization <= One
    /\ p.DefaultMaxBlockGas > 0
    /\ 0 <= p.MinLearningRate /\ p.MinLearningRate <= p.MaxLearningRate

\* types.State: Window is a function from slots to gas.
FeeStates(p) ==
    [Window : [0 .. p.Window - 1 -> Nat], Index : Nat,
     BaseGasPrice : Int, LearningRate : Int]

NewState(p) ==
    [Window |-> [i \in 0 .. p.Window - 1 |-> 0], Index |-> 0,
     BaseGasPrice |-> p.MinBaseGasPrice, LearningRate |-> p.MinLearningRate]

\* State.ValidateBasic (a repeated field is never nil after decoding with p.Window > 0).
ValidState(s) == s.BaseGasPrice > 0 /\ s.LearningRate > 0

-----------------------------------------------------------------------------
\* The guard of State.Update; an index outside the window panics in the caller's tx.
GasFits(s, gas, maxBlockGas) ==
    /\ s.Index \in DOMAIN s.Window
    /\ s.Window[s.Index] + gas <= maxBlockGas

\* State.Update, when its guard holds.
Update(s, gas) == [s EXCEPT !.Window[s.Index] = @ + gas]

\* Mutant of IncrementHeight: the slot that is reused keeps its old gas.
IncrementHeight_NoClear(s) ==
    [s EXCEPT !.Index = (@ + 1) % Cardinality(DOMAIN s.Window)]

\* State.IncrementHeight.
IncrementHeight(s) ==
    LET next == (s.Index + 1) % Cardinality(DOMAIN s.Window)
    IN  [s EXCEPT !.Index = next, !.Window[next] = 0]

\* GetTargetBlockGas, where it does not panic.
GetTargetBlockGas(maxBlockGas, p) ==
    TruncateInt(Mul(ToDec(maxBlockGas), p.TargetBlockUtilization))

\* GetTargetBlockGas panics: the product passes through an int64.
TargetOverflows(maxBlockGas, p) == GetTargetBlockGas(maxBlockGas, p) > MaxInt64

\* GetAverageGas divides by the size of the window times the block limit.
AveragePanics(s, maxBlockGas) == DOMAIN s.Window = {} \/ maxBlockGas = 0

GetAverageGas(s, maxBlockGas) ==
    Quo(ToDec(SumOver(s.Window, DOMAIN s.Window)),
        Mul(ToDec(maxBlockGas), ToDec(Cardinality(DOMAIN s.Window))))

Smaller(x, y) == IF x > y THEN y ELSE x
Larger(x, y) == IF x < y THEN y ELSE x

\* The panic of LegacyDec beyond its largest value.
Overflows(d) == Abs(d) > MaxDec

\* Mutant of UpdateLearningRate: the bound on the increase is missing.
UpdateLearningRate_Unbounded(s, p, maxBlockGas) ==
    LET avg == GetAverageGas(s, maxBlockGas)
        far == avg <= p.Gamma \/ avg >= One - p.Gamma
    IN  IF far THEN p.Alpha + s.LearningRate
               ELSE Larger(Mul(s.LearningRate, p.Beta), p.MinLearningRate)

(***************************************************************************)
(* State.UpdateLearningRate, the new learning rate: additive increase when  *)
(* the blocks of the window were nearly empty or nearly full, else          *)
(* multiplicative decrease.  A panic is recovered with the minimum.         *)
(***************************************************************************)
UpdateLearningRate(s, p, maxBlockGas) ==
    LET avg       == GetAverageGas(s, maxBlockGas)
        far       == avg <= p.Gamma \/ avg >= One - p.Gamma
        increased == p.Alpha + s.LearningRate
        decreased == Mul(s.LearningRate, p.Beta)
    IN  IF AveragePanics(s, maxBlockGas) \/ Overflows(IF far THEN increased ELSE decreased)
        THEN p.MinLearningRate
        ELSE IF far THEN Smaller(increased, p.MaxLearningRate)
                    ELSE Larger(decreased, p.MinLearningRate)

\* What learningRate multiplies: (current - target) / target.
RelativeExcess(s, target) == Quo(ToDec(s.Window[s.Index]) - ToDec(target), ToDec(target))

\* learningRateAdjustment.
Adjustment(s, target) == One + Mul(s.LearningRate, RelativeExcess(s, target))

\* The new price before the minimum applies.
AdjustedPrice(s, target) == Mul(s.BaseGasPrice, Adjustment(s, target))

\* One of the decimals on the way to the new price is too large.
PriceOverflows(s, target) ==
    \E d \in {RelativeExcess(s, target), Mul(s.LearningRate, RelativeExcess(s, target)),
              Adjustment(s, target), AdjustedPrice(s, target)} : Overflows(d)

(***************************************************************************)
(* State.UpdateBaseGasPrice, the new base gas price, never below the        *)
(* minimum.  A panic (an empty window, a target of zero or one beyond the   *)
(* largest int64, a decimal beyond the largest) is recovered with the       *)
(* minimum.                                                                 *)
(***************************************************************************)
UpdateBaseGasPrice(s, p, maxBlockGas) ==
    LET target == GetTargetBlockGas(maxBlockGas, p)
        panics == \/ s.Index \notin DOMAIN s.Window
                  \/ target = 0
                  \/ TargetOverflows(maxBlockGas, p)
                  \/ PriceOverflows(s, target)
    IN  IF panics THEN p.MinBaseGasPrice
                  ELSE Larger(AdjustedPrice(s, target), p.MinBaseGasPrice)

\* Mutant of Repriced: the height advances before the prices are computed.
Repriced_LateOrder(s, p, maxBlockGas) ==
    LET moved == IncrementHeight(s)
        rated == [moved EXCEPT !.LearningRate = UpdateLearningRate(moved, p, maxBlockGas)]
    IN  [rated EXCEPT !.BaseGasPrice = UpdateBaseGasPrice(rated, p, maxBlockGas)]

\* Mutant of Repriced: an empty block leaves the prices alone.
Repriced_SkipsEmpty(s, p, maxBlockGas) ==
    LET rated  == [s EXCEPT !.LearningRate = UpdateLearningRate(s, p, maxBlockGas)]
        priced == [rated EXCEPT !.BaseGasPrice = UpdateBaseGasPrice(rated, p, maxBlockGas)]
    IN  IncrementHeight(IF s.Window[s.Index] = 0 THEN s ELSE priced)

\* The state UpdateDynamicfee stores: the rate first, then the price, then the height.
Repriced(s, p, maxBlockGas) ==
    LET rated  == [s EXCEPT !.LearningRate = UpdateLearningRate(s, p, maxBlockGas)]
        priced == [rated EXCEPT !.BaseGasPrice = UpdateBaseGasPrice(rated, p, maxBlockGas)]
    IN  IncrementHeight(priced)

-----------------------------------------------------------------------------
\* Mutant of RequiredFee: the fee is rounded down.
RequiredFee_Floor(gasPrice, gas) == TruncateInt(gasPrice * gas)

\* The fee CheckTxFee requires for a gas limit.
RequiredFee(gasPrice, gas) == CeilInt(gasPrice * gas)
=============================================================================
