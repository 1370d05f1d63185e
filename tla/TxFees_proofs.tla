--------------------------- MODULE TxFees_proofs ---------------------------
(***************************************************************************)
(* The state of x/dynamicfee stays within its parameters and a block stops  *)
(* the chain only by a target of gas beyond the int64s, for every set of    *)
(* transactions, window size and precision, as long as every parameter      *)
(* change installs valid parameters with a positive minimum price and rate. *)
(* MsgUpdateParams does not check that itself.                              *)
(***************************************************************************)
EXTENDS TxFees, Photon_proofs, FiniteSetTheorems

\* What governance has to see to: the parameters that the code never validates.
SoundFeeParams ==
    \A p \in FeeParamSets :
       ValidFeeParams(p) /\ p.MinBaseGasPrice > 0 /\ p.MinLearningRate > 0

\* What no check of the code sees to either: the targets at the limits of the parameters
\* fit an int64.  (Limits of the consensus parameters are int64s themselves.)
TargetsFit == \A p \in FeeParamSets : ~TargetOverflows(p.DefaultMaxBlockGas, p)

\* The current slot is empty where a change of the limit could overtake it.
CurrentSlotCleared ==
    ~halted /\ (phase = "ended" \/ ~feeParams.Enabled)
        => feeState.Window[feeState.Index] = 0

\* A chain that stopped did so over a target of gas beyond the largest int64.
HaltsOnlyOnLargeTarget ==
    halted => TargetOverflows(GetMaxBlockGas(feeParams), feeParams)

\* The invariant: what the runs check of x/dynamicfee, strengthened by its types.
FeeInv ==
    /\ feeParams \in FeeParamSets
    /\ feeState \in FeeStates(feeParams)
    /\ maxGas \in MaxGases
    /\ phase \in {"deliver", "ended"}
    /\ WindowMatchesParams
    /\ PriceAndRateWithinParams
    /\ BlockGasWithinLimit
    /\ CurrentSlotCleared
    /\ HaltsOnlyOnLargeTarget

-----------------------------------------------------------------------------
\* Rounding yields an integer, also of a negative number.
LEMMA ChopRoundType ==
    ASSUME NEW x \in Int
    PROVE  ChopRound(x) \in Int
<1>1. CASE x < 0
  <2>1. -x \in Nat
    BY <1>1
  <2>2. ChopNat(-x) \in Nat
    BY <2>1, ChopNatBounds
  <2> QED
    BY <1>1, <2>2 DEF ChopRound
<1>2. CASE ~(x < 0)
  BY <1>2, ChopNatBounds DEF ChopRound
<1> QED
  BY <1>1, <1>2

\* Products of decimals are decimals.
LEMMA MulType ==
    ASSUME NEW a \in Int, NEW b \in Int
    PROVE  Mul(a, b) \in Int
<1>1. a * b \in Int
  OBVIOUS
<1> QED
  BY <1>1, ChopRoundType, Zenon DEF Mul

\* Quotients by a positive divisor are decimals.
LEMMA QuoType ==
    ASSUME NEW a \in Int, NEW b \in Nat \ {0}
    PROVE  Quo(a, b) \in Int
<1>1. One \in Nat
  BY OneAssumption
<1>2. CASE a < 0
  <2> DEFINE n == -a * One * One
  <2>1. n \in Nat
    <3>1. -a \in Nat
      BY <1>2
    <3>2. -a * One \in Nat
      BY <1>1, <3>1
    <3> QED
      BY <1>1, <3>2
  <2> HIDE DEF n
  <2>2. n \div b \in Nat
    BY <2>1
  <2>3. ChopNat(n \div b) \in Nat
    BY <2>2, ChopNatBounds
  <2>4. Quo(a, b) = -ChopNat(n \div b)
    BY <1>2 DEF Quo, n
  <2> QED
    BY <2>3, <2>4
<1>3. CASE ~(a < 0)
  <2> DEFINE n == a * One * One
  <2>1. n \in Nat
    <3>1. a * One \in Nat
      BY <1>1, <1>3
    <3> QED
      BY <1>1, <3>1
  <2> HIDE DEF n
  <2>2. n \div b \in Nat
    BY <2>1
  <2>3. ChopNat(n \div b) \in Nat
    BY <2>2, ChopNatBounds
  <2>4. Quo(a, b) = ChopNat(n \div b)
    BY <1>3 DEF Quo, n
  <2> QED
    BY <2>3, <2>4
<1> QED
  BY <1>2, <1>3

\* A product with a factor of at most 1.0 is not larger.
LEMMA MulShrinks ==
    ASSUME NEW a \in Nat, NEW b \in Nat, b <= One
    PROVE  Mul(a, b) <= a
<1>1. One \in Nat /\ One > 0
  BY OneAssumption
<1>2. a * b \in Nat /\ a * One \in Nat /\ a * b <= a * One
  BY <1>1
<1>3. 2 * (a * b) < 2 * (a * One) + One
  BY <1>1, <1>2
<1>4. ChopNat(a * b) <= a
  BY <1>2, <1>3, ChopUpper
<1> QED
  BY <1>2, <1>4 DEF Mul, ChopRound

\* The target of a block is a natural number.
LEMMA TargetType ==
    ASSUME NEW p \in FeeParams, ValidFeeParams(p), NEW m \in Nat
    PROVE  GetTargetBlockGas(m, p) \in Nat
<1> DEFINE u == p.TargetBlockUtilization
           x == ToDec(m) * u
<1>1. One \in Nat /\ One > 0 /\ u \in Nat
  BY OneAssumption DEF FeeParams, ValidFeeParams
<1> HIDE DEF u
<1>2. ToDec(m) \in Nat
  BY <1>1 DEF ToDec
<1>3. x \in Nat
  BY <1>1, <1>2
<1>4. Mul(ToDec(m), u) = ChopRound(x)
  BY DEF Mul
<1> HIDE DEF x
<1>5. ChopRound(x) = ChopNat(x) /\ ChopNat(x) \in Nat
  BY <1>3, ChopNatBounds DEF ChopRound
<1>6. ChopNat(x) \div One \in Nat
  BY <1>1, <1>5
<1> QED
  BY <1>4, <1>5, <1>6 DEF GetTargetBlockGas, TruncateInt, u

\* A target is at most its limit, so that the limits of the consensus parameters cannot make
\* it overflow.
LEMMA TargetWithinLimit ==
    ASSUME NEW p \in FeeParams, ValidFeeParams(p), NEW m \in Nat
    PROVE  GetTargetBlockGas(m, p) <= m
<1> DEFINE u == p.TargetBlockUtilization
           d == Mul(ToDec(m), u)
<1>1. One \in Nat /\ One > 0 /\ u \in Nat /\ u <= One
  BY OneAssumption DEF FeeParams, ValidFeeParams
<1>2. ToDec(m) = m * One /\ ToDec(m) \in Nat
  BY <1>1 DEF ToDec
<1> HIDE DEF u
<1>3. d \in Int /\ d <= m * One
  <2>1. ToDec(m) \in Int /\ u \in Int
    BY <1>1, <1>2
  <2>2. d \in Int
    BY <2>1, MulType, Zenon
  <2>3. d <= ToDec(m)
    BY <1>1, <1>2, MulShrinks, Zenon
  <2> QED
    BY <1>2, <2>2, <2>3
<1>4. GetTargetBlockGas(m, p) = d \div One
  BY DEF GetTargetBlockGas, TruncateInt, u
<1> HIDE DEF d
<1>5. d \div One <= m
  <2>1. d = One * (d \div One) + (d % One) /\ 0 <= d % One /\ d \div One \in Int
    BY <1>1, <1>3
  <2>2. One * (d \div One) <= One * m
    BY <1>1, <1>3, <2>1
  <2> QED
    BY <1>1, <2>1, <2>2
<1> QED
  BY <1>4, <1>5

\* The slots of a window of valid parameters, and how many there are.
LEMMA Slots ==
    ASSUME NEW n \in Nat \ {0}
    PROVE  Cardinality(0 .. n - 1) = n /\ 0 .. n - 1 # {}
<1>1. Cardinality(0 .. n - 1) = n - 1 - 0 + 1
  BY FS_Interval
<1> QED
  BY <1>1

\* A state whose window fits the parameters.
Fits(s, p) ==
    /\ s \in FeeStates(p)
    /\ s.Index \in 0 .. p.Window - 1

\* The fresh state fits, with prices at their minimum and nothing counted.
LEMMA NewStateFits ==
    ASSUME NEW p \in FeeParams, ValidFeeParams(p)
    PROVE  /\ Fits(NewState(p), p)
           /\ NewState(p).Window[NewState(p).Index] = 0
           /\ NewState(p).BaseGasPrice = p.MinBaseGasPrice
           /\ NewState(p).LearningRate = p.MinLearningRate
<1>1. p.Window \in Nat /\ 0 \in 0 .. p.Window - 1
  BY DEF FeeParams, ValidFeeParams
<1>2. p.MinBaseGasPrice \in Int /\ p.MinLearningRate \in Int
  BY DEF FeeParams
<1> QED
  BY <1>1, <1>2 DEF NewState, Fits, FeeStates

(***************************************************************************)
(* UpdateLearningRate keeps the rate between its bounds: the decrease never *)
(* raises it, because Beta is at most 1.0, and a panic restores the minimum. *)
(***************************************************************************)
LEMMA RateInBounds ==
    ASSUME NEW p \in FeeParams, ValidFeeParams(p), NEW s \in FeeStates(p), NEW m,
           p.MinLearningRate <= s.LearningRate, s.LearningRate <= p.MaxLearningRate
    PROVE  /\ UpdateLearningRate(s, p, m) \in Int
           /\ p.MinLearningRate <= UpdateLearningRate(s, p, m)
           /\ UpdateLearningRate(s, p, m) <= p.MaxLearningRate
<1> DEFINE rate      == s.LearningRate
           decreased == Mul(rate, p.Beta)
           avg       == GetAverageGas(s, m)
           far       == avg <= p.Gamma \/ avg >= One - p.Gamma
           panics    == \/ AveragePanics(s, m)
                        \/ Overflows(IF far THEN p.Alpha + rate ELSE decreased)
<1>1. /\ rate \in Nat /\ p.Alpha \in Nat /\ p.Beta \in Nat /\ p.Beta <= One
      /\ p.MinLearningRate \in Nat /\ p.MaxLearningRate \in Nat
      /\ p.MinLearningRate <= rate /\ rate <= p.MaxLearningRate
  BY DEF FeeParams, ValidFeeParams, FeeStates
<1>2. /\ UpdateLearningRate(s, p, m) =
           IF panics THEN p.MinLearningRate
           ELSE IF far THEN Smaller(p.Alpha + rate, p.MaxLearningRate)
                       ELSE Larger(decreased, p.MinLearningRate)
  BY DEF UpdateLearningRate
<1> HIDE DEF rate, panics, far
<1>3. decreased \in Int /\ decreased <= rate
  <2>1. rate \in Int /\ p.Beta \in Int
    BY <1>1
  <2>2. decreased \in Int
    BY <2>1, MulType, Zenon
  <2>3. decreased <= rate
    BY <1>1, MulShrinks, Zenon
  <2> QED
    BY <2>2, <2>3
<1> HIDE DEF decreased
<1>4. /\ Smaller(p.Alpha + rate, p.MaxLearningRate) \in p.MinLearningRate .. p.MaxLearningRate
      /\ Larger(decreased, p.MinLearningRate) \in p.MinLearningRate .. p.MaxLearningRate
  BY <1>1, <1>3 DEF Smaller, Larger
<1> QED
  BY <1>1, <1>2, <1>4

(***************************************************************************)
(* UpdateBaseGasPrice never goes below the minimum, whatever it recovers    *)
(* from, and the adjusted price is a decimal whenever it does not panic.    *)
(***************************************************************************)
LEMMA PriceAtLeastMinimum ==
    ASSUME NEW p \in FeeParams, ValidFeeParams(p), NEW s, Fits(s, p), NEW m \in Nat
    PROVE  /\ UpdateBaseGasPrice(s, p, m) \in Int
           /\ UpdateBaseGasPrice(s, p, m) >= p.MinBaseGasPrice
<1> DEFINE target == GetTargetBlockGas(m, p)
           price  == AdjustedPrice(s, target)
           panics == \/ s.Index \notin DOMAIN s.Window
                     \/ target = 0
                     \/ TargetOverflows(m, p)
                     \/ PriceOverflows(s, target)
           gas    == s.Window[s.Index]
<1>1. /\ s.BaseGasPrice \in Int /\ s.LearningRate \in Int /\ gas \in Nat
      /\ p.MinBaseGasPrice \in Int /\ One \in Nat
  BY OneAssumption DEF Fits, FeeStates, FeeParams
<1>2. target \in Nat
  BY TargetType
<1>3. UpdateBaseGasPrice(s, p, m) =
        IF panics THEN p.MinBaseGasPrice ELSE Larger(price, p.MinBaseGasPrice)
  BY DEF UpdateBaseGasPrice
<1> HIDE DEF target, gas
<1>4. ASSUME target # 0 PROVE price \in Int
  <2> DEFINE num == ToDec(gas) - ToDec(target)
             avg == Quo(num, ToDec(target))
             chg == Mul(s.LearningRate, avg)
  <2>1. ToDec(target) \in Nat \ {0} /\ ToDec(gas) \in Nat
    <3>1. One > 0
      BY OneAssumption
    <3>2. target * One \in Nat /\ target * One # 0 /\ gas * One \in Nat
      BY <1>1, <1>2, <1>4, <3>1
    <3> QED
      BY <3>2 DEF ToDec
  <2>2. num \in Int
    BY <2>1
  <2> HIDE DEF num
  <2>3. avg \in Int
    BY <2>1, <2>2, QuoType
  <2> HIDE DEF avg
  <2>4. chg \in Int
    BY <1>1, <2>3, MulType
  <2> HIDE DEF chg
  <2>5. Mul(s.BaseGasPrice, One + chg) \in Int
    <3>1. One + chg \in Int
      BY <1>1, <2>4
    <3> QED
      BY <1>1, <3>1, MulType, Zenon
  <2>6. price = Mul(s.BaseGasPrice, One + chg)
    BY DEF AdjustedPrice, Adjustment, RelativeExcess, chg, avg, num, gas
  <2> QED
    BY <2>5, <2>6
<1> HIDE DEF price
<1>5. panics \/ price \in Int
  BY <1>4
<1> HIDE DEF panics
<1> QED
  BY <1>1, <1>3, <1>5 DEF Larger

\* IncrementHeight moves to a slot of the window and clears it; the prices stay.
LEMMA IncrementHeightFits ==
    ASSUME NEW p \in FeeParams, ValidFeeParams(p), NEW s, Fits(s, p)
    PROVE  /\ Fits(IncrementHeight(s), p)
           /\ IncrementHeight(s).Window[IncrementHeight(s).Index] = 0
           /\ IncrementHeight(s).BaseGasPrice = s.BaseGasPrice
           /\ IncrementHeight(s).LearningRate = s.LearningRate
<1> DEFINE n    == p.Window
           next == ((s.Index + 1) % Cardinality(DOMAIN s.Window))
<1>1. /\ n \in Nat \ {0} /\ s.Index \in Nat /\ s.Window \in [0 .. n - 1 -> Nat]
      /\ s \in FeeStates(p)
  BY DEF Fits, FeeStates, FeeParams, ValidFeeParams
<1>2. Cardinality(DOMAIN s.Window) = n
  BY <1>1, Slots
<1>3. next \in 0 .. n - 1
  BY <1>1, <1>2
<1>4. IncrementHeight(s) = [s EXCEPT !.Index = next, !.Window[next] = 0]
  BY DEF IncrementHeight
<1> HIDE DEF next
<1>5. [s.Window EXCEPT ![next] = 0] \in [0 .. n - 1 -> Nat]
  BY <1>1, <1>3
<1>6. /\ IncrementHeight(s).Window = [s.Window EXCEPT ![next] = 0]
      /\ IncrementHeight(s).Index = next
      /\ IncrementHeight(s).BaseGasPrice = s.BaseGasPrice
      /\ IncrementHeight(s).LearningRate = s.LearningRate
      /\ IncrementHeight(s) \in FeeStates(p)
  <2> DEFINE w    == [s.Window EXCEPT ![next] = 0]
             made == [Window |-> w, Index |-> next, BaseGasPrice |-> s.BaseGasPrice,
                      LearningRate |-> s.LearningRate]
  <2>1. s = [Window |-> s.Window, Index |-> s.Index, BaseGasPrice |-> s.BaseGasPrice,
             LearningRate |-> s.LearningRate]
    BY <1>1 DEF FeeStates
  <2>2. IncrementHeight(s) = made
    BY <1>4, <2>1
  <2>3. next \in Nat /\ s.BaseGasPrice \in Int /\ s.LearningRate \in Int
    BY <1>1, <1>3 DEF FeeStates
  <2> HIDE DEF w
  <2>4. w \in [0 .. p.Window - 1 -> Nat]
    BY <1>5 DEF w
  <2>5. made \in FeeStates(p)
    BY <2>3, <2>4 DEF FeeStates
  <2> QED
    BY <2>2, <2>5 DEF w
<1>7. IncrementHeight(s).Window[next] = 0
  BY <1>1, <1>3, <1>6
<1> QED
  BY <1>3, <1>6, <1>7 DEF Fits

(***************************************************************************)
(* What UpdateDynamicfee stores: the window still fits, its new slot is     *)
(* empty, the price and the rate respect the parameters, and the price is   *)
(* computed from the new rate.                                              *)
(***************************************************************************)
LEMMA RepricedFits ==
    ASSUME NEW p \in FeeParams, ValidFeeParams(p), NEW s, Fits(s, p), NEW m \in Nat,
           p.MinLearningRate <= s.LearningRate, s.LearningRate <= p.MaxLearningRate
    PROVE  /\ Fits(Repriced(s, p, m), p)
           /\ Repriced(s, p, m).Window[Repriced(s, p, m).Index] = 0
           /\ Repriced(s, p, m).BaseGasPrice >= p.MinBaseGasPrice
           /\ p.MinLearningRate <= Repriced(s, p, m).LearningRate
           /\ Repriced(s, p, m).LearningRate <= p.MaxLearningRate
           /\ LET rate  == UpdateLearningRate(s, p, m)
                  rated == [s EXCEPT !.LearningRate = rate]
              IN  /\ Repriced(s, p, m).LearningRate = rate
                  /\ Repriced(s, p, m).BaseGasPrice = UpdateBaseGasPrice(rated, p, m)
<1> DEFINE rate   == UpdateLearningRate(s, p, m)
           rated  == [s EXCEPT !.LearningRate = rate]
           price  == UpdateBaseGasPrice(rated, p, m)
           priced == [rated EXCEPT !.BaseGasPrice = price]
<1>1. s \in FeeStates(p) /\ s.Index \in 0 .. p.Window - 1
  BY DEF Fits
<1>2. rate \in Int /\ p.MinLearningRate <= rate /\ rate <= p.MaxLearningRate
  BY <1>1, RateInBounds
<1> HIDE DEF rate
<1>3. Fits(rated, p) /\ rated.LearningRate = rate
  BY <1>1, <1>2 DEF Fits, FeeStates
<1> HIDE DEF rated
<1>4. price \in Int /\ price >= p.MinBaseGasPrice
  BY <1>3, PriceAtLeastMinimum
<1> HIDE DEF price
<1>5. Fits(priced, p) /\ priced.LearningRate = rate /\ priced.BaseGasPrice = price
  BY <1>3, <1>4 DEF Fits, FeeStates
<1>6. Repriced(s, p, m) = IncrementHeight(priced)
  BY DEF Repriced, priced, price, rated, rate
<1> HIDE DEF priced
<1>7. /\ Fits(Repriced(s, p, m), p)
      /\ Repriced(s, p, m).Window[Repriced(s, p, m).Index] = 0
      /\ Repriced(s, p, m).BaseGasPrice = price
      /\ Repriced(s, p, m).LearningRate = rate
  BY <1>5, <1>6, IncrementHeightFits
<1> QED
  BY <1>2, <1>4, <1>7 DEF price, rated, rate

\* Counting gas that fits the limit keeps the window and stays within the limit.
LEMMA UpdateFits ==
    ASSUME NEW p \in FeeParams, NEW s, Fits(s, p), NEW gas \in Nat, NEW m,
           GasFits(s, gas, m)
    PROVE  /\ Fits(Update(s, gas), p)
           /\ Update(s, gas).Index = s.Index
           /\ Update(s, gas).Window[s.Index] <= m
           /\ Update(s, gas).BaseGasPrice = s.BaseGasPrice
           /\ Update(s, gas).LearningRate = s.LearningRate
<1> DEFINE i == s.Index
<1>1. /\ s \in FeeStates(p) /\ i \in 0 .. p.Window - 1
      /\ s.Window \in [0 .. p.Window - 1 -> Nat] /\ s.Window[i] + gas <= m
  BY DEF Fits, FeeStates, GasFits
<1>2. [s.Window EXCEPT ![i] = @ + gas] \in [0 .. p.Window - 1 -> Nat]
  <2> DEFINE g == s.Window[i] + gas
  <2>1. g \in Nat
    <3>1. s.Window[i] \in Nat
      BY <1>1
    <3> QED
      BY <3>1
  <2> HIDE DEF g
  <2>2. [s.Window EXCEPT ![i] = g] \in [0 .. p.Window - 1 -> Nat]
    BY <1>1, <2>1
  <2> QED
    BY <2>2 DEF g
<1>3. /\ Update(s, gas).Window = [s.Window EXCEPT ![i] = @ + gas]
      /\ Update(s, gas).Index = i
      /\ Update(s, gas).BaseGasPrice = s.BaseGasPrice
      /\ Update(s, gas).LearningRate = s.LearningRate
      /\ Update(s, gas) \in FeeStates(p)
  BY <1>1, <1>2 DEF Update, FeeStates
<1>4. Update(s, gas).Window[i] = s.Window[i] + gas
  BY <1>1, <1>3
<1> QED
  BY <1>1, <1>3, <1>4 DEF Fits

-----------------------------------------------------------------------------
\* What sound parameters are, and the block limit they and the consensus give.
LEMMA SoundParts ==
    ASSUME SoundFeeParams, NEW p \in FeeParamSets, maxGas \in MaxGases
    PROVE  /\ p \in FeeParams /\ ValidFeeParams(p) /\ p.Window \in Nat \ {0}
           /\ p.MinBaseGasPrice > 0 /\ p.MinLearningRate > 0
           /\ GetMaxBlockGas(p) \in Nat \ {0}
<1>1. p \in FeeParams /\ ValidFeeParams(p) /\ p.MinBaseGasPrice > 0 /\ p.MinLearningRate > 0
  BY TxFeesAssumption DEF SoundFeeParams
<1>2. maxGas \in Nat \cup {-1}
  BY TxFeesAssumption, WidthAssumption
<1>3. p.DefaultMaxBlockGas \in Nat \ {0} /\ p.Window \in Nat \ {0}
  BY <1>1 DEF FeeParams, ValidFeeParams
<1> QED
  BY <1>1, <1>2, <1>3 DEF GetMaxBlockGas

\* What the invariant says of the state, in the terms of the lemmas.
LEMMA FeeInvParts ==
    ASSUME FeeInv
    PROVE  /\ Fits(feeState, feeParams)
           /\ feeState.Window[feeState.Index] \in Nat
BY DEF FeeInv, WindowMatchesParams, Fits, FeeStates

\* A fresh state under sound parameters satisfies the invariant.
LEMMA FreshStateInv ==
    ASSUME SoundFeeParams, feeParams \in FeeParamSets, maxGas \in MaxGases,
           feeState = NewState(feeParams), phase \in {"deliver", "ended"}, ~halted
    PROVE  FeeInv
<1>1. /\ feeParams \in FeeParams /\ ValidFeeParams(feeParams)
      /\ GetMaxBlockGas(feeParams) \in Nat \ {0}
  BY SoundParts
<1>2. /\ Fits(feeState, feeParams)
      /\ feeState.Window[feeState.Index] = 0
      /\ feeState.BaseGasPrice = feeParams.MinBaseGasPrice
      /\ feeState.LearningRate = feeParams.MinLearningRate
  BY <1>1, NewStateFits
<1>3. WindowMatchesParams
  BY <1>2 DEF WindowMatchesParams, Fits, FeeStates
<1>4. PriceAndRateWithinParams
  BY <1>1, <1>2 DEF PriceAndRateWithinParams, FeeParams, ValidFeeParams
<1>5. BlockGasWithinLimit /\ CurrentSlotCleared
  BY <1>1, <1>2 DEF BlockGasWithinLimit, CurrentSlotCleared
<1> QED
  BY <1>2, <1>3, <1>4, <1>5 DEF FeeInv, Fits, HaltsOnlyOnLargeTarget

\* The genesis satisfies the invariant.
LEMMA FeeInitInv == SoundFeeParams /\ Init => FeeInv
BY FreshStateInv DEF Init

\* A step that leaves x/dynamicfee alone, in the same phase, keeps the invariant.
LEMMA FeeUntouched ==
    ASSUME FeeInv,
           UNCHANGED <<feeParams, feeState, maxGas, phase, halted>>
    PROVE  FeeInv'
BY DEF FeeInv, WindowMatchesParams, PriceAndRateWithinParams, BlockGasWithinLimit,
       CurrentSlotCleared, HaltsOnlyOnLargeTarget, GetMaxBlockGas

\* A transaction that succeeds counts its gas only within the limit.
LEMMA DeliverTxInv ==
    ASSUME SoundFeeParams, FeeInv, NEW t \in Tx, NEW used \in 1 .. t.gas,
           ~halted, DeliverTx(t, used)
    PROVE  FeeInv'
<1>1. /\ UNCHANGED <<feeParams, maxGas, phase, halted>> /\ phase = "deliver"
      /\ feeState' = IF CountsGas THEN Update(feeState, used) ELSE feeState
      /\ CountsGas => GasFits(feeState, used, GetMaxBlockGas(feeParams))
  BY DEF DeliverTx
<1>2. CASE ~CountsGas
  BY <1>1, <1>2, FeeUntouched
<1>3. CASE CountsGas
  <2>1. used \in Nat
    BY TxFeesAssumption DEF Tx
  <2>2. feeParams \in FeeParams
    BY SoundParts DEF FeeInv
  <2>3. /\ Fits(feeState', feeParams) /\ feeState'.Index = feeState.Index
        /\ feeState'.Window[feeState.Index] <= GetMaxBlockGas(feeParams)
        /\ feeState'.BaseGasPrice = feeState.BaseGasPrice
        /\ feeState'.LearningRate = feeState.LearningRate
    BY <1>1, <1>3, <2>1, <2>2, FeeInvParts, UpdateFits
  <2>4. WindowMatchesParams'
    BY <1>1, <2>3 DEF WindowMatchesParams, Fits, FeeStates
  <2>5. PriceAndRateWithinParams'
    BY <1>1, <2>3 DEF FeeInv, PriceAndRateWithinParams
  <2>6. BlockGasWithinLimit'
    BY <1>1, <2>3 DEF BlockGasWithinLimit, GetMaxBlockGas
  <2>7. CurrentSlotCleared'
    BY <1>1, <1>3 DEF CurrentSlotCleared, CountsGas
  <2> QED
    BY <1>1, <2>3, <2>4, <2>5, <2>6, <2>7 DEF FeeInv, Fits, HaltsOnlyOnLargeTarget
<1> QED
  BY <1>2, <1>3

\* EndBlock of x/dynamicfee opens a cleared slot, unless the target of gas overflows.
LEMMA EndBlockInv ==
    ASSUME SoundFeeParams, FeeInv, ~halted, EndBlock
    PROVE  FeeInv'
<1> DEFINE m == GetMaxBlockGas(feeParams)
<1>1. UNCHANGED <<feeParams, maxGas>> /\ phase' = "ended"
  BY DEF EndBlock
<1>2. /\ feeParams \in FeeParams /\ ValidFeeParams(feeParams)
      /\ feeParams.Window \in Nat \ {0} /\ m \in Nat \ {0}
  BY SoundParts DEF FeeInv
<1>3. CASE ~feeParams.Enabled
  <2>1. UNCHANGED <<feeState, halted>>
    BY <1>3 DEF EndBlock
  <2> QED
    BY <1>1, <1>3, <2>1 DEF FeeInv, WindowMatchesParams, PriceAndRateWithinParams,
       BlockGasWithinLimit, CurrentSlotCleared, HaltsOnlyOnLargeTarget, GetMaxBlockGas
<1>4. CASE feeParams.Enabled
  <2>1. ~AveragePanics(feeState, m)
    BY <1>2, Slots DEF FeeInv, WindowMatchesParams, AveragePanics
  <2>0. CASE TargetOverflows(m, feeParams)
    <3>1. halted' /\ feeState' = feeState
      BY <1>4, <2>0 DEF EndBlock
    <3>2. GetMaxBlockGas(feeParams)' = m
      BY <1>1 DEF GetMaxBlockGas
    <3>3. TargetOverflows(GetMaxBlockGas(feeParams), feeParams)'
      BY <1>1, <2>0, <3>2 DEF TargetOverflows, GetTargetBlockGas
    <3> HIDE DEF m
    <3> QED
      BY <1>1, <3>1, <3>2, <3>3 DEF FeeInv, WindowMatchesParams, PriceAndRateWithinParams,
         BlockGasWithinLimit, CurrentSlotCleared, HaltsOnlyOnLargeTarget, m
  <2> SUFFICES ASSUME ~TargetOverflows(m, feeParams)
               PROVE  FeeInv'
    BY <2>0
  <2>2. ~halted' /\ feeState' = Repriced(feeState, feeParams, m)
    BY <1>4, <2>1 DEF EndBlock
  <2> HIDE DEF m
  <2>3. /\ feeParams.MinLearningRate <= feeState.LearningRate
        /\ feeState.LearningRate <= feeParams.MaxLearningRate
    BY DEF FeeInv, PriceAndRateWithinParams
  <2>4. /\ Fits(feeState', feeParams)
        /\ feeState'.Window[feeState'.Index] = 0
        /\ feeState'.BaseGasPrice >= feeParams.MinBaseGasPrice
        /\ feeParams.MinLearningRate <= feeState'.LearningRate
        /\ feeState'.LearningRate <= feeParams.MaxLearningRate
    BY <1>2, <2>2, <2>3, FeeInvParts, RepricedFits
  <2>5. WindowMatchesParams'
    BY <1>1, <2>4 DEF WindowMatchesParams, Fits, FeeStates
  <2>6. PriceAndRateWithinParams'
    BY <1>1, <2>4 DEF PriceAndRateWithinParams
  <2>7. BlockGasWithinLimit' /\ CurrentSlotCleared'
    BY <1>1, <1>2, <2>4 DEF BlockGasWithinLimit, CurrentSlotCleared, GetMaxBlockGas, m
  <2> QED
    BY <1>1, <2>2, <2>4, <2>5, <2>6, <2>7 DEF FeeInv, Fits, HaltsOnlyOnLargeTarget
<1> QED
  BY <1>3, <1>4

\* A new limit cannot be below what is counted: between two blocks that is nothing.
LEMMA UpdateMaxGasInv ==
    ASSUME SoundFeeParams, FeeInv, NEW g \in MaxGases, ~halted, UpdateMaxGas(g)
    PROVE  FeeInv'
<1>1. /\ phase = "ended" /\ maxGas' = g
      /\ UNCHANGED <<feeParams, feeState, phase, halted>>
  BY DEF UpdateMaxGas
<1>2. feeState.Window[feeState.Index] = 0
  BY <1>1 DEF FeeInv, CurrentSlotCleared
<1>3. feeParams' \in FeeParamSets /\ maxGas' \in MaxGases
  BY <1>1 DEF FeeInv
<1>4. BlockGasWithinLimit'
  <2>1. maxGas' \in Nat \cup {-1} /\ feeParams.DefaultMaxBlockGas \in Nat
    BY <1>1, TxFeesAssumption, WidthAssumption, SoundParts DEF FeeInv, FeeParams
  <2> QED
    BY <1>1, <1>2, <2>1 DEF BlockGasWithinLimit, GetMaxBlockGas
<1> QED
  BY <1>1, <1>2, <1>3, <1>4 DEF FeeInv, WindowMatchesParams, PriceAndRateWithinParams,
     CurrentSlotCleared, HaltsOnlyOnLargeTarget

\* The state of a running chain passes the checks of the genesis it exports to.
LEMMA RestartInv ==
    ASSUME SoundFeeParams, FeeInv, ~halted, Restart
    PROVE  FeeInv'
<1>1. /\ feeParams \in FeeParams /\ ValidFeeParams(feeParams)
      /\ feeParams.Window \in Nat \ {0}
      /\ feeParams.MinBaseGasPrice > 0 /\ feeParams.MinLearningRate > 0
  BY SoundParts DEF FeeInv
<1>2. /\ feeParams.MinBaseGasPrice \in Int /\ feeParams.MinLearningRate \in Int
      /\ feeState.BaseGasPrice \in Int /\ feeState.LearningRate \in Int
  BY <1>1, FeeInvParts DEF Fits, FeeStates, FeeParams
<1>3. ValidState(feeState)
  BY <1>1, <1>2 DEF FeeInv, PriceAndRateWithinParams, ValidState
<1>4. feeParams.Window = Cardinality(DOMAIN feeState.Window)
  BY <1>1, Slots DEF FeeInv, WindowMatchesParams
<1>5. ~halted'
  BY <1>1, <1>3, <1>4 DEF Restart, GenesisValid
<1>6. UNCHANGED <<feeParams, feeState, maxGas, phase>>
  BY DEF Restart
<1> QED
  BY <1>5, <1>6 DEF FeeInv, WindowMatchesParams, PriceAndRateWithinParams,
     BlockGasWithinLimit, CurrentSlotCleared, HaltsOnlyOnLargeTarget, GetMaxBlockGas

\* Every step keeps the invariant.
LEMMA FeeNextInv ==
    ASSUME SoundFeeParams, FeeInv, [Next]_vars
    PROVE  FeeInv'
<1>1. ASSUME NEW t \in Tx, FailTx(t) PROVE FeeInv'
  BY <1>1, FeeUntouched DEF FailTx
<1>2. ASSUME ~halted, NEW t \in Tx, NEW used \in 1 .. t.gas, DeliverTx(t, used) PROVE FeeInv'
  BY <1>2, DeliverTxInv
<1>3. CASE ~halted /\ EndBlock
  BY <1>3, EndBlockInv
<1>4. ASSUME ~halted, NEW p \in FeeParamSets, UpdateFeeParams(p) PROVE FeeInv'
  <2>1. /\ feeParams' = p /\ feeState' = NewState(p)
        /\ UNCHANGED <<maxGas, phase, halted>>
    BY <1>4 DEF UpdateFeeParams, StateForParams
  <2>2. maxGas \in MaxGases /\ phase \in {"deliver", "ended"} /\ ~halted
    BY <1>4 DEF FeeInv
  <2>3. /\ p \in FeeParams /\ ValidFeeParams(p)
        /\ GetMaxBlockGas(p) \in Nat \ {0}
    BY <2>2, SoundParts
  <2>4. /\ Fits(feeState', p) /\ feeState'.Window[feeState'.Index] = 0
        /\ feeState'.BaseGasPrice = p.MinBaseGasPrice
        /\ feeState'.LearningRate = p.MinLearningRate
    BY <2>1, <2>3, NewStateFits
  <2>5. WindowMatchesParams'
    BY <2>1, <2>4 DEF WindowMatchesParams, Fits, FeeStates
  <2>6. PriceAndRateWithinParams'
    BY <2>1, <2>3, <2>4 DEF PriceAndRateWithinParams, FeeParams, ValidFeeParams
  <2>7. BlockGasWithinLimit' /\ CurrentSlotCleared'
    BY <2>1, <2>3, <2>4 DEF BlockGasWithinLimit, CurrentSlotCleared, GetMaxBlockGas
  <2> QED
    BY <2>1, <2>2, <2>4, <2>5, <2>6, <2>7 DEF FeeInv, Fits, HaltsOnlyOnLargeTarget
<1>5. ASSUME NEW p \in PhotonParamSets, GovUpdatesPhoton(p) PROVE FeeInv'
  BY <1>5, FeeUntouched DEF GovUpdatesPhoton, feeVars
<1>6. ASSUME ~halted, NEW g \in MaxGases, UpdateMaxGas(g) PROVE FeeInv'
  BY <1>6, UpdateMaxGasInv
<1>7. CASE ~halted /\ BeginBlock
  BY <1>7 DEF BeginBlock, FeeInv, WindowMatchesParams, PriceAndRateWithinParams,
     BlockGasWithinLimit, CurrentSlotCleared, HaltsOnlyOnLargeTarget, GetMaxBlockGas
<1>8. CASE ~halted /\ Restart
  BY <1>8, RestartInv
<1>9. CASE UNCHANGED vars
  BY <1>9, FeeUntouched DEF vars, feeVars
<1> QED
  BY <1>1, <1>2, <1>3, <1>4, <1>5, <1>6, <1>7, <1>8, <1>9
     DEF Next, Transactions, GovEndBlock

\* The invariant of x/dynamicfee, under sound parameters.
THEOREM FeeInvariance ==
    ASSUME SoundFeeParams
    PROVE  Spec => []FeeInv
<1>1. Init => FeeInv
  BY FeeInitInv
<1>2. FeeInv /\ [Next]_vars => FeeInv'
  BY FeeNextInv
<1> QED
  BY <1>1, <1>2, PTL DEF Spec

(***************************************************************************)
(* Whatever parameter changes and restarts happen, State.Update and         *)
(* IncrementHeight never index outside the window.                          *)
(***************************************************************************)
THEOREM WindowNeverOutgrown ==
    ASSUME SoundFeeParams
    PROVE  Spec => []WindowMatchesParams
<1>1. FeeInv => WindowMatchesParams
  BY DEF FeeInv
<1> QED
  BY <1>1, FeeInvariance, PTL

(***************************************************************************)
(* The updates of EndBlock keep the price above its minimum and the rate    *)
(* between its bounds, for every rounding and every recovered panic.        *)
(***************************************************************************)
THEOREM PricesRespectParams ==
    ASSUME SoundFeeParams
    PROVE  Spec => []PriceAndRateWithinParams
<1>1. FeeInv => PriceAndRateWithinParams
  BY DEF FeeInv
<1> QED
  BY <1>1, FeeInvariance, PTL

\* PostHandle never counts more gas than the limit, even when the limit is lowered.
THEOREM GasNeverExceedsLimit ==
    ASSUME SoundFeeParams
    PROVE  Spec => []BlockGasWithinLimit
<1>1. FeeInv => BlockGasWithinLimit
  BY DEF FeeInv
<1> QED
  BY <1>1, FeeInvariance, PTL

(***************************************************************************)
(* Under sound parameters every exported genesis is accepted by             *)
(* InitGenesis, and EndBlock of x/dynamicfee panics in one case only: the   *)
(* target of gas, which it logs outside the recovered sections, is beyond   *)
(* the largest int64.                                                       *)
(***************************************************************************)
THEOREM FeesHaltOnlyOnLargeTarget ==
    ASSUME SoundFeeParams
    PROVE  Spec => []HaltsOnlyOnLargeTarget
<1>1. FeeInv => HaltsOnlyOnLargeTarget
  BY DEF FeeInv
<1> QED
  BY <1>1, FeeInvariance, PTL

(***************************************************************************)
(* Only the limit of the parameters can make the target that large: while   *)
(* it does not, no EndBlock panics and no restart is refused.               *)
(***************************************************************************)
THEOREM FeesNeverHalt ==
    ASSUME SoundFeeParams, TargetsFit
    PROVE  Spec => []NotHalted
<1>1. FeeInv => NotHalted
  <2> SUFFICES ASSUME FeeInv PROVE ~TargetOverflows(GetMaxBlockGas(feeParams), feeParams)
    BY DEF FeeInv, HaltsOnlyOnLargeTarget, NotHalted
  <2>1. feeParams \in FeeParams /\ ValidFeeParams(feeParams)
    BY SoundParts DEF FeeInv
  <2>2. CASE maxGas \in {0, -1}
    BY <2>2 DEF TargetsFit, GetMaxBlockGas, FeeInv
  <2>3. CASE maxGas \notin {0, -1}
    <3>1. maxGas \in Nat /\ maxGas <= MaxInt64 /\ GetMaxBlockGas(feeParams) = maxGas
      BY <2>3, TxFeesAssumption, WidthAssumption DEF FeeInv, GetMaxBlockGas
    <3>2. /\ GetTargetBlockGas(maxGas, feeParams) \in Nat
          /\ GetTargetBlockGas(maxGas, feeParams) <= maxGas
      BY <2>1, <3>1, TargetType, TargetWithinLimit
    <3> QED
      BY <3>1, <3>2, WidthAssumption DEF TargetOverflows
  <2> QED
    BY <2>2, <2>3
<1> QED
  BY <1>1, FeeInvariance, PTL

-----------------------------------------------------------------------------
(* Demand and the price *)

\* A number of n units or more is rounded to n units or more.
LEMMA ChopAtLeast ==
    ASSUME NEW z \in Nat, NEW n \in Nat, z >= n * One
    PROVE  ChopNat(z) >= n
<1> DEFINE c == ChopNat(z)
<1>1. One \in Nat /\ One > 0 /\ c \in Nat /\ 2 * z <= 2 * (c * One) + One
  BY OneAssumption, ChopNatBounds, ChopNatLower
<1> HIDE DEF c
<1>2. n * One \in Nat /\ c * One \in Nat /\ (c + 1) * One = c * One + One
  BY <1>1, TimesSuccessor
<1>3. n * One < (c + 1) * One
  BY <1>1, <1>2
<1>4. n < c + 1
  <2> DEFINE k == c + 1
  <2>1. k \in Int /\ One \in Nat \ {0}
    BY <1>1
  <2>2. n * One < k * One
    BY <1>3
  <2> HIDE DEF k
  <2>3. n < k
    BY <2>1, <2>2, TimesCancel
  <2> QED
    BY <2>3 DEF k
<1> QED
  BY <1>1, <1>4 DEF c

\* Rounding keeps the sign.
LEMMA ChopRoundSign ==
    ASSUME NEW x \in Int
    PROVE  /\ x <= 0 => ChopRound(x) <= 0
           /\ x >= 0 => x \in Nat /\ ChopRound(x) = ChopNat(x) /\ ChopRound(x) \in Nat
<1>1. CASE x < 0
  <2>1. -x \in Nat
    BY <1>1
  <2>2. ChopNat(-x) \in Nat
    BY <2>1, ChopNatBounds
  <2> QED
    BY <1>1, <2>2 DEF ChopRound
<1>2. CASE x = 0
  <2>1. One \in Nat /\ 0 * One = 0
    BY OneAssumption
  <2>2. ChopNat(0 * One) = 0
    BY ChopExact
  <2> QED
    BY <1>2, <2>1, <2>2 DEF ChopRound
<1>3. CASE x > 0
  <2>1. x \in Nat
    BY <1>3
  <2> QED
    BY <1>3, <2>1, ChopNatBounds DEF ChopRound
<1> QED
  BY <1>1, <1>2, <1>3

\* A price times a factor of at most one does not rise, nor does it fall times one or more.
LEMMA ScaledPrice ==
    ASSUME NEW price \in Nat, NEW f \in Int
    PROVE  /\ f <= One => Mul(price, f) <= price
           /\ f >= One => Mul(price, f) >= price
<1>1. One \in Nat /\ One > 0
  BY OneAssumption
<1> DEFINE x == price * f
<1>2. x \in Int
  OBVIOUS
<1>3. Mul(price, f) = ChopRound(x)
  BY DEF Mul
<1>4. CASE f < 0
  <2>1. x <= 0
    BY <1>4
  <2> HIDE DEF x
  <2>2. Mul(price, f) <= 0 /\ ChopRound(x) \in Int
    BY <1>2, <1>3, <2>1, ChopRoundSign, ChopRoundType
  <2> QED
    BY <1>1, <1>3, <1>4, <2>2
<1>5. CASE f >= 0 /\ f <= One
  <2>1. Mul(price, f) <= price
    BY <1>5, MulShrinks
  <2>2. f >= One => Mul(price, f) = price
    <3>1. SUFFICES ASSUME f = One PROVE Mul(price, f) = price
      BY <1>1, <1>5
    <3>2. price * One >= 0 /\ price * One \in Int
      BY <1>1
    <3>3. ChopRound(price * One) = ChopNat(price * One)
      BY <3>2, ChopRoundSign
    <3> QED
      BY <3>1, <3>3, ChopExact DEF Mul
  <2> QED
    BY <2>1, <2>2
<1>6. CASE f > One
  <2>1. x >= price * One /\ price * One \in Nat
    BY <1>1, <1>6
  <2> HIDE DEF x
  <2>2. x \in Nat /\ ChopRound(x) = ChopNat(x)
    BY <1>2, <2>1, ChopRoundSign
  <2>3. ChopNat(x) >= price
    BY <2>1, <2>2, ChopAtLeast
  <2> QED
    BY <1>1, <1>3, <1>6, <2>2, <2>3
<1> QED
  BY <1>1, <1>4, <1>5, <1>6

\* The relative excess has the sign of the excess.
LEMMA ExcessSign ==
    ASSUME NEW gas \in Nat, NEW target \in Nat \ {0}
    PROVE  LET avg == Quo(ToDec(gas) - ToDec(target), ToDec(target))
           IN  /\ avg \in Int
               /\ gas <= target => avg <= 0
               /\ gas >= target => avg = Quo((gas - target) * One, target * One) /\ avg >= 0
<1> DEFINE num == ToDec(gas) - ToDec(target)
           den == ToDec(target)
           avg == Quo(num, den)
<1>1. One \in Nat /\ One > 0
  BY OneAssumption
<1>2. /\ num = (gas - target) * One /\ den = target * One
      /\ num \in Int /\ den \in Nat \ {0}
      /\ gas < target => num < 0
      /\ gas = target => num = 0
  BY <1>1 DEF ToDec
<1>3. avg \in Int
  <2> HIDE DEF num, den
  <2> QED
    BY <1>2, QuoType
<1>4. gas >= target => avg = Quo((gas - target) * One, target * One) /\ avg >= 0
  <2>1. SUFFICES ASSUME gas >= target
                 PROVE  avg = Quo((gas - target) * One, target * One) /\ avg >= 0
    OBVIOUS
  <2>2. gas - target \in Nat
    BY <2>1
  <2>3. Quo((gas - target) * One, target * One) \in Nat
    <3> DEFINE k == gas - target
    <3>1. k \in Nat
      BY <2>2
    <3> HIDE DEF k
    <3>2. Quo(k * One, target * One) \in Nat
      BY <3>1, QuoBounds
    <3> QED
      BY <3>2 DEF k
  <2> HIDE DEF num, den
  <2> QED
    BY <1>2, <2>3
<1>5. gas < target => avg <= 0
  <2>1. SUFFICES ASSUME gas < target PROVE avg <= 0
    OBVIOUS
  <2> HIDE DEF num, den
  <2> DEFINE n == -num * One * One
             y == n \div den
  <2>2. n \in Nat
    <3>1. num * One \in Int /\ num * One <= 0
      BY <1>1, <1>2, <2>1
    <3> DEFINE k == num * One
    <3> HIDE DEF k
    <3>2. k * One \in Int /\ k * One <= 0
      BY <1>1, <3>1 DEF k
    <3> QED
      BY <3>2 DEF k
  <2>3. avg = -ChopNat(y)
    BY <1>2, <2>1 DEF Quo
  <2> HIDE DEF n
  <2>4. y \in Nat
    BY <1>2, <2>2
  <2> HIDE DEF y
  <2>5. ChopNat(y) \in Nat
    BY <2>4, ChopNatBounds
  <2> QED
    BY <2>3, <2>5
<1>6. gas = target => avg <= 0
  <2>1. SUFFICES ASSUME gas = target PROVE avg <= 0
    OBVIOUS
  <2>2. avg = Quo(0 * One, target * One)
    BY <1>4, <2>1
  <2> DEFINE quo == Quo(0 * One, target * One)
  <2>3. /\ quo \in Nat /\ 2 * (quo * target) <= 2 * (0 * One) + target
    BY QuoBounds
  <2> HIDE DEF quo
  <2>4. quo = 0
    <3>1. quo * target \in Nat /\ 2 * (quo * target) <= target
      BY <1>1, <2>3
    <3>2. quo >= 1 => quo * target >= target
      BY <2>3
    <3> QED
      BY <2>3, <3>1, <3>2
  <2> QED
    BY <2>2, <2>4 DEF quo
<1> HIDE DEF avg
<1>7. gas <= target => avg <= 0
  BY <1>5, <1>6
<1> QED
  BY <1>3, <1>4, <1>7 DEF avg, num, den

(***************************************************************************)
(* The rise shows: where the relative excess, its product with the rate and *)
(* the rise are two units each, the price times the rounded adjustment is   *)
(* more than half a unit.  one, target and so on are the decimals behind    *)
(* UpdateBaseGasPrice, avg and adj the rounded ones.                        *)
(***************************************************************************)
LEMMA RiseShows ==
    ASSUME NEW one \in Nat, one > 1, NEW t \in Nat \ {0}, NEW g \in Nat, NEW rate \in Nat,
           NEW price \in Nat, NEW avg \in Nat, NEW adj \in Nat,
           2 * ((g * one) * one) < 2 * ((avg * t) * one) + (one + 2) * t,
           2 * (rate * avg) <= 2 * (adj * one) + one,
           one * g >= 2 * t, rate * g >= 2 * t,
           price * (rate * g) >= 2 * (one * t)
    PROVE  2 * (price * adj) > one
<1> DEFINE G == rate * g
           T == t * one
           Y == rate * avg
           X == adj * one
           Z == price * adj
<1>1. G \in Nat /\ T \in Nat \ {0} /\ Y \in Nat /\ X \in Nat /\ Z \in Nat
  OBVIOUS
<1>2. rate > 0 /\ price > 0
  <2>1. rate = 0 => rate * g = 0
    OBVIOUS
  <2>2. price = 0 => price * G = 0
    BY <1>1
  <2>3. one * t = T
    OBVIOUS
  <2> HIDE DEF T, G
  <2>4. rate * g = G /\ price * G >= 2 * T /\ G >= 2 * t
    BY <2>3 DEF G
  <2> QED
    BY <1>1, <2>1, <2>2, <2>4
\* (a) times the rate
<1>3. 2 * ((G * one) * one) < 2 * ((Y * t) * one) + (one + 2) * (rate * t)
  <2> DEFINE a == 2 * ((g * one) * one)
             b == 2 * ((avg * t) * one) + (one + 2) * t
  <2>1. a \in Int /\ b \in Int /\ a < b
    OBVIOUS
  <2>2. a * rate = 2 * ((G * one) * one)
    OBVIOUS
  <2>3. b * rate = 2 * ((Y * t) * one) + (one + 2) * (rate * t)
    OBVIOUS
  <2> HIDE DEF a, b
  <2>4. a * rate < b * rate
    BY <1>2, <2>1
  <2> QED
    BY <2>2, <2>3, <2>4
<1>4. 2 * ((Y * t) * one) <= 2 * (X * T) + one * T
  <2> DEFINE a == 2 * Y
             b == 2 * X + one
  <2>1. a \in Int /\ b \in Int /\ a <= b
    BY <1>1
  <2>2. a * T = 2 * ((Y * t) * one)
    BY <1>1
  <2>3. b * T = 2 * (X * T) + one * T
    BY <1>1
  <2> HIDE DEF a, b, T
  <2>4. a * T <= b * T
    BY <1>1, <2>1
  <2> QED
    BY <2>2, <2>3, <2>4
<1>5. 2 * (rate * t) <= G * one
  <2> DEFINE a == 2 * t
             b == one * g
  <2>1. a \in Int /\ b \in Int /\ a <= b
    OBVIOUS
  <2>2. a * rate = 2 * (rate * t) /\ b * rate = G * one
    OBVIOUS
  <2> HIDE DEF a, b
  <2>3. a * rate <= b * rate
    BY <2>1
  <2> QED
    BY <2>2, <2>3
<1>6. 2 * T <= G * one
  <2> DEFINE a == 2 * t
  <2>1. a \in Int /\ a <= G /\ a * one = 2 * T
    OBVIOUS
  <2> HIDE DEF a, G, T
  <2>2. a * one <= G * one
    BY <1>1, <2>1
  <2> QED
    BY <2>1, <2>2
<1> DEFINE H == G * one
           K == rate * t
<1>7. H \in Nat /\ K \in Nat
  BY <1>1
<1> HIDE DEF G, T, Y, X, Z, K
\* everything over one unit
<1>8. G * (one - 1) < 2 * (adj * T)
  <2> DEFINE V == adj * T
  <2>1. V \in Nat /\ X * T = V * one
    BY <1>1 DEF X
  <2> HIDE DEF V, H
  <2>2. 2 * (H * one) < 2 * (V * one) + T * one + (one + 2) * K
    <3>1. one * T = T * one /\ X * T = V * one /\ H * one \in Int
      BY <1>1, <1>7, <2>1
    <3>2. 2 * (H * one) < 2 * ((Y * t) * one) + (one + 2) * K
      BY <1>3 DEF H, K
    <3> DEFINE a == (Y * t) * one
               b == V * one
               c == T * one
               d == (one + 2) * K
               e == H * one
    <3>3. a \in Int /\ b \in Int /\ c \in Int /\ d \in Int /\ e \in Int
      <4>1. Y * t \in Int
        BY <1>1
      <4> QED
        BY <1>1, <1>7, <2>1, <4>1
    <3>4. 2 * a <= 2 * b + c
      BY <1>4, <3>1
    <3>5. 2 * e < 2 * a + d
      BY <3>2
    <3> HIDE DEF a, b, c, d, e
    <3>6. 2 * e < 2 * b + c + d
      BY <3>3, <3>4, <3>5
    <3> QED
      BY <3>6 DEF b, c, d, e
  <2>3. 2 * K <= H
    BY <1>5 DEF H, K
  <2>4. (one + 2) * (2 * K) <= (one + 2) * H
    BY <1>7, <2>3
  <2>5. 4 * (H * one) < 4 * (V * one) + 2 * (T * one) + H * one + 2 * H
    <3>1. (one + 2) * (2 * K) = 2 * ((one + 2) * K) /\ (one + 2) * H = H * one + 2 * H
      BY <1>7
    <3> DEFINE b == V * one
               c == T * one
               d == (one + 2) * K
               e == H * one
    <3>2. b \in Int /\ c \in Int /\ d \in Int /\ e \in Int
      BY <1>1, <1>7, <2>1
    <3>3. 2 * d <= e + 2 * H /\ 2 * e < 2 * b + c + d
      BY <2>2, <2>4, <3>1
    <3> HIDE DEF b, c, d, e
    <3>4. 4 * e < 4 * b + 2 * c + e + 2 * H
      BY <1>7, <3>2, <3>3
    <3> QED
      BY <3>4 DEF b, c, e
  <2>6. 4 * H < 4 * V + 2 * T + H + 2 * G
    <3> DEFINE l == 4 * H
               r == 4 * V + 2 * T + H + 2 * G
    <3>1. l \in Int /\ r \in Int
      BY <1>1, <1>7, <2>1
    <3>2. l * one = 4 * (H * one)
      BY <1>7
    <3>3. r * one = 4 * (V * one) + 2 * (T * one) + H * one + 2 * (G * one)
      BY <1>1, <1>7, <2>1
    <3>4. G * one = H
      BY DEF H
    <3>5. l * one < r * one
      BY <2>5, <3>2, <3>3, <3>4
    <3> HIDE DEF l, r
    <3>6. l < r
      BY <3>1, <3>5, TimesCancel
    <3> QED
      BY <3>6 DEF l, r
  <2>7. 2 * T <= H
    BY <1>6 DEF H
  <2>8. H < 2 * V + G
    BY <1>1, <1>7, <2>1, <2>6, <2>7
  <2>9. G * (one - 1) = H - G
    BY <1>1 DEF H
  <2> QED
    BY <1>1, <1>7, <2>1, <2>8, <2>9 DEF V
<1> HIDE DEF H
\* times the price
<1>9. (price * G) * (one - 1) < 2 * (Z * T)
  <2> DEFINE l == G * (one - 1)
             r == 2 * (adj * T)
  <2>1. l \in Int /\ r \in Int /\ l < r
    BY <1>1, <1>8
  <2>2. l * price = (price * G) * (one - 1) /\ r * price = 2 * (Z * T)
    BY <1>1 DEF Z
  <2> HIDE DEF l, r
  <2>3. l * price < r * price
    BY <1>2, <2>1
  <2> QED
    BY <2>2, <2>3
<1>10. (2 * T) * (one - 1) <= (price * G) * (one - 1)
  <2> DEFINE l == 2 * T
             r == price * G
             k == one - 1
  <2>1. l \in Int /\ r \in Int /\ k \in Nat /\ l <= r
    BY <1>1 DEF G, T
  <2> HIDE DEF l, r, k
  <2>2. l * k <= r * k
    BY <2>1, TimesMonotone
  <2> QED
    BY <2>2 DEF l, r, k
<1>11. (one - 1) < Z
  <2> DEFINE k == one - 1
  <2>1. k \in Nat /\ (2 * T) * k = 2 * (k * T)
    BY <1>1
  <2>2. k * T \in Int /\ Z * T \in Int /\ (price * G) * k \in Int
    <3>1. price * G \in Int
      BY <1>1
    <3> QED
      BY <1>1, <2>1, <3>1
  <2>3. 2 * (k * T) <= (price * G) * k /\ (price * G) * k < 2 * (Z * T)
    BY <1>9, <1>10, <2>1
  <2> HIDE DEF k
  <2>4. k * T < Z * T
    BY <2>2, <2>3
  <2>5. k < Z
    BY <1>1, <2>1, <2>4, TimesCancel
  <2> QED
    BY <2>5 DEF k
<1> QED
  BY <1>1, <1>11 DEF Z

\* The adjusted price as a function of what it depends on.
Moved(price, rate, gas, t) ==
    Mul(price, One + Mul(rate, Quo(ToDec(gas) - ToDec(t), ToDec(t))))

(***************************************************************************)
(* What UpdateBaseGasPrice computes from a valid state: the price does not  *)
(* rise at or below the target, does not fall at or above it, and rises     *)
(* where the rise shows.                                                    *)
(***************************************************************************)
LEMMA AdjustedPriceMoves ==
    ASSUME NEW gas \in Nat, NEW t \in Nat \ {0}, NEW price \in Nat, NEW rate \in Nat
    PROVE  /\ Moved(price, rate, gas, t) \in Int
           /\ gas <= t => Moved(price, rate, gas, t) <= price
           /\ gas >= t => Moved(price, rate, gas, t) >= price
           /\ /\ gas >= t
              /\ One * (gas - t) >= 2 * t
              /\ rate * (gas - t) >= 2 * t
              /\ price * (rate * (gas - t)) >= 2 * (One * t)
              => Moved(price, rate, gas, t) > price
<1> DEFINE avg == Quo(ToDec(gas) - ToDec(t), ToDec(t))
           adj == Mul(rate, avg)
           f   == One + adj
<1>1. One \in Nat /\ One > 1
  BY OneAssumption
<1>2. /\ avg \in Int
      /\ gas <= t => avg <= 0
      /\ gas >= t => avg = Quo((gas - t) * One, t * One) /\ avg >= 0
  BY ExcessSign
<1>3. Moved(price, rate, gas, t) = Mul(price, f)
  BY DEF Moved
<1> HIDE DEF avg
<1>4. /\ rate * avg \in Int
      /\ avg <= 0 => rate * avg <= 0
      /\ avg >= 0 => rate * avg >= 0
  BY <1>2
<1>5. /\ adj \in Int
      /\ gas <= t => adj <= 0
      /\ gas >= t => rate * avg \in Nat /\ adj = ChopNat(rate * avg) /\ adj \in Nat
  <2> DEFINE x == rate * avg
  <2>1. x \in Int /\ (gas <= t => x <= 0) /\ (gas >= t => x >= 0)
    BY <1>2, <1>4
  <2>2. adj = ChopRound(x)
    BY DEF Mul
  <2> HIDE DEF x, adj
  <2>3. adj \in Int
    BY <2>1, <2>2, ChopRoundType
  <2>4. gas <= t => adj <= 0
    BY <2>1, <2>2, ChopRoundSign
  <2>5. gas >= t => x \in Nat /\ adj = ChopNat(x) /\ adj \in Nat
    BY <2>1, <2>2, ChopRoundSign
  <2> QED
    BY <2>3, <2>4, <2>5 DEF x
<1> HIDE DEF adj
<1>6. f \in Int /\ (gas <= t => f <= One) /\ (gas >= t => f >= One)
  BY <1>1, <1>5
<1>7. /\ Moved(price, rate, gas, t) \in Int
      /\ gas <= t => Moved(price, rate, gas, t) <= price
      /\ gas >= t => Moved(price, rate, gas, t) >= price
  <2> HIDE DEF f
  <2>1. price \in Int
    OBVIOUS
  <2>2. Mul(price, f) \in Int
    BY <1>6, <2>1, MulType
  <2> QED
    BY <1>3, <1>6, <2>2, ScaledPrice
<1>8. ASSUME /\ gas >= t
             /\ One * (gas - t) >= 2 * t
             /\ rate * (gas - t) >= 2 * t
             /\ price * (rate * (gas - t)) >= 2 * (One * t)
      PROVE  Moved(price, rate, gas, t) > price
  <2> DEFINE g == gas - t
  <2>1. g \in Nat
    BY <1>8
  <2>2. /\ One * g >= 2 * t /\ rate * g >= 2 * t
        /\ price * (rate * g) >= 2 * (One * t)
        /\ avg = Quo(g * One, t * One)
    BY <1>2, <1>8
  <2> HIDE DEF g
  <2>3. /\ avg \in Nat
        /\ 2 * ((g * One) * One) < 2 * ((avg * t) * One) + (One + 2) * t
    BY <2>1, <2>2, QuoBounds
  <2>4. adj \in Nat /\ 2 * (rate * avg) <= 2 * (adj * One) + One
    BY <1>5, <1>8, ChopNatLower
  <2>5. 2 * (price * adj) > One
    BY <1>1, <2>1, <2>2, <2>3, <2>4, RiseShows
  <2> DEFINE z == price * f
             n == ChopNat(z)
  <2>6. z = price * One + price * adj /\ price * One \in Nat /\ price * adj \in Nat
    BY <1>1, <2>4
  <2>7. z \in Nat /\ z >= 0
    BY <2>6
  <2> HIDE DEF z
  <2>8. Moved(price, rate, gas, t) = n
    <3>1. ChopRound(z) = n
      BY <2>7, ChopRoundSign
    <3> QED
      BY <1>3, <3>1 DEF Mul, z
  <2>9. n \in Nat /\ 2 * z <= 2 * (n * One) + One
    BY <2>7, ChopNatBounds, ChopNatLower
  <2> HIDE DEF n
  <2>10. n * One \in Nat /\ n * One > price * One
    <3>1. n * One \in Nat
      BY <1>1, <2>9
    <3> QED
      BY <1>1, <2>5, <2>6, <2>9, <3>1
  <2>11. price < n
    BY <1>1, <2>9, <2>10, TimesCancel
  <2> QED
    BY <2>8, <2>9, <2>11
<1> QED
  BY <1>7, <1>8

(***************************************************************************)
(* EndBlock reads the rate it has just updated and the price before the     *)
(* height moves on, so that PriceFollowsDemand is about the block that      *)
(* ends.                                                                    *)
(***************************************************************************)
THEOREM DemandMovesThePrice ==
    ASSUME SoundFeeParams
    PROVE  Spec => PriceFollowsDemand
<1> DEFINE Moves == (phase = "deliver" /\ phase' = "ended" /\ feeParams.Enabled /\ ~halted' =>
         LET target == GetTargetBlockGas(GetMaxBlockGas(feeParams), feeParams)
             gas    == feeState.Window[feeState.Index]
             excess == gas - target
             old    == feeState.BaseGasPrice
             new    == feeState'.BaseGasPrice
             rate   == feeState'.LearningRate
             rated  == [feeState EXCEPT !.LearningRate = rate]
         IN  target > 0 =>
               /\ gas <= target => new <= old
               /\ gas >= target /\ ~PriceOverflows(rated, target) =>
                    /\ new >= old
                    /\ (/\ One * excess >= 2 * target
                        /\ rate * excess >= 2 * target
                        /\ old * (rate * excess) >= 2 * (One * target)) => new > old)
<1>1. FeeInv /\ [Next]_vars => [Moves]_vars
  <2> SUFFICES ASSUME FeeInv, Next, phase = "deliver", phase' = "ended",
                      feeParams.Enabled, ~halted'
               PROVE  Moves
    OBVIOUS
  <2>1. EndBlock
    BY DEF Next, Transactions, GovEndBlock, FailTx, DeliverTx, UpdateFeeParams,
           GovUpdatesPhoton, UpdateMaxGas, Restart, BeginBlock, feeVars
  <2> DEFINE m      == GetMaxBlockGas(feeParams)
             target == GetTargetBlockGas(m, feeParams)
             rate   == UpdateLearningRate(feeState, feeParams, m)
             rated  == [feeState EXCEPT !.LearningRate = rate]
             gas    == feeState.Window[feeState.Index]
             old    == feeState.BaseGasPrice
             new    == feeState'.BaseGasPrice
             adjust == AdjustedPrice(rated, target)
             min    == feeParams.MinBaseGasPrice
             excess == gas - target
             shows  == /\ One * excess >= 2 * target
                       /\ rate * excess >= 2 * target
                       /\ old * (rate * excess) >= 2 * (One * target)
  <2>2. feeState' = Repriced(feeState, feeParams, m)
    BY <2>1 DEF EndBlock
  <2>3. /\ feeParams \in FeeParams /\ ValidFeeParams(feeParams) /\ m \in Nat
        /\ min > 0 /\ feeParams.MinLearningRate > 0
    BY SoundParts DEF FeeInv
  <2>4. /\ Fits(feeState, feeParams) /\ feeState \in FeeStates(feeParams) /\ gas \in Nat
        /\ feeParams.MinLearningRate <= feeState.LearningRate
        /\ feeState.LearningRate <= feeParams.MaxLearningRate
        /\ min <= old
    BY FeeInvParts DEF FeeInv, PriceAndRateWithinParams
  <2>5. /\ min \in Nat /\ old \in Nat /\ target \in Nat
        /\ rate \in Nat
    <3>1. min \in Int /\ old \in Int /\ feeParams.MinLearningRate \in Int
      BY <2>3, <2>4 DEF FeeParams, FeeStates
    <3>2. rate \in Int /\ feeParams.MinLearningRate <= rate
      BY <2>3, <2>4, RateInBounds
    <3>3. target \in Nat
      BY <2>3, TargetType
    <3> HIDE DEF rate, target, min, old
    <3> QED
      BY <2>3, <2>4, <3>1, <3>2, <3>3
  <2> HIDE DEF m
  <2>6. /\ feeState'.LearningRate = rate
        /\ new = UpdateBaseGasPrice(rated, feeParams, m)
    BY <2>2, <2>3, <2>4, RepricedFits
  <2> HIDE DEF rate
  <2>7. /\ rated.Window = feeState.Window /\ rated.Index = feeState.Index
        /\ rated.BaseGasPrice = old /\ rated.LearningRate = rate
    BY <2>4 DEF FeeStates
  <2>8. rated.Index \in DOMAIN rated.Window
    BY <2>7 DEF FeeInv, WindowMatchesParams
  <2> DEFINE over == PriceOverflows(rated, target)
  <2>9. new = IF target = 0 \/ over THEN min ELSE Larger(adjust, min)
    <3>1. ~TargetOverflows(m, feeParams)
      BY <2>1 DEF EndBlock, m
    <3> QED
      BY <2>6, <2>8, <3>1 DEF UpdateBaseGasPrice
  <2> HIDE DEF rated, target, gas, old, new, adjust, min, over
  <2>10. ASSUME target > 0
         PROVE  /\ adjust \in Int
                /\ gas <= target => adjust <= old
                /\ gas >= target => adjust >= old
                /\ gas >= target /\ shows => adjust > old
    <3>1. target \in Nat \ {0} /\ gas \in Nat /\ old \in Nat /\ rate \in Nat
      BY <2>4, <2>5, <2>10
    <3>2. adjust = Moved(old, rate, gas, target)
      BY <2>7 DEF adjust, AdjustedPrice, Adjustment, RelativeExcess, Moved, gas
    <3> QED
      BY <3>1, <3>2, AdjustedPriceMoves
  <2> HIDE DEF shows
  <2>11. ASSUME target > 0
         PROVE  /\ gas <= target => new <= old
                /\ gas >= target /\ ~over => new >= old /\ (shows => new > old)
    BY <2>4, <2>5, <2>9, <2>10, <2>11 DEF Larger
  <2> QED
    BY <2>6, <2>11 DEF target, gas, old, new, rated, over, m, shows
<1> QED
  BY <1>1, FeeInvariance, PTL DEF Spec, PriceFollowsDemand

-----------------------------------------------------------------------------
(***************************************************************************)
(* x/photon under transactions: whatever fees are taken, from payers and    *)
(* granters, in either denom, before messages that mint, fail or spend what *)
(* the fee left, the supplies keep the promises of PhotonSupply.  And what  *)
(* the fees are worth: they pay for the gas of the block.                   *)
(***************************************************************************)

\* What MintKeepsBank asks of a bank.
SoundBank(b) ==
    /\ b \in Bank
    /\ b.supply["photon"] <= MaxSupply
    /\ b.supply["bond"] <= MaxBond
    /\ b.supply["bond"] >= Staked + SumOver(b.bal["bond"], Accounts)

LEMMA PhotonInvParts == PhotonInv <=> SoundBank(bank) /\ photonParams \in PhotonParamSets
BY DEF PhotonInv, PhotonTypeOK, SupplyBounded, BondSupplyCoversBalances, SoundBank

\* The fee of a transaction is a natural number in each denom.
LEMMA FeeType ==
    ASSUME NEW t \in Tx, NEW d \in Denoms
    PROVE  FeeIn(t, d) \in Nat
<1> DEFINE S == {i \in DOMAIN t.fee : t.fee[i].denom = d}
           f == [i \in DOMAIN t.fee |-> t.fee[i].amount]
<1>1. t.fee \in Seq(Coin)
  BY TxFeesAssumption DEF Tx
<1>2. /\ Len(t.fee) \in Nat /\ DOMAIN t.fee = 1 .. Len(t.fee)
      /\ \A i \in DOMAIN t.fee : t.fee[i] \in Coin
  BY <1>1
<1>3. IsFiniteSet(S)
  <2>1. IsFiniteSet(1 .. Len(t.fee))
    BY <1>2, FS_Interval
  <2>2. S \in SUBSET (1 .. Len(t.fee))
    BY <1>2
  <2> QED
    BY <2>1, <2>2, FS_Subset
<1>4. \A i \in S : f[i] \in Nat
  BY <1>2 DEF Coin
<1> HIDE DEF S, f
<1>5. SumOver(f, S) \in Nat
  BY <1>3, <1>4, SumType, Zenon
<1> QED
  BY <1>5 DEF FeeIn, S, f

\* A fee is charged to an account.
LEMMA ChargedAccount ==
    ASSUME NEW t \in Tx
    PROVE  DeductFeesFrom(t) \in Accounts /\ t.payer \in Accounts
BY DEF Tx, DeductFeesFrom

(***************************************************************************)
(* DeductFees moves coins out of the accounts: the supplies stay, and cover *)
(* the balances all the more.                                               *)
(***************************************************************************)
LEMMA DeductKeepsBank ==
    ASSUME SoundBank(bank), NEW t \in Tx, CanDeduct(t)
    PROVE  SoundBank(DeductedBank(t)) /\ DeductedBank(t).supply = bank.supply
<1> DEFINE a == DeductFeesFrom(t)
           c == DeductedBank(t)
           bondFee == FeeIn(t, "bond")
           photonFee == FeeIn(t, "photon")
<1>1. a \in Accounts /\ bondFee \in Nat /\ photonFee \in Nat
  BY ChargedAccount, FeeType DEF Denoms
<1>2. bank.bal["bond"][a] >= bondFee /\ bank.bal["photon"][a] >= photonFee
  BY DEF CanDeduct, Denoms
<1>3. bank \in Bank
  BY DEF SoundBank
<1>4. /\ c.bal = [d \in Denoms |-> [bank.bal[d] EXCEPT ![a] = @ - FeeIn(t, d)]]
      /\ c.supply = bank.supply
      /\ c = [bal |-> c.bal, supply |-> c.supply]
  <2> DEFINE newBal == [d \in Denoms |-> [bank.bal[d] EXCEPT ![a] = @ - FeeIn(t, d)]]
  <2>1. c = [bank EXCEPT !.bal = newBal]
    BY DEF DeductedBank
  <2> HIDE DEF newBal, c
  <2>2. c = [bal |-> newBal, supply |-> bank.supply]
    BY <1>3, <2>1 DEF Bank
  <2>3. c.bal = newBal /\ c.supply = bank.supply /\ c = [bal |-> c.bal, supply |-> c.supply]
    BY <2>2
  <2> QED
    BY <2>3 DEF newBal
<1>5. /\ c.bal["bond"] = [bank.bal["bond"] EXCEPT ![a] = @ - bondFee]
      /\ c.bal["photon"] = [bank.bal["photon"] EXCEPT ![a] = @ - photonFee]
  BY <1>4 DEF Denoms
<1> HIDE DEF a, c, bondFee, photonFee
<1>6. c.bal["bond"] \in [Accounts -> Nat] /\ c.bal["photon"] \in [Accounts -> Nat]
  BY <1>1, <1>2, <1>3, <1>5, BankParts
<1>7. c \in Bank
  <2>1. c.bal = [d \in Denoms |-> c.bal[d]]
    BY <1>4
  <2>2. c.bal \in [Denoms -> [Accounts -> Nat]]
    BY <1>6, <2>1 DEF Denoms
  <2>3. c.supply \in [Denoms -> Nat]
    BY <1>3, <1>4 DEF Bank
  <2> QED
    BY <1>4, <2>2, <2>3 DEF Bank
<1>8. SumOver(c.bal["bond"], Accounts) = SumOver(bank.bal["bond"], Accounts) - bondFee
  <2>1. c.bal["bond"] = [bank.bal["bond"] EXCEPT ![a] = @ + (-bondFee)]
    BY <1>1, <1>3, <1>5, BankParts
  <2>2. SumOver(c.bal["bond"], Accounts) = SumOver(bank.bal["bond"], Accounts) + (-bondFee)
    BY <1>1, <1>3, <1>7, <2>1, SpendableUpdate
  <2> QED
    BY <1>1, <1>3, <2>2, SpendableSum
<1>9. Staked \in Nat
  BY PhotonAssumption
<1>10. SoundBank(c)
  BY <1>1, <1>3, <1>4, <1>7, <1>8, <1>9, BankParts, SpendableSum DEF SoundBank
<1> QED
  BY <1>4, <1>10 DEF c

\* The messages of a transaction keep the bank, and mint photon only for bond denom.
LEMMA MsgsKeepBank ==
    ASSUME SoundBank(bank), NEW t \in Tx, CanDeduct(t), MsgsSucceed(t)
    PROVE  /\ SoundBank(AfterMsgs(t))
           /\ \/ AfterMsgs(t).supply = bank.supply
              \/ /\ AfterMsgs(t).supply["bond"] < bank.supply["bond"]
                 /\ AfterMsgs(t).supply["bond"] > 0
                 /\ AfterMsgs(t).supply["photon"] > bank.supply["photon"]
                 /\ AfterMsgs(t).supply["photon"] <= MaxSupply
<1>1. SoundBank(DeductedBank(t)) /\ DeductedBank(t).supply = bank.supply
  BY DeductKeepsBank
<1>2. CASE t.burn > 0
  <2> DEFINE b == DeductedBank(t)
             c == AfterMint(b, t.payer, t.burn)
  <2>1. t.burn \in Nat \ {0} /\ t.payer \in Accounts
    <3>1. t.burn \in Burns \cup {0}
      BY TxFeesAssumption DEF Tx
    <3>2. Burns \subseteq Nat \ {0}
      BY PhotonAssumption
    <3>3. ~(0 > 0)
      OBVIOUS
    <3>4. t.burn # 0
      BY <1>2, <3>3
    <3>5. t.payer \in Accounts
      BY ChargedAccount
    <3> QED
      BY <3>1, <3>2, <3>4, <3>5
  <2>2. CanMint(b, photonParams, t.payer, t.burn)
    BY <1>2 DEF MsgsSucceed
  <2>3. AfterMsgs(t) = c
    BY <1>2 DEF AfterMsgs
  <2>4. /\ b \in Bank /\ b.supply["photon"] <= MaxSupply /\ b.supply["bond"] <= MaxBond
        /\ b.supply["bond"] >= Staked + SumOver(b.bal["bond"], Accounts)
    BY <1>1 DEF SoundBank
  <2> HIDE DEF b
  <2>5. /\ c \in Bank
        /\ c.supply["photon"] <= MaxSupply
        /\ c.supply["bond"] <= MaxBond
        /\ c.supply["bond"] >= Staked + SumOver(c.bal["bond"], Accounts)
        /\ c.supply["bond"] < b.supply["bond"] /\ c.supply["bond"] > 0
        /\ c.supply["photon"] > b.supply["photon"]
    BY <2>1, <2>2, <2>4, MintKeepsBank
  <2> HIDE DEF c
  <2> QED
    BY <1>1, <2>3, <2>5 DEF SoundBank, b
<1>3. CASE ~(t.burn > 0)
  BY <1>1, <1>3 DEF AfterMsgs
<1> QED
  BY <1>2, <1>3

-----------------------------------------------------------------------------
(* The supplies.                                                            *)

\* The invariant of x/photon with the fee collector.
SupplyInv == PhotonInv /\ collector \in [Denoms -> Nat]

\* What a step does to the supplies, in the terms of PhotonSupply.
SuppliesMove ==
    \/ Supplies!Mint
    \/ Supplies!Inflate
    \/ UNCHANGED <<bank.supply["bond"], bank.supply["photon"]>>

\* Collecting a fee keeps the type of the collector.
LEMMA CollectedType ==
    ASSUME collector \in [Denoms -> Nat], NEW t \in Tx
    PROVE  Collected(t) \in [Denoms -> Nat]
<1>1. \A d \in Denoms : collector[d] + FeeIn(t, d) \in Nat
  BY FeeType
<1> QED
  BY <1>1 DEF Collected

\* A transaction, whether it fails or not.
LEMMA TransactionSupply ==
    ASSUME SupplyInv, Transactions
    PROVE  SupplyInv' /\ SuppliesMove
<1>1. SoundBank(bank) /\ photonParams \in PhotonParamSets /\ collector \in [Denoms -> Nat]
  BY PhotonInvParts DEF SupplyInv
<1>2. PICK t \in Tx : FailTx(t) \/ \E used \in 1 .. t.gas : DeliverTx(t, used)
  BY DEF Transactions
<1>3. CanDeduct(t)
  BY <1>2 DEF FailTx, DeliverTx, AnteHandle, DynamicfeeAnte, FallbackAnte
<1>4. collector' = Collected(t) /\ photonParams' = photonParams
  BY <1>2 DEF FailTx, DeliverTx
<1>5. CASE FailTx(t)
  <2>1. bank' = DeductedBank(t)
    BY <1>5 DEF FailTx
  <2>2. SoundBank(bank') /\ bank'.supply = bank.supply
    BY <1>1, <1>3, <2>1, DeductKeepsBank
  <2> QED
    BY <1>1, <1>4, <2>2, CollectedType
       DEF SupplyInv, SuppliesMove, PhotonInv, PhotonTypeOK, SupplyBounded,
           BondSupplyCoversBalances, SoundBank
<1>6. CASE \E used \in 1 .. t.gas : DeliverTx(t, used)
  <2>1. bank' = AfterMsgs(t) /\ MsgsSucceed(t)
    BY <1>6 DEF DeliverTx
  <2>2. /\ SoundBank(bank')
        /\ \/ bank'.supply = bank.supply
           \/ /\ bank'.supply["bond"] < bank.supply["bond"] /\ bank'.supply["bond"] > 0
              /\ bank'.supply["photon"] > bank.supply["photon"]
              /\ bank'.supply["photon"] <= MaxSupply
    BY <1>1, <1>3, <2>1, MsgsKeepBank
  <2>3. SuppliesMove
    BY <2>2 DEF SuppliesMove, Supplies!Mint
  <2> QED
    BY <1>1, <1>4, <2>2, <2>3, CollectedType
       DEF SupplyInv, PhotonInv, PhotonTypeOK, SupplyBounded, BondSupplyCoversBalances,
           SoundBank
<1> QED
  BY <1>2, <1>5, <1>6

\* A reward at the beginning of a block.
LEMMA RewardSupply ==
    ASSUME PhotonInv, NEW a \in Accounts, NEW n \in Rewards, Reward(a, n)
    PROVE  PhotonInv' /\ Supplies!Inflate
<1>1. SoundBank(bank) /\ photonParams \in PhotonParamSets
  BY PhotonInvParts
<1>2. n \in Nat \ {0}
  BY PhotonAssumption
<1>3. /\ bank.supply["bond"] + n <= MaxBond
      /\ bank' = AfterReward(bank, a, n) /\ photonParams' = photonParams
  BY DEF Reward
<1>4. /\ bank' \in Bank
      /\ bank'.supply["photon"] = bank.supply["photon"]
      /\ bank'.supply["bond"] = bank.supply["bond"] + n
      /\ bank'.supply["bond"] >= Staked + SumOver(bank'.bal["bond"], Accounts)
  BY <1>1, <1>2, <1>3, RewardKeepsBank DEF SoundBank
<1>5. Supplies!Inflate
  BY <1>1, <1>2, <1>4, BankParts DEF Supplies!Inflate, SoundBank
<1> QED
  BY <1>1, <1>3, <1>4, <1>5
     DEF SoundBank, PhotonInv, PhotonTypeOK, SupplyBounded, BondSupplyCoversBalances

\* A step that leaves bank and parameters of x/photon alone.
LEMMA SupplyUntouched ==
    ASSUME SupplyInv, UNCHANGED photonVars, collector' \in [Denoms -> Nat]
    PROVE  SupplyInv' /\ SuppliesMove
BY DEF SupplyInv, SuppliesMove, photonVars, PhotonInv, PhotonTypeOK, SupplyBounded,
       BondSupplyCoversBalances

\* Every step keeps the invariant and moves the supplies as PhotonSupply says.
LEMMA SupplyStep == SupplyInv /\ [Next]_vars => SupplyInv' /\ SuppliesMove
<1> SUFFICES ASSUME SupplyInv, [Next]_vars PROVE SupplyInv' /\ SuppliesMove
  OBVIOUS
<1>1. CASE EndBlock
  BY <1>1, SupplyUntouched DEF EndBlock, SupplyInv
<1>2. CASE GovEndBlock
  <2>1. CASE \E p \in PhotonParamSets : GovUpdatesPhoton(p)
    BY <2>1 DEF GovUpdatesPhoton, UpdatePhotonParams, feeVars, SupplyInv, SuppliesMove,
                PhotonInv, PhotonTypeOK, SupplyBounded, BondSupplyCoversBalances
  <2>2. CASE ~\E p \in PhotonParamSets : GovUpdatesPhoton(p)
    BY <1>2, <2>2, SupplyUntouched DEF GovEndBlock, UpdateFeeParams, UpdateMaxGas, SupplyInv
  <2> QED
    BY <2>1, <2>2
<1>3. CASE BeginBlock
  <2>1. collector' \in [Denoms -> Nat]
    BY <1>3 DEF BeginBlock, NoFees
  <2>2. CASE UNCHANGED photonVars
    BY <2>1, <2>2, SupplyUntouched
  <2>3. CASE \E a \in Accounts, n \in Rewards : Reward(a, n)
    BY <2>1, <2>3, RewardSupply DEF SupplyInv, SuppliesMove
  <2> QED
    BY <1>3, <2>2, <2>3 DEF BeginBlock
<1>4. CASE Restart
  BY <1>4, SupplyUntouched DEF Restart, SupplyInv
<1>5. CASE UNCHANGED vars
  BY <1>5, SupplyUntouched DEF vars, feeVars, SupplyInv
<1> QED
  BY <1>1, <1>2, <1>3, <1>4, <1>5, TransactionSupply DEF Next

\* The invariant of the supplies under transactions; it needs no sound fee parameters.
THEOREM SupplyInvariance == Spec => []SupplyInv
<1>1. Init => SupplyInv
  BY PhotonInitInv DEF Init, SupplyInv, NoFees
<1> QED
  BY <1>1, SupplyStep, PTL DEF Spec

\* Whatever fees, grants and messages, some bond denom always remains, so no conversion
\* of a gas price and no mint ever divides by zero.
THEOREM FeesLeaveBondSupply == Spec => []BondSupplyCoversBalances
<1>1. SupplyInv => BondSupplyCoversBalances
  BY DEF SupplyInv, PhotonInv
<1> QED
  BY <1>1, SupplyInvariance, PTL

\* Transactions, fees and restarts implement the promises of x/photon.
THEOREM FeesRefineSupply == Spec => ImplementsPhotonSupply
<1>1. Init => Supplies!Init
  <2> SUFFICES ASSUME Init PROVE Supplies!Init
    OBVIOUS
  <2>1. SoundBank(bank)
    BY PhotonInitInv, PhotonInvParts DEF Init
  <2>2. Staked \in Nat \ {0} /\ MaxSupply \in Nat
    BY PhotonAssumption
  <2> QED
    BY <2>1, <2>2, BankParts, SpendableSum DEF Supplies!Init, SoundBank
<1>2. SupplyInv /\ [Next]_vars
        => [Supplies!Next]_<<bank.supply["bond"], bank.supply["photon"]>>
  BY SupplyStep DEF SuppliesMove, Supplies!Next
<1> QED
  BY <1>1, <1>2, SupplyInvariance, PTL DEF Spec, ImplementsPhotonSupply, Supplies!Spec

-----------------------------------------------------------------------------
(* What the fees are worth.                                                 *)

\* Every variable of transactions and fees keeps its type, under sound parameters.
THEOREM FeesTypeCorrect ==
    ASSUME SoundFeeParams
    PROVE  Spec => []FeesTypeOK
<1> DEFINE Flags == justEnabled \in BOOLEAN /\ halted \in BOOLEAN
<1>1. Init => Flags
  BY DEF Init
<1>2. FeeInv /\ Flags /\ [Next]_vars => Flags'
  <2> SUFFICES ASSUME FeeInv, Flags, [Next]_vars PROVE Flags'
    OBVIOUS
  <2>1. CASE Transactions
    BY <2>1 DEF Transactions, FailTx, DeliverTx
  <2>2. CASE EndBlock
    BY <2>2 DEF EndBlock, AveragePanics
  <2>3. CASE GovEndBlock
    BY <2>3 DEF GovEndBlock, UpdateFeeParams, GovUpdatesPhoton, UpdateMaxGas, feeVars
  <2>4. CASE BeginBlock
    BY <2>4 DEF BeginBlock
  <2>5. CASE Restart
    BY <2>5 DEF Restart, GenesisValid
  <2>6. CASE UNCHANGED vars
    BY <2>6 DEF vars, feeVars
  <2> QED
    BY <2>1, <2>2, <2>3, <2>4, <2>5, <2>6 DEF Next
<1>3. FeeInv /\ SupplyInv /\ Flags => FeesTypeOK
  BY DEF FeeInv, SupplyInv, PhotonInv, FeesTypeOK
<1> HIDE DEF Flags
<1> QED
  BY <1>1, <1>2, <1>3, FeeInvariance, SupplyInvariance, PTL DEF Spec

\* A ceiling is at least what it rounds.
LEMMA CeilCovers ==
    ASSUME NEW x \in Int
    PROVE  CeilInt(x) \in Int /\ ToDec(CeilInt(x)) >= x
<1>1. One \in Nat /\ One > 0
  BY OneAssumption
<1> DEFINE q == (-x) \div One
<1>2. q \in Int /\ One * q <= -x
  BY <1>1
<1>3. CeilInt(x) = -q
  BY DEF CeilInt
<1> HIDE DEF q
<1>4. (-q) * One = -(One * q)
  BY <1>1, <1>2
<1> QED
  BY <1>1, <1>2, <1>3, <1>4 DEF ToDec

\* The fee of one coin.
LEMMA OneCoinFee ==
    ASSUME NEW t \in Tx, Len(t.fee) = 1
    PROVE  FeeIn(t, t.fee[1].denom) = t.fee[1].amount /\ t.fee[1] \in Coin
<1> DEFINE d == t.fee[1].denom
           f == [i \in DOMAIN t.fee |-> t.fee[i].amount]
<1>1. t.fee \in Seq(Coin)
  BY TxFeesAssumption DEF Tx
<1>2. DOMAIN t.fee = {1} /\ t.fee[1] \in Coin
  BY <1>1
<1>3. {i \in DOMAIN t.fee : t.fee[i].denom = d} = {1}
  BY <1>2
<1>4. f[1] = t.fee[1].amount /\ t.fee[1].amount \in Nat
  BY <1>2 DEF Coin
<1> HIDE DEF f
<1>5. SumOver(f, {1}) = f[1]
  <2>1. IsFiniteSet({1})
    BY FS_Singleton
  <2>2. \A y \in {1} : f[y] \in Nat
    BY <1>4
  <2>3. SumOver(f, {1}) = SumOver(f, {1} \ {1}) + f[1]
    BY <2>1, <2>2, SumSplit
  <2>4. SumOver(f, {1} \ {1}) = 0
    <3>1. {1} \ {1} = {}
      OBVIOUS
    <3> QED
      BY <3>1, SumEmpty
  <2> QED
    BY <1>4, <2>3, <2>4
<1> QED
  BY <1>2, <1>3, <1>4, <1>5 DEF FeeIn, f

\* The conversion rate of a sound bank is an integer number of units.
LEMMA RateType ==
    ASSUME SoundBank(bank)
    PROVE  Rate(bank) \in Int
<1> DEFINE left == ToDec(MaxSupply) - ToDec(bank.supply["photon"])
           bond == ToDec(bank.supply["bond"])
<1>1. One \in Nat /\ One > 0 /\ MaxSupply \in Nat /\ Staked \in Nat \ {0}
  BY OneAssumption, PhotonAssumption
<1>2. bank.supply["bond"] \in Nat \ {0} /\ bank.supply["photon"] \in Nat
  BY <1>1, BankParts, SpendableSum DEF SoundBank
<1>3. left \in Int /\ bond \in Nat \ {0}
  BY <1>1, <1>2 DEF ToDec
<1> HIDE DEF left, bond
<1>4. Quo(left, bond) \in Int
  BY <1>3, QuoType
<1>5. Rate(bank) = IF left < 0 THEN 0 ELSE Quo(left, bond)
  BY DEF Rate, PhotonConversionRate, left, bond
<1> QED
  BY <1>4, <1>5

\* A transaction that the ante handler accepts pays, in photon, for the gas it consumes.
LEMMA FeePaysGas ==
    ASSUME SoundBank(bank), NEW t \in Tx, t.gas > 0, photonParams.TxFeeExceptions = <<>>,
           ValidateFee(t), DynamicfeeAnte(t),
           feeState.BaseGasPrice \in Nat, NEW used \in 1 .. t.gas
    PROVE  ToDec(FeeIn(t, "photon")) >= feeState.BaseGasPrice * used
<1> DEFINE price == feeState.BaseGasPrice
           coin == t.fee[1]
<1>1. Len(t.fee) = 1 /\ coin \in Coin /\ FeeIn(t, coin.denom) = coin.amount
  BY OneCoinFee DEF DynamicfeeAnte
<1>2. t.gas \in Nat /\ used \in Nat /\ used <= t.gas
  <2>1. t.gas \in Nat
    BY TxFeesAssumption DEF Tx
  <2> QED
    BY <2>1
<1>3. CheckTxFee(GetMinGasPrice(coin.denom), coin, t.gas)
  BY DEF DynamicfeeAnte
<1>4. ~AllowsAnyTxFee(t)
  <2>1. MsgTypes(t) # {}
    BY DEF Tx, MsgTypes
  <2>2. DOMAIN photonParams.TxFeeExceptions = {}
    OBVIOUS
  <2> QED
    BY <2>1, <2>2 DEF AllowsAnyTxFee
\* The price of photon is the base price, and the limit covers the consumption.
<1>5. CASE coin.denom = "photon"
  <2>1. GetMinGasPrice(coin.denom) = price
    BY <1>5 DEF GetMinGasPrice
  <2> HIDE DEF price, coin
  <2>2. price \in Nat
    BY DEF price
  <2>3. coin.amount \in Nat
    BY <1>1 DEF Coin
  <2>4. One \in Nat /\ One > 0
    BY OneAssumption
  <2>5. CASE price = 0
    <3>1. price * used = 0
      BY <1>2, <2>5
    <3>2. ToDec(coin.amount) >= 0
      BY <2>3, <2>4 DEF ToDec
    <3> QED
      BY <1>1, <1>5, <3>1, <3>2 DEF price
  <2>6. CASE price # 0
    <3>1. coin.amount >= CeilInt(price * t.gas)
      BY <1>3, <2>1, <2>6 DEF CheckTxFee, RequiredFee
    <3>2. price * t.gas \in Int /\ price * used \in Int /\ price * used <= price * t.gas
      BY <1>2, <2>2
    <3>3. CeilInt(price * t.gas) \in Int /\ ToDec(CeilInt(price * t.gas)) >= price * t.gas
      BY <3>2, CeilCovers
    <3> DEFINE c == CeilInt(price * t.gas)
    <3> HIDE DEF c
    <3>4. coin.amount * One >= c * One
      <4>1. c \in Int /\ coin.amount >= c
        BY <3>1, <3>3 DEF c
      <4> QED
        BY <2>3, <2>4, <4>1
    <3>5. ToDec(coin.amount) >= ToDec(c) /\ ToDec(c) >= price * t.gas /\ ToDec(c) \in Int
      BY <2>4, <3>3, <3>4 DEF ToDec, c
    <3>6. ToDec(coin.amount) \in Int
      BY <2>3, <2>4 DEF ToDec
    <3>7. ToDec(coin.amount) >= price * used
      BY <3>2, <3>5, <3>6
    <3> QED
      BY <1>1, <1>5, <3>7 DEF price
  <2> QED
    BY <2>5, <2>6
\* A coin of another denom is accepted only if its amount is zero, and no positive
\* price asks for nothing.
<1>6. CASE coin.denom # "photon"
  <2>1. coin.amount = 0
    BY <1>1, <1>4, <1>6 DEF ValidateFee
  <2>2. GetMinGasPrice(coin.denom) > 0
    BY <1>6 DEF DynamicfeeAnte
  <2> DEFINE gp == GetMinGasPrice(coin.denom)
  <2>3. 0 >= CeilInt(gp * t.gas)
    BY <1>3, <2>1, <2>2 DEF CheckTxFee, RequiredFee
  <2>4. gp \in Int
    <3>1. gp = Quo(price, Rate(bank)) /\ Rate(bank) > 0 /\ Rate(bank) \in Int
      BY <1>6, RateType DEF GetMinGasPrice, DynamicfeeAnte, Convertible
    <3> HIDE DEF price, gp
    <3>2. price \in Int
      BY DEF price
    <3> QED
      BY <3>1, <3>2, QuoType
  <2> HIDE DEF gp
  <2>5. gp * t.gas \in Int /\ gp * t.gas > 0
    BY <1>2, <2>2, <2>4 DEF gp
  <2>6. CeilInt(gp * t.gas) \in Int /\ ToDec(CeilInt(gp * t.gas)) >= gp * t.gas
    BY <2>5, CeilCovers
  <2> DEFINE c == CeilInt(gp * t.gas)
  <2> HIDE DEF c
  <2>7. c \in Int /\ 0 >= c /\ c * One > 0
    BY <2>3, <2>5, <2>6, OneAssumption DEF c, ToDec
  <2> QED
    BY <2>7, OneAssumption
<1> QED
  BY <1>5, <1>6

\* The fees of a block pay for its gas.  Only a transaction moves either side while the
\* slot holds gas: whatever follows EndBlock finds an empty slot.
LEMMA RevenueStep ==
    ASSUME SoundFeeParams, FeeInv, FeeInv', SupplyInv, SupplyInv', RevenueCoversGas,
           [Next]_vars
    PROVE  RevenueCoversGas'
<1>1. /\ collector \in [Denoms -> Nat] /\ collector' \in [Denoms -> Nat]
      /\ collector["photon"] \in Nat /\ collector'["photon"] \in Nat
  BY DEF SupplyInv, Denoms
<1>2. One \in Nat
  BY OneAssumption
<1>3. ToDec(collector["photon"]) \in Nat /\ ToDec(collector'["photon"]) \in Nat
  BY <1>1, <1>2 DEF ToDec
\* An empty slot has nothing to be paid.
<1>4. CASE feeState'.Window[feeState'.Index] = 0
  <2>1. feeState'.BaseGasPrice \in Int
    BY DEF FeeInv, FeeStates
  <2>2. feeState'.BaseGasPrice * feeState'.Window[feeState'.Index] = 0
    BY <1>4, <2>1
  <2>3. ToDec(collector["photon"])' = ToDec(collector'["photon"])
    BY DEF ToDec
  <2> QED
    BY <1>3, <2>2, <2>3 DEF RevenueCoversGas
<1>5. CASE \E t \in Tx : FailTx(t)
  <2>1. PICK t \in Tx : FailTx(t)
    BY <1>5
  <2>2. /\ photonParams' = photonParams /\ feeState' = feeState
        /\ collector'["photon"] = collector["photon"] + FeeIn(t, "photon")
    BY <2>1 DEF FailTx, Collected, Denoms
  <2>3. FeeIn(t, "photon") \in Nat
    BY FeeType DEF Denoms
  <2>4. ToDec(collector'["photon"]) >= ToDec(collector["photon"])
    BY <1>1, <1>2, <2>2, <2>3 DEF ToDec
  <2>5. feeState.BaseGasPrice * feeState.Window[feeState.Index] \in Int
    <3>1. feeState.BaseGasPrice \in Int /\ feeState.Window[feeState.Index] \in Int
      BY FeeInvParts DEF FeeInv, FeeStates
    <3> QED
      BY <3>1
  <2> QED
    BY <1>3, <2>2, <2>4, <2>5 DEF RevenueCoversGas, ToDec
<1>6. CASE \E t \in Tx : \E used \in 1 .. t.gas : DeliverTx(t, used)
  <2>1. PICK t \in Tx : \E used \in 1 .. t.gas : DeliverTx(t, used)
    BY <1>6
  <2>10. PICK used \in 1 .. t.gas : DeliverTx(t, used)
    BY <2>1
  <2>2. /\ photonParams' = photonParams
        /\ collector'["photon"] = collector["photon"] + FeeIn(t, "photon")
        /\ AnteHandle(t)
        /\ feeState' = IF CountsGas THEN Update(feeState, used) ELSE feeState
        /\ feeParams' = feeParams /\ phase' = phase
    BY <2>10 DEF DeliverTx, Collected, Denoms
  <2> DEFINE old == collector["photon"]
             paid == FeeIn(t, "photon")
             price == feeState.BaseGasPrice
             gas == feeState.Window[feeState.Index]
  <2>3. paid \in Nat /\ old \in Nat /\ price \in Int /\ gas \in Nat
    BY <1>1, FeeType, FeeInvParts DEF FeeInv, FeeStates, Denoms
  <2>4. SUFFICES ASSUME photonParams.TxFeeExceptions = <<>>
                 PROVE  ToDec(collector'["photon"])
                          >= feeState'.BaseGasPrice * feeState'.Window[feeState'.Index]
    BY <2>2 DEF RevenueCoversGas, ToDec
  <2>5. ToDec(old) >= price * gas
    BY <2>4 DEF RevenueCoversGas
  <2>6. ToDec(collector'["photon"]) = ToDec(old) + ToDec(paid)
    <3> HIDE DEF old, paid
    <3>1. collector'["photon"] = old + paid
      BY <2>2 DEF old, paid
    <3> QED
      BY <1>2, <2>3, <3>1 DEF ToDec
  <2>7. ToDec(paid) \in Nat /\ ToDec(old) \in Nat
    BY <1>2, <2>3 DEF ToDec
  <2>8. CASE ~CountsGas
    <3>1. feeState' = feeState
      BY <2>2, <2>8
    <3> HIDE DEF old, paid, price, gas
    <3>2. price * gas \in Int
      BY <2>3
    <3>3. ToDec(collector'["photon"]) >= price * gas
      BY <2>5, <2>6, <2>7, <3>2
    <3> QED
      BY <3>1, <3>3 DEF price, gas
  <2>9. CASE CountsGas
    <3>1. SoundBank(bank)
      BY PhotonInvParts DEF SupplyInv
    <3>2. ValidateFee(t) /\ DynamicfeeAnte(t) /\ t.gas > 0
      BY <2>2, <2>9 DEF AnteHandle, CountsGas, DynamicfeeAnte
    <3>3. price \in Nat
      <4>1. price >= feeParams.MinBaseGasPrice /\ feeParams.MinBaseGasPrice \in Int
            /\ feeParams.MinBaseGasPrice > 0
        BY TxFeesAssumption DEF FeeInv, PriceAndRateWithinParams, SoundFeeParams, FeeParams
      <4> HIDE DEF price
      <4> QED
        BY <2>3, <4>1
    <3>4. ToDec(paid) >= price * used
      BY <2>4, <3>1, <3>2, <3>3, FeePaysGas
    <3>5. used \in Nat
      <4>1. t.gas \in Nat
        BY TxFeesAssumption DEF Tx
      <4> QED
        BY <4>1
    <3>6. /\ feeState'.BaseGasPrice = price
          /\ feeState'.Window[feeState'.Index] = gas + used
      <4>1. feeState' = [feeState EXCEPT !.Window[feeState.Index] = @ + used]
        BY <2>2, <2>9 DEF Update
      <4>2. /\ feeState \in FeeStates(feeParams)
            /\ feeState.Index \in DOMAIN feeState.Window
        BY DEF FeeInv, WindowMatchesParams
      <4>3. /\ feeState'.Index = feeState.Index /\ feeState'.BaseGasPrice = price
            /\ feeState'.Window = [feeState.Window EXCEPT ![feeState.Index] = @ + used]
        BY <4>1, <4>2 DEF FeeStates
      <4> QED
        BY <4>2, <4>3
    <3> HIDE DEF old, paid, price, gas
    <3>7. /\ price * (gas + used) = (price * gas) + (price * used)
          /\ price * gas \in Int /\ price * used \in Int
      BY <2>3, <3>5
    <3>8. ToDec(collector'["photon"]) >= price * (gas + used)
      BY <2>5, <2>6, <2>7, <3>4, <3>7
    <3> QED
      BY <3>6, <3>8
  <2> QED
    BY <2>8, <2>9
<1>7. CASE UNCHANGED vars
  BY <1>7 DEF vars, photonVars, feeVars, RevenueCoversGas, ToDec
<1>8. CASE ~halted /\ (EndBlock \/ GovEndBlock \/ Restart)
  <2>1. phase' = "ended"
    BY <1>8 DEF EndBlock, GovEndBlock, UpdateFeeParams, GovUpdatesPhoton, UpdateMaxGas, feeVars,
                Restart
  <2>2. CASE ~halted'
    BY <1>4, <2>1, <2>2 DEF FeeInv, CurrentSlotCleared
  <2>3. CASE halted'
    <3>1. UNCHANGED <<photonVars, feeState, collector>>
      BY <1>8, <2>3 DEF EndBlock, GovEndBlock, UpdateFeeParams, GovUpdatesPhoton,
                        UpdateMaxGas, feeVars, Restart
    <3> QED
      BY <3>1 DEF photonVars, RevenueCoversGas, ToDec
  <2> QED
    BY <2>2, <2>3
<1>9. CASE ~halted /\ BeginBlock
  <2>1. feeState' = feeState /\ phase = "ended"
    BY <1>9 DEF BeginBlock
  <2> QED
    BY <1>4, <1>9, <2>1 DEF FeeInv, CurrentSlotCleared
<1> QED
  BY <1>5, <1>6, <1>7, <1>8, <1>9 DEF Next, Transactions

(***************************************************************************)
(* While only photon is accepted, the fees collected in a block pay for all *)
(* the gas counted in it at the price of the block, although fees are       *)
(* rounded up per transaction, taken for the limit and kept on failure.     *)
(***************************************************************************)
THEOREM RevenuePaysForGas ==
    ASSUME SoundFeeParams
    PROVE  Spec => []RevenueCoversGas
<1>1. Init => RevenueCoversGas
  <2> SUFFICES ASSUME Init PROVE RevenueCoversGas
    OBVIOUS
  <2>1. FeeInv
    BY FeeInitInv
  <2>2. collector["photon"] = 0 /\ feeState = NewState(feeParams)
    BY DEF Init, NoFees, Denoms
  <2>3. feeState.Window[feeState.Index] = 0 /\ feeState.BaseGasPrice \in Int
    BY <2>1, <2>2 DEF FeeInv, WindowMatchesParams, NewState, FeeStates
  <2>4. feeState.BaseGasPrice * feeState.Window[feeState.Index] = 0
    BY <2>3
  <2>5. ToDec(collector["photon"]) = 0
    BY <2>2, OneAssumption DEF ToDec
  <2> QED
    BY <2>4, <2>5 DEF RevenueCoversGas
<1>2. /\ FeeInv /\ FeeInv' /\ SupplyInv /\ SupplyInv' /\ RevenueCoversGas /\ [Next]_vars
        => RevenueCoversGas'
  BY RevenueStep
<1> QED
  BY <1>1, <1>2, FeeInvariance, SupplyInvariance, PTL DEF Spec
=============================================================================
