--------------------------- MODULE Photon_proofs ---------------------------
(***************************************************************************)
(* The supply of photon never exceeds its maximum, for every precision,     *)
(* maximum and bond denom supply below the precision, and x/photon keeps    *)
(* the promises of PhotonSupply.                                            *)
(***************************************************************************)
EXTENDS Photon, Sums_proofs

\* Rounding moves a natural number by at most half a unit of the result.
LEMMA ChopNatBounds ==
    ASSUME NEW x \in Nat
    PROVE  /\ ChopNat(x) \in Nat
           /\ 2 * (ChopNat(x) * One) <= 2 * x + One
<1> DEFINE q == x \div One
           r == x % One
<1>1. One \in Nat /\ One > 0
  BY OneAssumption
<1>2. q \in Nat /\ r \in 0 .. One - 1 /\ x = One * q + r
  BY <1>1
<1> HIDE DEF q, r
<1>3. ChopNat(x) = IF 2 * r > One \/ (2 * r = One /\ q % 2 = 1) THEN q + 1 ELSE q
  BY DEF ChopNat, q, r
<1>4. CASE ChopNat(x) = q
  <2>1. One * q \in Nat /\ q * One = One * q
    BY <1>1, <1>2
  <2> QED
    BY <1>1, <1>2, <1>4, <2>1
<1>5. CASE ChopNat(x) = q + 1 /\ 2 * r >= One
  <2>1. One * q \in Nat /\ (q + 1) * One = One * q + One
    BY <1>1, <1>2
  <2> QED
    BY <1>1, <1>2, <1>5, <2>1
<1> QED
  BY <1>1, <1>2, <1>3, <1>4, <1>5

\* A whole number of decimals is not changed by rounding.
LEMMA ChopExact ==
    ASSUME NEW k \in Nat
    PROVE  ChopNat(k * One) = k
<1>1. One \in Nat /\ One > 0
  BY OneAssumption
<1>2. k * One \in Nat
  BY <1>1
<1>3. /\ (k * One) \div One \in Nat /\ ((k * One) % One) \in 0 .. One - 1
      /\ k * One = One * ((k * One) \div One) + ((k * One) % One)
  BY <1>1, <1>2
<1>4. (k * One) \div One = k /\ (k * One) % One = 0
  BY <1>1, <1>3
<1> QED
  BY <1>1, <1>4 DEF ChopNat

\* A number less than half a unit above n rounds to at most n.
LEMMA ChopUpper ==
    ASSUME NEW z \in Nat, NEW n \in Nat, 2 * z < 2 * (n * One) + One
    PROVE  ChopNat(z) <= n
<1>1. One \in Nat /\ One > 0 /\ ChopNat(z) \in Nat
  BY OneAssumption, ChopNatBounds
<1>2. 2 * (ChopNat(z) * One) < 2 * (n * One) + 2 * One
  <2>1. ChopNat(z) * One \in Nat /\ n * One \in Nat
    BY <1>1
  <2> QED
    BY <1>1, <2>1, ChopNatBounds
<1>3. ChopNat(z) * One < (n + 1) * One
  <2>1. ChopNat(z) * One \in Nat /\ n * One \in Nat /\ (n + 1) * One = n * One + One
    BY <1>1
  <2> QED
    BY <1>1, <1>2, <2>1
<1> QED
  BY <1>1, <1>3

\* And it moves it by at least as little downwards.
LEMMA ChopNatLower ==
    ASSUME NEW x \in Nat
    PROVE  2 * x <= 2 * (ChopNat(x) * One) + One
<1> DEFINE q == x \div One
           r == x % One
<1>1. One \in Nat /\ One > 0
  BY OneAssumption
<1>2. q \in Nat /\ r \in 0 .. One - 1 /\ x = One * q + r
  BY <1>1
<1> HIDE DEF q, r
<1>3. ChopNat(x) = IF 2 * r > One \/ (2 * r = One /\ q % 2 = 1) THEN q + 1 ELSE q
  BY DEF ChopNat, q, r
<1>4. One * q \in Nat /\ q * One = One * q /\ (q + 1) * One = One * q + One
  BY <1>1, <1>2
<1>5. CASE ChopNat(x) = q /\ 2 * r <= One
  BY <1>1, <1>2, <1>4, <1>5
<1>6. CASE ChopNat(x) = q + 1
  BY <1>1, <1>2, <1>4, <1>6
<1> QED
  BY <1>1, <1>2, <1>3, <1>5, <1>6

\* Products of inequalities, for the provers.
LEMMA TimesMonotone ==
    ASSUME NEW x \in Int, NEW y \in Int, NEW k \in Nat, x <= y
    PROVE  x * k <= y * k /\ x * k \in Int /\ y * k \in Int
OBVIOUS

\* One more factor adds the other one.
LEMMA TimesSuccessor ==
    ASSUME NEW m \in Nat, NEW n \in Nat
    PROVE  m * n \in Nat /\ (m + 1) * n = m * n + n
OBVIOUS

LEMMA TimesCancel ==
    ASSUME NEW x \in Int, NEW y \in Int, NEW k \in Nat \ {0}
    PROVE  /\ x * k <= y * k => x <= y
           /\ x * k < y * k => x < y
OBVIOUS

(***************************************************************************)
(* Quo of two integers is their quotient to half a unit above, and to half  *)
(* a unit and one in One * One below, because it truncates before it        *)
(* rounds.                                                                  *)
(***************************************************************************)
LEMMA QuoBounds ==
    ASSUME NEW num \in Nat, NEW den \in Nat \ {0}
    PROVE  LET quo == Quo(num * One, den * One)
           IN  /\ quo \in Nat
               /\ 2 * (quo * den) <= 2 * (num * One) + den
               /\ 2 * ((num * One) * One) < 2 * ((quo * den) * One) + (One + 2) * den
<1> DEFINE y   == (num * One * One * One) \div (den * One)
           quo == ChopNat(y)
<1>1. One \in Nat /\ One > 1 /\ num \in Nat /\ den \in Nat /\ den > 0
  BY OneAssumption
<1>2. Quo(num * One, den * One) = quo
  <2>1. ~(num * One < 0)
    BY <1>1
  <2> QED
    BY <2>1 DEF Quo
<1> DEFINE v == num * One
           w == num * One * One
<1>3. v \in Nat /\ w \in Nat /\ w = v * One
  BY <1>1
<1>4. y \in Nat /\ y * den <= w /\ w < (y + 1) * den
  <2> DEFINE n == num * One * One * One
             d == den * One
  <2>1. n \in Nat /\ d \in Nat /\ d > 0
    BY <1>1, <1>3
  <2> HIDE DEF n, d
  <2>2. n \div d \in Nat /\ d * (n \div d) <= n /\ n < d * ((n \div d) + 1)
    BY <2>1
  <2>3. y = n \div d
    BY DEF n, d
  <2> HIDE DEF y
  <2>4. y \in Nat /\ (den * One) * y <= w * One /\ w * One < (den * One) * (y + 1)
    BY <2>2, <2>3 DEF n, d
  <2> HIDE DEF v, w
  <2>5. /\ y * den \in Int /\ (den * One) * y = (y * den) * One
        /\ (y + 1) * den \in Int /\ (den * One) * (y + 1) = ((y + 1) * den) * One
    BY <1>1, <2>4
  <2> DEFINE s == y * den
             t == (y + 1) * den
  <2> HIDE DEF s, t
  <2>6. s * One <= w * One /\ w * One < t * One /\ s \in Int /\ t \in Int
    BY <2>4, <2>5 DEF s, t
  <2>7. s <= w /\ w < t
    BY <1>1, <1>3, <2>6, TimesCancel
  <2> QED
    BY <2>4, <2>7 DEF s, t
<1> HIDE DEF y
<1>5. quo \in Nat /\ 2 * (quo * One) <= 2 * y + One /\ 2 * y <= 2 * (quo * One) + One
  BY <1>4, ChopNatBounds, ChopNatLower
<1> HIDE DEF quo, v, w
<1> DEFINE R == quo * den
<1>6. R \in Nat /\ y * den \in Nat /\ (y + 1) * den = y * den + den /\ One * den \in Nat
  <2>1. R \in Nat
    BY <1>1, <1>5
  <2>2. y * den \in Nat /\ (y + 1) * den = y * den + den
    <3>1. y \in Nat /\ den \in Nat
      BY <1>1, <1>4
    <3> QED
      BY <3>1, TimesSuccessor
  <2>3. One * den \in Nat
    BY <1>1
  <2> QED
    BY <2>1, <2>2, <2>3
<1>7. (2 * (quo * One)) * den <= (2 * y + One) * den
  <2> DEFINE s == 2 * (quo * One)
             t == 2 * y + One
  <2>1. s \in Int /\ t \in Int /\ s <= t
    BY <1>1, <1>4, <1>5
  <2> HIDE DEF s, t
  <2> QED
    BY <1>1, <2>1, TimesMonotone DEF s, t
<1>8. (2 * y) * den <= (2 * (quo * One) + One) * den
  <2> DEFINE s == 2 * y
             t == 2 * (quo * One) + One
  <2>1. s \in Int /\ t \in Int /\ s <= t
    BY <1>1, <1>4, <1>5
  <2> HIDE DEF s, t
  <2> QED
    BY <1>1, <2>1, TimesMonotone DEF s, t
<1>9. /\ (2 * (quo * One)) * den = 2 * (R * One)
      /\ (2 * (quo * One) + One) * den = 2 * (R * One) + One * den
      /\ (2 * y + One) * den = 2 * (y * den) + One * den
      /\ (2 * y) * den = 2 * (y * den)
      /\ (2 * v + den) * One = 2 * w + One * den
      /\ (One + 2) * den = One * den + 2 * den
  BY <1>1, <1>3, <1>4, <1>5
<1> HIDE DEF R
<1>10. R * One \in Nat
  BY <1>1, <1>6
<1>11. 2 * R <= 2 * v + den
  <2> DEFINE s == 2 * R
             t == 2 * v + den
  <2>1. s \in Int /\ t \in Int /\ s * One = 2 * (R * One) /\ t * One = 2 * w + One * den
    BY <1>1, <1>3, <1>6, <1>9
  <2>2. s * One <= t * One
    BY <1>3, <1>4, <1>6, <1>7, <1>9, <1>10, <2>1
  <2> HIDE DEF s, t
  <2>3. s <= t
    BY <1>1, <2>1, <2>2, TimesCancel
  <2> QED
    BY <2>3 DEF s, t
<1>12. 2 * w < 2 * (R * One) + (One + 2) * den
  BY <1>1, <1>3, <1>4, <1>6, <1>8, <1>9, <1>10
<1> QED
  BY <1>2, <1>5, <1>11, <1>12 DEF R, v, w

(***************************************************************************)
(* The conversion rate is the quotient of what is left and the bond denom   *)
(* supply, as precisely.                                                    *)
(***************************************************************************)
LEMMA RateBounds ==
    ASSUME NEW b \in Bank, NEW bond, bond = b.supply["bond"], bond > 0,
           NEW remain, remain = MaxSupply - b.supply["photon"], remain >= 0
    PROVE  /\ Rate(b) \in Nat /\ bond \in Nat \ {0} /\ remain \in Nat
           /\ 2 * (Rate(b) * bond) <= 2 * (remain * One) + bond
           /\ 2 * ((remain * One) * One) <= 2 * ((Rate(b) * bond) * One) + (One + 2) * bond
<1> DEFINE photon == b.supply["photon"]
           quo    == Quo(remain * One, bond * One)
<1>1. /\ One \in Nat /\ MaxSupply \in Nat
      /\ bond \in Nat \ {0} /\ photon \in Nat
      /\ remain \in Nat /\ remain = MaxSupply - photon
  BY OneAssumption, PhotonAssumption DEF Bank, Denoms
<1>2. Rate(b) = quo
  <2>1. MaxSupply * One - photon * One = remain * One
    BY <1>1
  <2>2. ~(remain * One < 0)
    BY <1>1
  <2> HIDE DEF quo
  <2>3. PhotonConversionRate(bond, photon) = quo
    <3>1. ToDec(MaxSupply) - ToDec(photon) = remain * One /\ ToDec(bond) = bond * One
      BY <2>1 DEF ToDec
    <3> HIDE DEF photon
    <3> QED
      BY <2>2, <3>1 DEF PhotonConversionRate, quo
  <2> QED
    BY <2>3 DEF Rate
<1>3. /\ quo \in Nat
      /\ 2 * (quo * bond) <= 2 * (remain * One) + bond
      /\ 2 * ((remain * One) * One) < 2 * ((quo * bond) * One) + (One + 2) * bond
  BY <1>1, QuoBounds
<1> HIDE DEF quo
<1>4. (remain * One) * One \in Int /\ (quo * bond) * One \in Int /\ (One + 2) * bond \in Int
  <2>1. remain * One \in Int /\ quo * bond \in Int
    BY <1>1, <1>3
  <2> QED
    BY <1>1, <2>1
<1> QED
  BY <1>1, <1>2, <1>3, <1>4

\* MintPhoton rounds the product of amount and rate to the nearest integer.
LEMMA MintRounds ==
    ASSUME NEW b, NEW amount \in Nat, Rate(b) \in Nat
    PROVE  /\ amount * Rate(b) \in Nat
           /\ UphotonToMint(b, amount) = ChopNat(amount * Rate(b))
<1> DEFINE rate == Rate(b)
           z == amount * rate
<1> HIDE DEF rate
<1>1. One \in Nat /\ rate \in Nat
  BY OneAssumption DEF rate
<1>2. z \in Nat
  BY <1>1
<1>3. Mul(ToDec(amount), rate) = z
  <2>1. (amount * One) * rate = z * One
    BY <1>1
  <2> HIDE DEF z
  <2>2. ~(z * One < 0)
    BY <1>1, <1>2
  <2>3. ChopRound(z * One) = z
    BY <1>2, <2>2, ChopExact, Zenon DEF ChopRound
  <2> QED
    BY <2>1, <2>3 DEF Mul, ToDec
<1> HIDE DEF z
<1>4. ChopRound(z) = ChopNat(z)
  BY <1>2 DEF ChopRound
<1>5. UphotonToMint(b, amount) = ChopNat(z)
  BY <1>3, <1>4 DEF UphotonToMint, RoundInt, rate
<1> QED
  BY <1>2, <1>5 DEF z, rate

(***************************************************************************)
(* MintPhoton never mints more than what is left, if it burns no more than  *)
(* the bond denom supply: the two roundings together stay below a half,     *)
(* because the bond denom supply is below the precision.                    *)
(***************************************************************************)
LEMMA MintBounded ==
    ASSUME NEW b \in Bank, NEW amount \in Nat,
           b.supply["bond"] > 0, b.supply["bond"] < One,
           amount <= b.supply["bond"],
           b.supply["photon"] <= MaxSupply
    PROVE  UphotonToMint(b, amount) \in 0 .. MaxSupply - b.supply["photon"]
<1> DEFINE bond   == b.supply["bond"]
           remain == MaxSupply - b.supply["photon"]
           rate   == Rate(b)
           z      == amount * rate
<1>1. One \in Nat /\ One > 1 /\ remain >= 0 /\ bond > 0
  BY OneAssumption, PhotonAssumption DEF Bank, Denoms
<1>2. /\ rate \in Nat /\ bond \in Nat \ {0} /\ remain \in Nat
      /\ 2 * (rate * bond) <= 2 * (remain * One) + bond
  BY <1>1, RateBounds
<1>3. UphotonToMint(b, amount) = ChopNat(z) /\ z \in Nat
  BY <1>2, MintRounds
<1>4. amount <= bond /\ bond < One
  OBVIOUS
<1> HIDE DEF bond, remain, rate
<1>5. z <= rate * bond
  BY <1>2, <1>4
<1>6. 2 * z < 2 * (remain * One) + One
  <2>1. remain * One \in Nat /\ rate * bond \in Nat
    BY <1>1, <1>2
  <2> QED
    BY <1>1, <1>2, <1>3, <1>4, <1>5, <2>1
<1> HIDE DEF z
<1>7. ChopNat(z) \in Nat /\ ChopNat(z) <= remain
  BY <1>1, <1>2, <1>3, <1>6, ChopNatBounds, ChopUpper
<1> QED
  BY <1>2, <1>3, <1>7 DEF remain

(***************************************************************************)
(* What MintPhoton mints differs from the exact quotient by less than one,  *)
(* if it burns at least two below the precision.                            *)
(***************************************************************************)
LEMMA MintNearQuotient ==
    ASSUME NEW b \in Bank, NEW amount \in Nat, amount + 2 <= One,
           NEW bond, bond = b.supply["bond"], bond > 0,
           NEW remain, remain = MaxSupply - b.supply["photon"], remain >= 0
    PROVE  /\ UphotonToMint(b, amount) * bond < amount * remain + bond
           /\ amount * remain < UphotonToMint(b, amount) * bond + bond
<1> DEFINE rate == Rate(b)
           m    == UphotonToMint(b, amount)
           R    == rate * bond
           A    == amount * remain
           B    == m * bond
<1>1. One \in Nat /\ One > 1
  BY OneAssumption
<1>2. /\ rate \in Nat /\ bond \in Nat \ {0} /\ remain \in Nat
      /\ 2 * R <= 2 * (remain * One) + bond
      /\ 2 * ((remain * One) * One) <= 2 * (R * One) + (One + 2) * bond
  BY RateBounds
<1>3. m = ChopNat(amount * rate) /\ amount * rate \in Nat
  BY <1>2, MintRounds
<1>4. /\ m \in Nat
      /\ 2 * (m * One) <= 2 * (amount * rate) + One
      /\ 2 * (amount * rate) <= 2 * (m * One) + One
  BY <1>3, ChopNatBounds, ChopNatLower
<1> HIDE DEF rate, m
<1>5. R \in Nat /\ A \in Nat /\ B \in Nat
  BY <1>2, <1>4
\* The rounding of the product, times the bond denom supply.
<1>6. 2 * (B * One) <= 2 * (amount * R) + One * bond
  <2> DEFINE s == 2 * (m * One)
             t == 2 * (amount * rate) + One
  <2>1. s \in Int /\ t \in Int /\ s <= t
    BY <1>1, <1>3, <1>4
  <2>2. s * bond = 2 * (B * One) /\ t * bond = 2 * (amount * R) + One * bond
    BY <1>1, <1>2, <1>4
  <2> HIDE DEF s, t
  <2>3. s * bond <= t * bond
    BY <1>2, <2>1, TimesMonotone
  <2> QED
    BY <2>2, <2>3
<1>7. 2 * (amount * R) <= 2 * (B * One) + One * bond
  <2> DEFINE s == 2 * (amount * rate)
             t == 2 * (m * One) + One
  <2>1. s \in Int /\ t \in Int /\ s <= t
    BY <1>1, <1>3, <1>4
  <2>2. s * bond = 2 * (amount * R) /\ t * bond = 2 * (B * One) + One * bond
    BY <1>1, <1>2, <1>4
  <2> HIDE DEF s, t
  <2>3. s * bond <= t * bond
    BY <1>2, <2>1, TimesMonotone
  <2> QED
    BY <2>2, <2>3
\* The rounding of the rate, times the amount.
<1>8. 2 * (amount * R) <= 2 * (A * One) + amount * bond
  <2> DEFINE s == 2 * R
             t == 2 * (remain * One) + bond
  <2>1. s \in Int /\ t \in Int /\ s <= t
    BY <1>1, <1>2, <1>5
  <2>2. s * amount = 2 * (amount * R) /\ t * amount = 2 * (A * One) + amount * bond
    BY <1>1, <1>2, <1>5
  <2> HIDE DEF s, t
  <2>3. s * amount <= t * amount
    BY <2>1, TimesMonotone
  <2> QED
    BY <2>2, <2>3
<1>9. 2 * ((A * One) * One) <= 2 * ((amount * R) * One) + (amount * (One + 2)) * bond
  <2> DEFINE s == 2 * ((remain * One) * One)
             t == 2 * (R * One) + (One + 2) * bond
  <2>1. s \in Int /\ t \in Int /\ s <= t
    BY <1>1, <1>2, <1>5
  <2>2. s * amount = 2 * ((A * One) * One)
    <3>1. remain \in Nat /\ amount \in Nat /\ One \in Nat
      BY <1>1, <1>2
    <3> QED
      BY <3>1
  <2>3. t * amount = 2 * ((amount * R) * One) + (amount * (One + 2)) * bond
    <3>1. R \in Nat /\ One \in Nat /\ bond \in Nat /\ amount \in Nat
      BY <1>1, <1>2, <1>5
    <3> HIDE DEF R
    <3> DEFINE p == R * One
               q == (One + 2) * bond
    <3>2. p \in Nat /\ p * amount = (amount * R) * One
      BY <3>1
    <3>3. q \in Nat /\ q * amount = (amount * (One + 2)) * bond
      BY <3>1
    <3> HIDE DEF p, q
    <3>4. (2 * p + q) * amount = 2 * (p * amount) + q * amount
      BY <3>1, <3>2, <3>3
    <3>5. t = 2 * p + q
      BY DEF p, q
    <3> QED
      BY <3>2, <3>3, <3>4, <3>5
  <2> HIDE DEF s, t
  <2>4. s * amount <= t * amount
    BY <2>1, TimesMonotone
  <2> QED
    BY <2>2, <2>3, <2>4
<1> DEFINE C == amount * R
<1>10. C \in Nat
  BY <1>5
<1> HIDE DEF R, A, B, C
<1>11. B < A + bond
  <2>1. amount * bond < One * bond /\ amount * bond \in Int /\ One * bond \in Int
    BY <1>1, <1>2
  <2>2. A * One \in Int /\ B * One \in Int
    BY <1>1, <1>5
  <2>3. B * One < A * One + One * bond
    BY <1>6, <1>8, <1>10, <2>1, <2>2 DEF C
  <2>4. (A + bond) * One = A * One + One * bond /\ A + bond \in Int
    BY <1>1, <1>2, <1>5
  <2> QED
    BY <1>1, <1>5, <2>3, <2>4, TimesCancel
<1>12. A < B + bond
  <2> DEFINE k == One * One
  <2>1. k \in Nat \ {0}
    BY <1>1
  <2>2. amount * (One + 2) < k /\ amount * (One + 2) \in Nat
    <3>1. amount * (One + 2) <= (One - 2) * (One + 2)
      BY <1>1
    <3>2. (One - 2) * (One + 2) = k - 4
      BY <1>1
    <3> QED
      BY <1>1, <2>1, <3>1, <3>2
  <2>3. (A * One) * One = A * k /\ (B * One) * One = B * k /\ (One * bond) * One = k * bond
    BY <1>1, <1>2, <1>5
  <2>4. (C * One) \in Int /\ 2 * (C * One) <= 2 * ((B * One) * One) + (One * bond) * One
    <3> DEFINE s == 2 * C
               t == 2 * (B * One) + One * bond
    <3>1. s \in Int /\ t \in Int /\ s <= t
      BY <1>1, <1>2, <1>5, <1>7, <1>10 DEF C
    <3>2. s * One = 2 * (C * One) /\ t * One = 2 * ((B * One) * One) + (One * bond) * One
      BY <1>1, <1>2, <1>5, <1>10
    <3> HIDE DEF s, t
    <3>3. s * One <= t * One
      BY <1>1, <3>1, TimesMonotone
    <3> QED
      BY <1>1, <1>10, <3>2, <3>3
  <2> DEFINE a == amount * (One + 2)
  <2>5. 2 * (A * k) <= 2 * (C * One) + a * bond
    BY <1>9, <2>3 DEF C
  <2> HIDE DEF k, a
  <2>6. a * bond < k * bond /\ a * bond \in Int /\ k * bond \in Int
    BY <1>2, <2>1, <2>2 DEF a
  <2>7. A * k \in Int /\ B * k \in Int
    BY <1>5, <2>1
  <2>8. A * k < B * k + k * bond
    BY <2>3, <2>4, <2>5, <2>6, <2>7
  <2>9. (B + bond) * k = B * k + k * bond /\ B + bond \in Int
    BY <1>2, <1>5, <2>1
  <2> QED
    BY <1>5, <2>1, <2>8, <2>9, TimesCancel
<1> QED
  BY <1>11, <1>12 DEF A, B, m

-----------------------------------------------------------------------------
\* The invariant: the parts need each other, and each run checks them by name.
PhotonInv == PhotonTypeOK /\ SupplyBounded /\ BondSupplyCoversBalances

\* What the type of a bank says of its parts.
LEMMA BankParts ==
    ASSUME NEW b \in Bank
    PROVE  /\ b.bal["bond"] \in [Accounts -> Nat] /\ b.bal["photon"] \in [Accounts -> Nat]
           /\ b.supply["bond"] \in Nat /\ b.supply["photon"] \in Nat
BY DEF Bank, Denoms

\* The sum of the spendable bond denom is a natural number covering every balance.
LEMMA SpendableSum ==
    ASSUME NEW b \in Bank
    PROVE  /\ SumOver(b.bal["bond"], Accounts) \in Nat
           /\ \A a \in Accounts : b.bal["bond"][a] <= SumOver(b.bal["bond"], Accounts)
<1> DEFINE f == b.bal["bond"]
<1>1. IsFiniteSet(Accounts)
  BY PhotonAssumption
<1>2. \A a \in Accounts : f[a] \in Nat
  BY BankParts
<1> HIDE DEF f
<1>3. SumOver(f, Accounts) \in Nat
  BY <1>1, <1>2, SumType, Zenon
<1>4. \A a \in Accounts : f[a] <= SumOver(f, Accounts)
  BY <1>1, <1>2, SumBound, Zenon
<1> QED
  BY <1>3, <1>4 DEF f

\* An update of one balance changes the sum by as much.
LEMMA SpendableUpdate ==
    ASSUME NEW b \in Bank, NEW c \in Bank, NEW a \in Accounts, NEW n \in Int,
           c.bal["bond"] = [b.bal["bond"] EXCEPT ![a] = @ + n]
    PROVE  SumOver(c.bal["bond"], Accounts) = SumOver(b.bal["bond"], Accounts) + n
<1> DEFINE f == b.bal["bond"]
           g == c.bal["bond"]
<1>1. /\ f \in [Accounts -> Nat] /\ g \in [Accounts -> Nat]
      /\ g[a] = f[a] + n /\ \A x \in Accounts : x # a => g[x] = f[x]
  BY BankParts
<1>2. SumOver(f, Accounts) \in Nat
  BY SpendableSum
<1> HIDE DEF f, g
<1>3. IsFiniteSet(Accounts)
  BY PhotonAssumption
<1>4. SumOver(g, Accounts) = SumOver(f, Accounts) - f[a] + g[a]
  <2>1. \A y \in Accounts : f[y] \in Nat /\ g[y] \in Nat
    BY <1>1
  <2>2. \A y \in Accounts : y # a => g[y] = f[y]
    BY <1>1
  <2> QED
    BY <1>3, <2>1, <2>2, SumUpdate
<1>5. f[a] \in Nat
  BY <1>1
<1> QED
  BY <1>1, <1>2, <1>4, <1>5 DEF f, g

(***************************************************************************)
(* What MintPhoton does to a bank that satisfies the invariant, wherever it *)
(* is called: the invariant holds again, some bond denom is burned and at   *)
(* least as much remains as is bonded, and some photon is minted.           *)
(***************************************************************************)
LEMMA MintKeepsBank ==
    ASSUME NEW b \in Bank, NEW p, NEW a \in Accounts, NEW amount \in Nat \ {0},
           CanMint(b, p, a, amount),
           b.supply["photon"] <= MaxSupply,
           b.supply["bond"] <= MaxBond,
           b.supply["bond"] >= Staked + SumOver(b.bal["bond"], Accounts),
           NEW c, c = AfterMint(b, a, amount)
    PROVE  /\ c \in Bank
           /\ c.supply["photon"] <= MaxSupply
           /\ c.supply["bond"] <= MaxBond
           /\ c.supply["bond"] >= Staked + SumOver(c.bal["bond"], Accounts)
           /\ c.supply["bond"] < b.supply["bond"] /\ c.supply["bond"] > 0
           /\ c.supply["photon"] > b.supply["photon"]
<1> DEFINE minted == UphotonToMint(b, amount)
<1>1. /\ Staked \in Nat \ {0} /\ MaxBond \in Nat /\ MaxBond < One /\ MaxSupply \in Nat
      /\ One \in Nat
  BY PhotonAssumption, PrecisionAssumption, OneAssumption
<1>2. amount <= b.bal["bond"][a] /\ minted # 0
  BY BankParts DEF CanMint
<1>3. amount + Staked <= b.supply["bond"]
  BY <1>1, <1>2, BankParts, SpendableSum
<1>4. minted \in 1 .. MaxSupply - b.supply["photon"]
  <2>1. /\ b.supply["bond"] > 0 /\ b.supply["bond"] < One
        /\ amount \in Nat /\ amount <= b.supply["bond"]
    BY <1>1, <1>3, BankParts
  <2>2. minted \in 0 .. MaxSupply - b.supply["photon"]
    BY <2>1, MintBounded
  <2> QED
    BY <1>1, <1>2, <2>2, BankParts
<1> HIDE DEF minted
<1>5. /\ c.bal["bond"] = [b.bal["bond"] EXCEPT ![a] = @ - amount]
      /\ c.bal["photon"] = [b.bal["photon"] EXCEPT ![a] = @ + minted]
      /\ c.supply["bond"] = b.supply["bond"] - amount
      /\ c.supply["photon"] = b.supply["photon"] + minted
  BY DEF AfterMint, Bank, Denoms, minted
<1>6. c \in Bank
  <2>1. /\ c.bal["bond"] \in [Accounts -> Nat] /\ c.bal["photon"] \in [Accounts -> Nat]
        /\ c.supply["bond"] \in Nat /\ c.supply["photon"] \in Nat
    BY <1>1, <1>2, <1>3, <1>4, <1>5, BankParts
  <2>2. /\ DOMAIN c.bal = Denoms /\ DOMAIN c.supply = Denoms
        /\ c.bal = [d \in Denoms |-> c.bal[d]] /\ c.supply = [d \in Denoms |-> c.supply[d]]
        /\ c = [bal |-> c.bal, supply |-> c.supply]
    BY DEF AfterMint, Bank, Denoms
  <2> QED
    BY <2>1, <2>2 DEF Bank, Denoms
<1>7. SumOver(c.bal["bond"], Accounts) = SumOver(b.bal["bond"], Accounts) - amount
  <2>1. c.bal["bond"] = [b.bal["bond"] EXCEPT ![a] = @ + (-amount)]
    BY <1>5, BankParts
  <2>2. SumOver(c.bal["bond"], Accounts) = SumOver(b.bal["bond"], Accounts) + (-amount)
    BY <1>6, <2>1, SpendableUpdate
  <2> QED
    BY <2>2, SpendableSum
<1> QED
  BY <1>1, <1>3, <1>4, <1>5, <1>6, <1>7, BankParts, SpendableSum

\* The genesis state satisfies the invariant.
LEMMA PhotonInitInv == PhotonInit => PhotonInv
<1> SUFFICES ASSUME PhotonInit PROVE PhotonInv
  OBVIOUS
<1>1. IsFiniteSet(Accounts)
  BY PhotonAssumption
<1>2. SumOver(InitBond, Accounts) \in Nat
  <2>1. \A a \in Accounts : InitBond[a] \in Nat
    BY PhotonAssumption
  <2> QED
    BY <1>1, <2>1, SumType, Zenon
<1>3. SumOver(InitPhoton, Accounts) \in Nat
  <2>1. \A a \in Accounts : InitPhoton[a] \in Nat
    BY PhotonAssumption
  <2> QED
    BY <1>1, <2>1, SumType, Zenon
<1>4. /\ bank.bal["bond"] = InitBond
      /\ bank.supply["bond"] = Staked + SumOver(InitBond, Accounts)
      /\ bank.supply["photon"] = SumOver(InitPhoton, Accounts)
  BY DEF PhotonInit, Denoms
<1>5. bank \in Bank
  BY <1>2, <1>3, PhotonAssumption DEF PhotonInit, Bank, Denoms
<1>6. SupplyBounded
  BY <1>4, PhotonAssumption DEF SupplyBounded
<1>7. BondSupplyCoversBalances
  BY <1>2, <1>4, PhotonAssumption DEF BondSupplyCoversBalances
<1> QED
  BY <1>5, <1>6, <1>7 DEF PhotonInv, PhotonTypeOK, PhotonInit

\* A reward keeps the bank's part of the invariant.
LEMMA RewardKeepsBank ==
    ASSUME NEW b \in Bank, NEW a \in Accounts, NEW n \in Nat \ {0},
           b.supply["bond"] + n <= MaxBond,
           b.supply["bond"] >= Staked + SumOver(b.bal["bond"], Accounts),
           NEW c, c = AfterReward(b, a, n)
    PROVE  /\ c \in Bank
           /\ c.supply["photon"] = b.supply["photon"]
           /\ c.supply["bond"] = b.supply["bond"] + n
           /\ c.supply["bond"] >= Staked + SumOver(c.bal["bond"], Accounts)
<1>1. /\ c.bal["bond"] = [b.bal["bond"] EXCEPT ![a] = @ + n]
      /\ c.bal["photon"] = b.bal["photon"]
      /\ c.supply["bond"] = b.supply["bond"] + n
      /\ c.supply["photon"] = b.supply["photon"]
  BY DEF AfterReward, Bank, Denoms
<1>2. c \in Bank
  <2>1. /\ c.bal["bond"] \in [Accounts -> Nat] /\ c.bal["photon"] \in [Accounts -> Nat]
        /\ c.supply["bond"] \in Nat /\ c.supply["photon"] \in Nat
    BY <1>1, BankParts
  <2>2. /\ DOMAIN c.bal = Denoms /\ DOMAIN c.supply = Denoms
        /\ c.bal = [d \in Denoms |-> c.bal[d]] /\ c.supply = [d \in Denoms |-> c.supply[d]]
        /\ c = [bal |-> c.bal, supply |-> c.supply]
    BY DEF AfterReward, Bank, Denoms
  <2> QED
    BY <2>1, <2>2 DEF Bank, Denoms
<1>3. SumOver(c.bal["bond"], Accounts) = SumOver(b.bal["bond"], Accounts) + n
  BY <1>1, <1>2, SpendableUpdate
<1>4. Staked \in Nat
  BY PhotonAssumption
<1> QED
  BY <1>1, <1>2, <1>3, <1>4, BankParts, SpendableSum

\* Every step of x/photon keeps the invariant.
LEMMA PhotonNextInv == PhotonInv /\ [PhotonNext]_photonVars => PhotonInv'
<1> SUFFICES ASSUME PhotonInv, [PhotonNext]_photonVars PROVE PhotonInv'
  OBVIOUS
<1>1. /\ bank \in Bank /\ photonParams \in PhotonParamSets
      /\ bank.supply["photon"] <= MaxSupply
      /\ bank.supply["bond"] <= MaxBond
      /\ bank.supply["bond"] >= Staked + SumOver(bank.bal["bond"], Accounts)
  BY DEF PhotonInv, PhotonTypeOK, SupplyBounded, BondSupplyCoversBalances
<1>2. ASSUME NEW a \in Accounts, NEW amount \in Burns, MintPhoton(a, amount)
      PROVE  PhotonInv'
  <2>1. amount \in Nat \ {0}
    BY PhotonAssumption
  <2>2. /\ CanMint(bank, photonParams, a, amount)
        /\ bank' = AfterMint(bank, a, amount) /\ photonParams' = photonParams
    BY <1>2 DEF MintPhoton
  <2>3. /\ bank' \in Bank
        /\ bank'.supply["photon"] <= MaxSupply
        /\ bank'.supply["bond"] <= MaxBond
        /\ bank'.supply["bond"] >= Staked + SumOver(bank'.bal["bond"], Accounts)
    BY <1>1, <2>1, <2>2, MintKeepsBank
  <2> QED
    BY <1>1, <2>2, <2>3 DEF PhotonInv, PhotonTypeOK, SupplyBounded, BondSupplyCoversBalances
<1>3. ASSUME NEW p \in PhotonParamSets, UpdatePhotonParams(p)
      PROVE  PhotonInv'
  BY <1>1, <1>3 DEF UpdatePhotonParams, PhotonInv, PhotonTypeOK, SupplyBounded,
                    BondSupplyCoversBalances
<1>4. ASSUME NEW a \in Accounts, NEW n \in Rewards, Reward(a, n)
      PROVE  PhotonInv'
  <2>1. n \in Nat \ {0}
    BY PhotonAssumption
  <2>2. /\ bank.supply["bond"] + n <= MaxBond
        /\ bank' = AfterReward(bank, a, n) /\ photonParams' = photonParams
    BY <1>4 DEF Reward
  <2>3. /\ bank' \in Bank
        /\ bank'.supply["photon"] = bank.supply["photon"]
        /\ bank'.supply["bond"] = bank.supply["bond"] + n
        /\ bank'.supply["bond"] >= Staked + SumOver(bank'.bal["bond"], Accounts)
    BY <1>1, <2>1, <2>2, RewardKeepsBank
  <2> QED
    BY <1>1, <2>2, <2>3 DEF PhotonInv, PhotonTypeOK, SupplyBounded, BondSupplyCoversBalances
<1>5. CASE UNCHANGED photonVars
  BY <1>1, <1>5 DEF photonVars, PhotonInv, PhotonTypeOK, SupplyBounded,
                    BondSupplyCoversBalances
<1> QED
  BY <1>2, <1>3, <1>4, <1>5 DEF PhotonNext

\* The invariant of x/photon.
THEOREM PhotonInvariance == PhotonSpec => []PhotonInv
<1>1. PhotonInit => PhotonInv
  BY PhotonInitInv
<1>2. PhotonInv /\ [PhotonNext]_photonVars => PhotonInv'
  BY PhotonNextInv
<1> QED
  BY <1>1, <1>2, PTL DEF PhotonSpec

\* Balances and supplies stay natural numbers: MintPhoton never burns what is not there.
THEOREM PhotonTypeCorrect == PhotonSpec => []PhotonTypeOK
<1>1. PhotonInv => PhotonTypeOK
  BY DEF PhotonInv
<1> QED
  BY <1>1, PhotonInvariance, PTL

(***************************************************************************)
(* The supply of photon never exceeds the maximum, although MintPhoton      *)
(* rounds the conversion rate and the product to the nearest.               *)
(***************************************************************************)
THEOREM PhotonNeverExceedsMaximum == PhotonSpec => []SupplyBounded
<1>1. PhotonInv => SupplyBounded
  BY DEF PhotonInv
<1> QED
  BY <1>1, PhotonInvariance, PTL

\* The bond denom supply never runs out, so PhotonConversionRate never panics.
THEOREM BondSupplyNeverZero == PhotonSpec => []BondSupplyCoversBalances
<1>1. PhotonInv => BondSupplyCoversBalances
  BY DEF PhotonInv
<1> QED
  BY <1>1, PhotonInvariance, PTL

(***************************************************************************)
(* For every amount that is not bonded, MintPhoton gives the quotient of    *)
(* the README to less than one photon, in spite of its two roundings.       *)
(***************************************************************************)
THEOREM MintIsTheQuotient == PhotonSpec => []MintFollowsFormula
<1>1. PhotonInv => MintFollowsFormula
  <2> SUFFICES ASSUME PhotonInv PROVE MintFollowsFormula
    OBVIOUS
  <2> DEFINE bond == bank.supply["bond"]
             left == MaxSupply - bank.supply["photon"]
  <2>1. /\ bank \in Bank /\ bank.supply["photon"] <= MaxSupply /\ bond <= MaxBond
        /\ bond >= Staked + SumOver(bank.bal["bond"], Accounts)
    BY DEF PhotonInv, PhotonTypeOK, SupplyBounded, BondSupplyCoversBalances
  <2>2. Staked \in Nat \ {0} /\ MaxSupply \in Nat /\ MaxBond \in Nat /\ MaxBond < One
        /\ One \in Nat
    BY PhotonAssumption, PrecisionAssumption, OneAssumption
  <2>3. bond \in Nat /\ bond > 0 /\ left \in Nat /\ left >= 0
    BY <2>1, <2>2, BankParts, SpendableSum
  <2>4. ASSUME NEW amount \in 1 .. bond - Staked
        PROVE  Abs(UphotonToMint(bank, amount) * bond - amount * left) < bond
    <3> DEFINE m == UphotonToMint(bank, amount)
    <3>1. amount \in Nat /\ amount + 2 <= One
      BY <2>1, <2>2, <2>3
    <3>2. m * bond < amount * left + bond /\ amount * left < m * bond + bond
      BY <2>1, <2>3, <3>1, MintNearQuotient
    <3>3. m \in Nat
      <4>1. Rate(bank) \in Nat
        BY <2>1, <2>3, RateBounds
      <4> QED
        BY <3>1, <4>1, MintRounds, ChopNatBounds
    <3> HIDE DEF m, bond, left
    <3>4. m * bond \in Int /\ amount * left \in Int
      BY <2>3, <3>1, <3>3
    <3>5. Abs(m * bond - amount * left) < bond
      BY <2>3, <3>2, <3>4 DEF Abs
    <3> QED
      BY <3>5 DEF m
  <2> QED
    BY <2>4 DEF MintFollowsFormula
<1> QED
  BY <1>1, PhotonInvariance, PTL

(***************************************************************************)
(* x/photon implements PhotonSupply: photon comes into being only by        *)
(* burning bond denom, within the maximum, and some bond denom remains.     *)
(***************************************************************************)
THEOREM PhotonRefinement == PhotonSpec => ImplementsPhotonSupply
<1>1. PhotonInit => Supplies!Init
  <2> SUFFICES ASSUME PhotonInit PROVE Supplies!Init
    OBVIOUS
  <2>1. PhotonInv
    BY PhotonInitInv
  <2>2. /\ bank \in Bank /\ bank.supply["photon"] <= MaxSupply
        /\ bank.supply["bond"] >= Staked + SumOver(bank.bal["bond"], Accounts)
    BY <2>1 DEF PhotonInv, PhotonTypeOK, SupplyBounded, BondSupplyCoversBalances
  <2>3. Staked \in Nat \ {0} /\ MaxSupply \in Nat
    BY PhotonAssumption
  <2> QED
    BY <2>2, <2>3, BankParts, SpendableSum DEF Supplies!Init
<1>2. PhotonInv /\ [PhotonNext]_photonVars
        => [Supplies!Next]_<<bank.supply["bond"], bank.supply["photon"]>>
  <2> SUFFICES ASSUME PhotonInv, PhotonNext
               PROVE  [Supplies!Next]_<<bank.supply["bond"], bank.supply["photon"]>>
    BY DEF photonVars
  <2>1. /\ bank \in Bank
        /\ bank.supply["photon"] <= MaxSupply
        /\ bank.supply["bond"] <= MaxBond
        /\ bank.supply["bond"] >= Staked + SumOver(bank.bal["bond"], Accounts)
    BY DEF PhotonInv, PhotonTypeOK, SupplyBounded, BondSupplyCoversBalances
  <2>2. ASSUME NEW a \in Accounts, NEW amount \in Burns, MintPhoton(a, amount)
        PROVE  Supplies!Mint
    <3>1. amount \in Nat \ {0}
      BY PhotonAssumption
    <3>2. CanMint(bank, photonParams, a, amount) /\ bank' = AfterMint(bank, a, amount)
      BY <2>2 DEF MintPhoton
    <3>3. /\ bank'.supply["photon"] <= MaxSupply
          /\ bank'.supply["bond"] < bank.supply["bond"] /\ bank'.supply["bond"] > 0
          /\ bank'.supply["photon"] > bank.supply["photon"]
      BY <2>1, <3>1, <3>2, MintKeepsBank
    <3> QED
      BY <3>3 DEF Supplies!Mint
  <2>3. ASSUME NEW p \in PhotonParamSets, UpdatePhotonParams(p)
        PROVE  UNCHANGED <<bank.supply["bond"], bank.supply["photon"]>>
    BY <2>3 DEF UpdatePhotonParams
  <2>4. ASSUME NEW a \in Accounts, NEW n \in Rewards, Reward(a, n)
        PROVE  Supplies!Inflate
    <3>1. n \in Nat \ {0}
      BY PhotonAssumption
    <3>2. bank.supply["bond"] + n <= MaxBond /\ bank' = AfterReward(bank, a, n)
      BY <2>4 DEF Reward
    <3>3. /\ bank'.supply["photon"] = bank.supply["photon"]
          /\ bank'.supply["bond"] = bank.supply["bond"] + n
      BY <2>1, <3>1, <3>2, RewardKeepsBank
    <3> QED
      BY <2>1, <3>1, <3>3, BankParts DEF Supplies!Inflate
  <2> QED
    BY <2>2, <2>3, <2>4 DEF PhotonNext, Supplies!Next
<1> QED
  BY <1>1, <1>2, PhotonInvariance, PTL
     DEF PhotonSpec, ImplementsPhotonSupply, Supplies!Spec
=============================================================================
