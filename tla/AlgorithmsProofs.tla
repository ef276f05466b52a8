-------------------------- MODULE AlgorithmsProofs --------------------------
(***************************************************************************)
(* Theorems about the pure algorithms: the integer drought index against   *)
(* the exact yield-response rule, at any rain and any reference, and the   *)
(* walk over a paginated index, with any pages of any limit.               *)
(***************************************************************************)
EXTENDS MCAlgorithms, SequenceTheorems, TLAPS

-----------------------------------------------------------------------------
(* Integer arithmetic.                                                     *)

(* A quotient is the floor of the fraction.                                *)
LEMMA Quotient ==
    ASSUME NEW n \in Nat, NEW d \in Nat \ {0}
    PROVE  /\ n \div d \in Nat
           /\ d * (n \div d) <= n
           /\ n < d * (n \div d) + d
OBVIOUS

(* Products grow with their factors.                                       *)
LEMMA Product ==
    ASSUME NEW a \in Nat, NEW b \in Nat, NEW c \in Nat, NEW d \in Nat, a <= b, c <= d
    PROVE  a * c \in Nat /\ b * d \in Nat /\ a * c <= b * d
<1>1. a * c <= b * c
  OBVIOUS
<1>2. b * c <= b * d
  OBVIOUS
<1> QED  BY <1>1, <1>2

(* A common factor cancels.                                                *)
LEMMA Cancel ==
    ASSUME NEW d \in Nat \ {0}, NEW a \in Int, NEW b \in Int, d * a < d * b
    PROVE  a < b
<1> SUFFICES ASSUME b <= a PROVE d * b <= d * a
  OBVIOUS
<1> QED  OBVIOUS

(* Floors grow with what they are taken of.                                *)
LEMMA QuotientGrows ==
    ASSUME NEW n \in Nat, NEW m \in Nat, NEW d \in Nat \ {0}, n <= m
    PROVE  n \div d <= m \div d
<1> DEFINE p == n \div d
           q == m \div d
<1>1. /\ p \in Nat /\ d * p <= n
      /\ q \in Nat /\ m < d * q + d
  BY Quotient
<1> HIDE DEF p, q
<1>2. d * p < d * (q + 1)
  BY <1>1
<1>3. p < q + 1
  BY <1>1, <1>2, Cancel
<1> QED  BY <1>1, <1>3 DEF p, q

-----------------------------------------------------------------------------
(* The index.                                                              *)

(* Two floors, of tenths of a percent and of percents, are one.            *)
LEMMA OneFloor ==
    ASSUME NEW n \in Nat, NEW w \in Nat, NEW r \in Nat \ {0}, NEW q \in Nat, NEW t \in Nat,
           n = 1000 * w, r * q <= n, n < r * q + r, 10 * t <= q, q < 10 * t + 10
    PROVE  t * r \in Nat /\ t * r <= 100 * w /\ 100 * w < t * r + r
<1>1. t * r \in Nat /\ r * q \in Nat
  OBVIOUS
<1>2. 10 * (t * r) <= r * q
  OBVIOUS
<1>3. r * q + r <= 10 * (t * r) + 10 * r
  <2>1. r * (q + 1) <= r * (10 * t + 10)
    <3>1. q + 1 <= 10 * t + 10
      OBVIOUS
    <3> QED  BY <3>1
  <2> QED  BY <2>1
<1> QED  BY <1>1, <1>2, <1>3

(* The deficit is the missing percent of the reference, rounded up.        *)
LEMMA DeficitRoundsUp ==
    ASSUME NEW w \in Nat, NEW r \in Nat \ {0}
    PROVE  /\ Deficit(w, r) \in 0 .. 100
           /\ 100 * (r - Least(w, r)) <= Deficit(w, r) * r
           /\ Deficit(w, r) * r < 100 * (r - Least(w, r)) + r
           /\ w >= r => Deficit(w, r) = 0
           /\ w = 0 => Deficit(w, r) = 100
<1>1. PICK n \in Nat : n = 1000 * w
  OBVIOUS
<1>2. PICK q \in Nat : q = n \div r /\ r * q <= n /\ n < r * q + r
  BY Quotient
<1>3. PICK m \in 0 .. 1000 : m = Least(1000, q)
  BY DEF Least
<1>4. PICK t \in Nat : t = m \div 10 /\ 10 * t <= m /\ m < 10 * t + 10
  BY Quotient
<1>5. Deficit(w, r) = 100 - t
  BY <1>1, <1>2, <1>3, <1>4 DEF Deficit
<1>6. CASE w >= r
  <2>1. r * 1000 < r * (q + 1)
    BY <1>1, <1>2, <1>6
  <2>2. 1000 < q + 1
    BY <2>1, Cancel
  <2>3. t = 100
    BY <1>3, <1>4, <2>2 DEF Least
  <2>4. Least(w, r) = r
    BY <1>6 DEF Least
  <2> QED  BY <1>5, <1>6, <2>3, <2>4
<1>7. CASE w < r
  <2>1. r * q < r * 1000
    BY <1>1, <1>2, <1>7
  <2>2. q < 1000
    BY <2>1, Cancel
  <2>3. m = q /\ Least(w, r) = w
    BY <1>3, <1>7, <2>2 DEF Least
  <2>4. t * r \in Nat /\ t * r <= 100 * w /\ 100 * w < t * r + r
    <3>1. 10 * t <= q /\ q < 10 * t + 10
      BY <1>4, <2>3
    <3> QED  BY <1>1, <1>2, <3>1, OneFloor
  <2>5. (100 - t) * r = 100 * r - t * r
    OBVIOUS
  <2>6. t <= 100
    BY <1>4, <2>2, <2>3
  <2>7. w = 0 => t = 0
    <3>1. ASSUME w = 0 PROVE r * q < r * 1
      BY <1>1, <1>2, <3>1
    <3>2. ASSUME w = 0 PROVE q < 1
      BY <3>1, <3>2, Cancel
    <3> QED  BY <1>4, <2>3, <3>2
  <2>8. PICK x \in Nat : x = t * r
    BY <2>4
  <2>9. Deficit(w, r) * r = 100 * r - x
    BY <1>5, <2>5, <2>8
  <2>10. 100 * (r - w) <= 100 * r - x /\ 100 * r - x < 100 * (r - w) + r
    BY <2>4, <2>8
  <2>11. Deficit(w, r) \in 0 .. 100
    BY <1>5, <2>6
  <2>12. w = 0 => Deficit(w, r) = 100
    BY <1>5, <2>7
  <2> QED  BY <1>7, <2>3, <2>9, <2>10, <2>11, <2>12
<1> QED  BY <1>6, <1>7

(* More rain, no larger deficit.                                           *)
LEMMA DeficitFalls ==
    ASSUME NEW w \in Nat, NEW v \in Nat, NEW r \in Nat \ {0}, w <= v
    PROVE  Deficit(v, r) <= Deficit(w, r)
<1> DEFINE p == (1000 * w) \div r
           q == (1000 * v) \div r
<1>1. p \in Nat /\ q \in Nat /\ p <= q
  BY Quotient, QuotientGrows
<1> HIDE DEF p, q
<1>2. /\ Least(1000, p) \in Nat /\ Least(1000, q) \in Nat
      /\ Least(1000, p) <= Least(1000, q)
  BY <1>1 DEF Least
<1>3. /\ Least(1000, p) \div 10 <= Least(1000, q) \div 10
      /\ Least(1000, p) \div 10 \in Nat /\ Least(1000, q) \div 10 \in Nat
  BY <1>2, Quotient, QuotientGrows
<1>4. /\ Deficit(w, r) = 100 - Least(1000, p) \div 10
      /\ Deficit(v, r) = 100 - Least(1000, q) \div 10
  BY DEF Deficit, p, q
<1> QED  BY <1>3, <1>4

(* More rain, no larger loss.                                              *)
LEMMA LossFalls ==
    ASSUME NEW ky \in Nat, NEW w \in Nat, NEW v \in Nat, NEW r \in Nat \ {0}, w <= v
    PROVE  /\ YieldLoss(ky, w, r) \in 0 .. 100 /\ YieldLoss(ky, v, r) \in 0 .. 100
           /\ YieldLoss(ky, v, r) <= YieldLoss(ky, w, r)
<1>a. Deficit(w, r) \in 0 .. 100 /\ Deficit(v, r) \in 0 .. 100
  BY DeficitRoundsUp
<1>b. Deficit(v, r) <= Deficit(w, r)
  BY DeficitFalls
<1>1. PICK d \in Nat, e \in Nat : d = Deficit(w, r) /\ e = Deficit(v, r) /\ e <= d
  BY <1>a, <1>b
<1>2. ky * e \in Nat /\ ky * d \in Nat /\ ky * e <= ky * d
  BY <1>1
<1>3. PICK l \in Nat, m \in Nat : l = (ky * d) \div 100 /\ m = (ky * e) \div 100 /\ m <= l
  BY <1>2, Quotient, QuotientGrows
<1>4. YieldLoss(ky, w, r) = Least(100, l) /\ YieldLoss(ky, v, r) = Least(100, m)
  BY <1>1, <1>3 DEF YieldLoss
<1> QED  BY <1>3, <1>4 DEF Least

(* The share of the yield that is lost, against the exact one: YieldLeft   *)
(* is what is left, as a fraction of 100 * r.                              *)
LEMMA LossRounded ==
    ASSUME NEW ky \in {40, 150}, NEW w \in Nat, NEW r \in Nat \ {0},
           NEW left, left = 100 - YieldLoss(ky, w, r)
    PROVE  /\ left \in 0 .. 100
           /\ YieldLeft(ky, w, r) \in 0 .. 100 * r
           /\ left * r < YieldLeft(ky, w, r) + r
           /\ 100 * YieldLeft(ky, w, r) <= 100 * (left * r) + ky * r
<1>1. PICK d : d = Deficit(w, r)
  OBVIOUS
<1>2. PICK m : m = r - Least(w, r)
  OBVIOUS
<1>3. /\ d \in 0 .. 100 /\ m \in Nat /\ m <= r
      /\ 100 * m <= d * r /\ d * r < 100 * m + r
  <2>1. d \in 0 .. 100 /\ 100 * m <= d * r /\ d * r < 100 * m + r
    BY <1>1, <1>2, DeficitRoundsUp
  <2>2. Least(w, r) \in 0 .. r
    BY DEF Least
  <2>3. m \in Nat /\ m <= r
    BY <1>2, <2>2
  <2> QED  BY <2>1, <2>3
<1>4. PICK x \in Nat : x = d * r /\ 100 * m <= x /\ x < 100 * m + r
  BY <1>3
<1>5. ky * d \in Nat /\ ky * m \in Nat
  BY <1>3
<1>6. PICK l \in Nat : l = (ky * d) \div 100 /\ 100 * l <= ky * d /\ ky * d < 100 * l + 100
  BY <1>5, Quotient
<1>7. YieldLoss(ky, w, r) = Least(100, l)
  BY <1>1, <1>6 DEF YieldLoss
<1>8. left \in 0 .. 100
  BY <1>7 DEF Least
<1>9. YieldLeft(ky, w, r) = IF 100 * r > ky * m THEN 100 * r - ky * m ELSE 0
  BY <1>2 DEF YieldLeft
<1>10. /\ ky * d * r = ky * x
      /\ 100 * (l * r) <= ky * x
      /\ ky * x < 100 * (l * r) + 100 * r
      /\ l * r \in Nat
  <2>1. ky * d * r = ky * x
    BY <1>3, <1>4
  <2>2. (100 * l) * r <= (ky * d) * r
    BY <1>5, <1>6
  <2>3. (ky * d) * r < (100 * l + 100) * r
    BY <1>5, <1>6
  <2> QED  BY <2>1, <2>2, <2>3
<1>11. PICK y \in Nat : y = l * r
  BY <1>10
<1>12. /\ 100 * y <= ky * x /\ ky * x < 100 * y + 100 * r
       /\ left * r = IF l <= 100 THEN 100 * r - y ELSE 0
       /\ l > 100 => y >= 101 * r
  <2>1. CASE l <= 100
    <3>1. left = 100 - l
      BY <1>7, <2>1 DEF Least
    <3>2. left * r = 100 * r - y
      BY <1>11, <3>1
    <3> QED  BY <1>10, <1>11, <2>1, <3>2
  <2>2. CASE l > 100
    <3>1. left = 0
      BY <1>7, <2>2 DEF Least
    <3>2. left * r = 0 /\ l * r >= 101 * r
      BY <2>2, <3>1
    <3> QED  BY <1>10, <1>11, <2>2, <3>2
  <2> QED  BY <2>1, <2>2
<1>13. PICK z \in Int : z = left * r
  BY <1>8
<1>14. CASE ky = 40
  BY <1>2, <1>3, <1>4, <1>8, <1>9, <1>12, <1>13, <1>14
<1>15. CASE ky = 150
  BY <1>2, <1>3, <1>4, <1>8, <1>9, <1>12, <1>13, <1>15
<1> QED  BY <1>14, <1>15

(* A share f of 100 * s, times what is at most k percent of r.             *)
LEMMA ShareOf ==
    ASSUME NEW s \in Nat, NEW f \in 0 .. 100 * s, NEW r \in Nat, NEW k \in Nat,
           NEW x \in Int, 100 * x <= k * r
    PROVE  f * x \in Int /\ s * r \in Nat /\ f * x <= k * (s * r)
<1>1. f * x \in Int /\ s * r \in Nat /\ k * r \in Nat
  OBVIOUS
<1>2. CASE x <= 0
  <2>1. f * x <= 0
    BY <1>2
  <2>2. k * (s * r) >= 0
    BY <1>1
  <2> QED  BY <1>1, <2>1, <2>2
<1>3. CASE x > 0
  <2>1. PICK y \in Nat : y = k * r
    BY <1>1
  <2>2. f * (100 * x) <= f * y
    BY <2>1
  <2>3. f * y <= (100 * s) * y
    BY <2>1
  <2>4. f * (100 * x) = 100 * (f * x)
    OBVIOUS
  <2>5. (100 * s) * y = 100 * (k * (s * r))
    BY <2>1
  <2>6. k * (s * r) \in Int
    BY <1>1
  <2>7. f * y \in Int
    OBVIOUS
  <2> QED  BY <1>1, <2>2, <2>3, <2>4, <2>5, <2>6, <2>7
<1> QED  BY <1>2, <1>3

(* The product of what is left, against the exact product: a and b are the *)
(* rounded shares of r and s, e and f the exact ones.                      *)
LEMMA ProductRounded ==
    ASSUME NEW r \in Nat \ {0}, NEW s \in Nat \ {0},
           NEW a \in 0 .. 100 * r, NEW e \in 0 .. 100 * r,
           NEW b \in 0 .. 100 * s, NEW f \in 0 .. 100 * s,
           a < e + r, 100 * e <= 100 * a + 40 * r,
           b < f + s, 100 * f <= 100 * b + 150 * s
    PROVE  /\ a * b < e * f + 200 * (r * s)
           /\ e * f <= a * b + 190 * (r * s)
<1>1. a * b - e * f = a * (b - f) + f * (a - e)
  OBVIOUS
<1>2. e * f - a * b = a * (f - b) + f * (e - a)
  OBVIOUS
<1>3. a * b \in Int /\ e * f \in Int /\ r * s \in Nat /\ r * s > 0
  OBVIOUS
<1>4. a * (b - f) \in Int /\ a * (b - f) <= 100 * (r * (s - 1))
  BY ShareOf
<1>5. f * (a - e) \in Int /\ f * (a - e) <= 100 * (s * r)
  BY ShareOf
<1>6. a * (f - b) \in Int /\ a * (f - b) <= 150 * (r * s)
  BY ShareOf
<1>7. f * (e - a) \in Int /\ f * (e - a) <= 40 * (s * r)
  BY ShareOf
<1>8. r * (s - 1) = r * s - r /\ s * r = r * s
  OBVIOUS
<1> QED  BY <1>1, <1>2, <1>3, <1>4, <1>5, <1>6, <1>7, <1>8

-----------------------------------------------------------------------------
(* Every season.                                                           *)

SeasonOK == w1 \in Nat /\ w2 \in Nat /\ r1 \in Nat \ {0} /\ r2 \in Nat \ {0}

(* References never change, and rain only adds up.                         *)
LEMMA SeasonStep ==
    ASSUME SeasonOK, [AlgorithmsNext]_algorithmVars
    PROVE  /\ SeasonOK'
           /\ UNCHANGED <<r1, r2>> /\ w1 <= w1' /\ w2 <= w2'
<1>1. CASE DroughtNext
  BY <1>1 DEF DroughtNext, SeasonOK
<1>2. CASE UNCHANGED season
  BY <1>2 DEF season, SeasonOK
<1> QED  BY <1>1, <1>2 DEF AlgorithmsNext, ReaderAsks, algorithmVars

(* The references a run starts with are not zero.                          *)
LEMMA SeasonCorrect == AlgorithmsSpec => []SeasonOK
<1>1. AlgorithmsInit => SeasonOK
  BY SeasonAssumption DEF AlgorithmsInit, DroughtInit, DroughtAtRest, SeasonOK
<1>2. SeasonOK /\ [AlgorithmsNext]_algorithmVars => SeasonOK'
  BY SeasonStep
<1> QED  BY <1>1, <1>2, PTL DEF AlgorithmsSpec

(* The damage is what the product of the two shares leaves, rounded up.    *)
LEMMA DamageRounded ==
    ASSUME SeasonOK, NEW left1, left1 = 100 - YieldLoss(KY1_E2, w1, r1),
           NEW left2, left2 = 100 - YieldLoss(KY2_E2, w2, r2)
    PROVE  /\ left1 \in 0 .. 100 /\ left2 \in 0 .. 100
           /\ left1 * left2 \in Nat /\ Damage \in 0 .. 100
           /\ 100 * (100 - Damage) <= left1 * left2
           /\ left1 * left2 < 100 * (100 - Damage) + 100
<1>1. left1 \in 0 .. 100 /\ left2 \in 0 .. 100
  <2>1. /\ w1 \in Nat /\ r1 \in Nat \ {0} /\ w2 \in Nat /\ r2 \in Nat \ {0}
        /\ KY1_E2 \in Nat /\ KY2_E2 \in Nat
    BY DEF SeasonOK, KY1_E2, KY2_E2
  <2>2. YieldLoss(KY1_E2, w1, r1) \in 0 .. 100 /\ YieldLoss(KY2_E2, w2, r2) \in 0 .. 100
    BY <2>1, LossFalls
  <2> QED  BY <2>2
<1>2. left1 * left2 \in Nat /\ left1 * left2 <= 100 * 100
  BY <1>1, Product
<1>p. PICK p \in Nat : p = left1 * left2 /\ p <= 10000
  BY <1>2
<1>3. PICK q \in Nat : q = p \div 100 /\ 100 * q <= p /\ p < 100 * q + 100
  BY Quotient
<1>4. Damage = 100 - (left1 * left2) \div 100
  BY DEF Damage, rdi_v1_drought_damage
<1>5. (left1 * left2) \div 100 = q /\ q \in 0 .. 100
  BY <1>p, <1>3
<1>6. Damage = 100 - q /\ Damage \in 0 .. 100 /\ 100 - Damage = q
  BY <1>4, <1>5
<1>7. 100 * (100 - Damage) <= p /\ p < 100 * (100 - Damage) + 100
  BY <1>3, <1>6
<1> QED  BY <1>1, <1>2, <1>p, <1>6, <1>7

(* drought.rs, at every rain and every reference, of any size: five        *)
(* roundings leave the index within two points below and three above the   *)
(* exact yield-response rule.                                              *)
THEOREM IndexTracksRule == AlgorithmsSpec => []TracksYieldResponse
<1>1. SeasonOK => TracksYieldResponse
  <2> SUFFICES ASSUME SeasonOK PROVE TracksYieldResponse
    OBVIOUS
  <2> USE DEF SeasonOK
  <2>1. PICK A, B : /\ A = 100 - YieldLoss(KY1_E2, w1, r1)
                    /\ B = 100 - YieldLoss(KY2_E2, w2, r2)
    OBVIOUS
  <2>2. PICK e, f : e = YieldLeft(KY1_E2, w1, r1) /\ f = YieldLeft(KY2_E2, w2, r2)
    OBVIOUS
  <2>3. /\ A \in 0 .. 100 /\ e \in 0 .. 100 * r1 /\ A * r1 < e + r1
        /\ 100 * e <= 100 * (A * r1) + 40 * r1
    <3>1. /\ KY1_E2 = 40 /\ KY1_E2 \in {40, 150}
          /\ w1 \in Nat /\ r1 \in Nat \ {0}
      BY DEF KY1_E2
    <3> HIDE DEF SeasonOK
    <3> QED  BY <2>1, <2>2, <3>1, LossRounded
  <2>4. /\ B \in 0 .. 100 /\ f \in 0 .. 100 * r2 /\ B * r2 < f + r2
        /\ 100 * f <= 100 * (B * r2) + 150 * r2
    <3>1. /\ KY2_E2 = 150 /\ KY2_E2 \in {40, 150}
          /\ w2 \in Nat /\ r2 \in Nat \ {0}
      BY DEF KY2_E2
    <3> HIDE DEF SeasonOK
    <3> QED  BY <2>1, <2>2, <3>1, LossRounded
  <2>5. PICK a \in 0 .. 100 * r1, b \in 0 .. 100 * r2 : a = A * r1 /\ b = B * r2
    BY <2>3, <2>4
  <2>6. /\ a * b < e * f + 200 * (r1 * r2)
        /\ e * f <= a * b + 190 * (r1 * r2)
    <3>1. /\ e \in 0 .. 100 * r1 /\ a < e + r1 /\ 100 * e <= 100 * a + 40 * r1
          /\ f \in 0 .. 100 * r2 /\ b < f + r2 /\ 100 * f <= 100 * b + 150 * r2
      BY <2>3, <2>4, <2>5
    <3>2. r1 \in Nat \ {0} /\ r2 \in Nat \ {0}
      OBVIOUS
    <3> HIDE DEF SeasonOK
    <3> QED  BY <3>1, <3>2, ProductRounded
  <2>7. PICK t \in Nat : t = r1 * r2 /\ t > 0
    OBVIOUS
  <2>8. PICK p \in Nat, d \in 0 .. 100 :
           p = A * B /\ d = Damage /\ 100 * (100 - d) <= p /\ p < 100 * (100 - d) + 100
    BY <2>1, DamageRounded
  <2>9. a * b = p * t
    BY <2>3, <2>4, <2>5, <2>7, <2>8
  <2>10. (100 * (100 - d)) * t <= p * t /\ p * t < (100 * (100 - d) + 100) * t
    BY <2>7, <2>8
  <2>11. PICK x \in Int, y \in Int : x = d * t /\ y = e * f
    BY <2>2, <2>3, <2>4
  <2>12. /\ 10000 * t - 100 * x < y + 200 * t
         /\ y <= 10000 * t - 100 * x + 100 * t + 190 * t
    BY <2>6, <2>7, <2>9, <2>10, <2>11
  <2>13. /\ (d + 2) * (100 * r1 * r2) = 100 * x + 200 * t
         /\ (d - 3) * (100 * r1 * r2) = 100 * x - 300 * t
         /\ 100 * 100 * r1 * r2 - e * f = 10000 * t - y
    BY <2>7, <2>11
  <2>14. /\ (d + 2) * (100 * r1 * r2) > 100 * 100 * r1 * r2 - e * f
         /\ (d - 3) * (100 * r1 * r2) < 100 * 100 * r1 * r2 - e * f
    BY <2>7, <2>12, <2>13
  <2> QED  BY <2>2, <2>8, <2>14 DEF TracksYieldResponse
<1> QED  BY <1>1, SeasonCorrect, PTL

(* What the tests pin at one reference holds at every reference: a season  *)
(* that reaches it pays nothing, a season without rain pays everything.    *)
THEOREM IndexEndsExact == AlgorithmsSpec => []EndsExact
<1>1. SeasonOK => EndsExact
  <2> SUFFICES ASSUME SeasonOK PROVE EndsExact
    OBVIOUS
  <2> USE DEF SeasonOK
  <2>1. KY1_E2 = 40 /\ KY2_E2 = 150
    BY DEF KY1_E2, KY2_E2
  <2>2. PICK A, B : /\ A = 100 - YieldLoss(KY1_E2, w1, r1)
                    /\ B = 100 - YieldLoss(KY2_E2, w2, r2)
    OBVIOUS
  <2>3. Damage = 100 - (A * B) \div 100
    BY <2>2 DEF Damage, rdi_v1_drought_damage
  <2>4. Damage \in 0 .. 100
    BY <2>2, DamageRounded
  <2>5. ASSUME w1 >= r1, w2 >= r2 PROVE Damage = 0
    <3>1. Deficit(w1, r1) = 0 /\ Deficit(w2, r2) = 0
      BY <2>5, DeficitRoundsUp
    <3>2. A = 100 /\ B = 100
      BY <2>1, <2>2, <3>1 DEF YieldLoss, Least
    <3> QED  BY <2>3, <3>2
  <2>6. ASSUME w1 = 0, w2 = 0 PROVE Damage = 100
    <3>1. Deficit(w1, r1) = 100 /\ Deficit(w2, r2) = 100
      BY <2>6, DeficitRoundsUp
    <3>2. A = 60 /\ B = 0
      BY <2>1, <2>2, <3>1 DEF YieldLoss, Least
    <3> QED  BY <2>3, <3>2
  <2> QED  BY <2>4, <2>5, <2>6 DEF EndsExact
<1> QED  BY <1>1, SeasonCorrect, PTL

(* More rain, no larger damage.                                            *)
LEMMA DamageFalls ==
    ASSUME NEW u1 \in Nat, NEW v1 \in Nat, NEW s1 \in Nat \ {0}, u1 <= v1,
           NEW u2 \in Nat, NEW v2 \in Nat, NEW s2 \in Nat \ {0}, u2 <= v2
    PROVE  rdi_v1_drought_damage(v1, s1, v2, s2) <= rdi_v1_drought_damage(u1, s1, u2, s2)
<1>1. KY1_E2 \in Nat /\ KY2_E2 \in Nat
  BY DEF KY1_E2, KY2_E2
<1>2. /\ YieldLoss(KY1_E2, u1, s1) \in 0 .. 100 /\ YieldLoss(KY1_E2, v1, s1) \in 0 .. 100
      /\ YieldLoss(KY1_E2, v1, s1) <= YieldLoss(KY1_E2, u1, s1)
  BY <1>1, LossFalls
<1>3. /\ YieldLoss(KY2_E2, u2, s2) \in 0 .. 100 /\ YieldLoss(KY2_E2, v2, s2) \in 0 .. 100
      /\ YieldLoss(KY2_E2, v2, s2) <= YieldLoss(KY2_E2, u2, s2)
  BY <1>1, LossFalls
<1>4. PICK a, b, c, d :
         /\ a = 100 - YieldLoss(KY1_E2, u1, s1) /\ b = 100 - YieldLoss(KY2_E2, u2, s2)
         /\ c = 100 - YieldLoss(KY1_E2, v1, s1) /\ d = 100 - YieldLoss(KY2_E2, v2, s2)
  OBVIOUS
<1>5. /\ a \in Nat /\ c \in Nat /\ a <= c
      /\ b \in Nat /\ d \in Nat /\ b <= d
  BY <1>2, <1>3, <1>4
<1>6. a * b \in Nat /\ c * d \in Nat /\ a * b <= c * d
  BY <1>5, Product
<1>7. PICK p \in Nat, q \in Nat : p = a * b /\ q = c * d /\ p <= q
  BY <1>6
<1>8. p \div 100 <= q \div 100 /\ p \div 100 \in Nat /\ q \div 100 \in Nat
  BY Quotient, QuotientGrows, <1>7
<1>9. /\ rdi_v1_drought_damage(u1, s1, u2, s2) = 100 - p \div 100
      /\ rdi_v1_drought_damage(v1, s1, v2, s2) = 100 - q \div 100
  BY <1>4, <1>7 DEF rdi_v1_drought_damage
<1> QED  BY <1>8, <1>9

(* More rain never raises the damage, whatever fell before it.             *)
THEOREM WetterPaysNoMore == AlgorithmsSpec => WetterNeverPaysMore
<1>1. SeasonOK /\ [AlgorithmsNext]_algorithmVars => [Damage' <= Damage]_season
  <2> SUFFICES ASSUME SeasonOK, [AlgorithmsNext]_algorithmVars PROVE Damage' <= Damage
    OBVIOUS
  <2>1. /\ w1 \in Nat /\ w2 \in Nat /\ w1' \in Nat /\ w2' \in Nat
        /\ r1 \in Nat \ {0} /\ r2 \in Nat \ {0} /\ r1' = r1 /\ r2' = r2
        /\ w1 <= w1' /\ w2 <= w2'
    BY SeasonStep DEF SeasonOK
  <2>2. rdi_v1_drought_damage(w1', r1, w2', r2) <= rdi_v1_drought_damage(w1, r1, w2, r2)
    BY <2>1, DamageFalls
  <2>3. Damage' = rdi_v1_drought_damage(w1', r1, w2', r2)
    BY <2>1 DEF Damage
  <2> QED  BY <2>2, <2>3 DEF Damage
<1> QED  BY <1>1, SeasonCorrect, PTL DEF AlgorithmsSpec, WetterNeverPaysMore

-----------------------------------------------------------------------------
(* The walk over a paginated index.                                        *)

(* Min of two numbers.                                                     *)
LEMMA LeastOfTwo ==
    ASSUME NEW a \in Nat, NEW b \in Nat
    PROVE  /\ Min({a, b}) \in Nat
           /\ Min({a, b}) = IF a <= b THEN a ELSE b
<1> DEFINE m == IF a <= b THEN a ELSE b
<1>1. m \in {a, b} /\ \A y \in {a, b} : m <= y
  OBVIOUS
<1>2. \A x \in {a, b} : (\A y \in {a, b} : x <= y) => x = m
  OBVIOUS
<1>3. Min({a, b}) = m
  BY <1>1, <1>2 DEF Min
<1> QED  BY <1>3

(* A page ends between where it starts and the end of the index, however   *)
(* large a limit is asked for.                                             *)
LEMMA PageEndBetween ==
    ASSUME NEW start \in Nat, NEW n \in Nat, NEW count \in 0 .. U32_MAX, start <= count
    PROVE  /\ PageEnd(start, n, count) \in Nat
           /\ start <= PageEnd(start, n, count) /\ PageEnd(start, n, count) <= count
<1>1. MAX_PAGE_SIZE \in Nat /\ U32_MAX \in Nat
  BY PagingAssumption
<1>2. PICK k \in Nat : k = Min({n, MAX_PAGE_SIZE})
  BY <1>1, LeastOfTwo
<1>3. start + k \in Nat /\ start + k >= start
  BY <1>2
<1>4. PICK e \in Nat : e = saturating_add(start, k) /\ start <= e
  <2>1. /\ Min({start + k, U32_MAX}) \in Nat
        /\ Min({start + k, U32_MAX}) = IF start + k <= U32_MAX THEN start + k ELSE U32_MAX
    BY <1>1, <1>3, LeastOfTwo
  <2> QED  BY <1>1, <1>3, <2>1 DEF saturating_add
<1>5. /\ Min({e, count}) \in Nat
      /\ Min({e, count}) = IF e <= count THEN e ELSE count
  BY <1>4, LeastOfTwo
<1>6. PageEnd(start, n, count) = Min({e, count})
  BY <1>2, <1>4 DEF PageEnd
<1> QED  BY <1>4, <1>5, <1>6

(* A prefix, item by item.                                                 *)
LEMMA PrefixByItem ==
    ASSUME NEW s \in Seq(Nat), NEW t \in Seq(Nat)
    PROVE  IsPrefix(s, t) <=> Len(s) <= Len(t) /\ \A i \in 1 .. Len(s) : s[i] = t[i]
<1> SUFFICES ASSUME Len(s) <= Len(t)
             PROVE  SubSeq(s, 1, Len(s)) = SubSeq(t, 1, Len(s))
                       <=> \A i \in 1 .. Len(s) : s[i] = t[i]
  BY DEF IsPrefix
<1> DEFINE a == SubSeq(s, 1, Len(s))
           b == SubSeq(t, 1, Len(s))
<1>1. Len(s) \in Nat /\ Len(t) \in Nat
  OBVIOUS
<1>2. /\ a \in Seq(Nat) /\ Len(a) = Len(s) /\ \A i \in 1 .. Len(s) : a[i] = s[i]
      /\ b \in Seq(Nat) /\ Len(b) = Len(s) /\ \A i \in 1 .. Len(s) : b[i] = t[i]
  BY <1>1
<1> HIDE DEF a, b
<1>3. (\A i \in 1 .. Len(s) : s[i] = t[i]) => a = b
  BY <1>2, SeqEqual
<1>4. a = b => \A i \in 1 .. Len(s) : s[i] = t[i]
  BY <1>2
<1> QED  BY <1>3, <1>4 DEF a, b

(* The invariant of a walk: shapes, the bound of the index, and the prefix. *)
WalkOK ==
    /\ index \in Seq(Nat) /\ Len(index) <= MaxIndex
    /\ walked \in Seq(Nat) /\ limit \in Nat
    /\ WalkIsExact

(* The three views return the same page wherever a walk asks.              *)
LEMMA PageRead ==
    ASSUME WalkOK, ReadPage
    PROVE  walked' = walked \o Page(Len(walked), limit)
               \/ (Len(walked) = Len(index) /\ walked' = walked)
<1>1. Len(walked) \in Nat /\ Len(index) \in Nat /\ Len(walked) <= Len(index)
  BY DEF WalkOK, WalkIsExact, IsPrefix
<1>2. walked \o << >> = walked
  BY ConcatEmptySeq DEF WalkOK
<1>3. PICK read \in {Page(Len(walked), limit),
                     IF Len(walked) >= Len(index) THEN << >> ELSE Page(Len(walked), limit)} :
         walked' = walked \o read
  BY DEF ReadPage, get_farmer_policies, get_distributor_policies, get_org_obligations
<1>4. CASE Len(walked) >= Len(index) /\ read = << >>
  BY <1>1, <1>2, <1>3, <1>4
<1>5. CASE read = Page(Len(walked), limit)
  BY <1>3, <1>5
<1> QED  BY <1>3, <1>4, <1>5

(* The walk stays a prefix when the index grows and when a page is read.   *)
LEMMA WalkStep ==
    ASSUME WalkOK, [AlgorithmsNext]_algorithmVars
    PROVE  WalkOK'
<1> DEFINE n == Len(walked)
           m == Len(index)
<1>1. /\ index \in Seq(Nat) /\ walked \in Seq(Nat) /\ limit \in Nat
      /\ n \in Nat /\ m \in Nat /\ m <= MaxIndex
      /\ n <= m /\ \A i \in 1 .. n : walked[i] = index[i]
  BY PrefixByItem DEF WalkOK, WalkIsExact
<1>2. CASE UNCHANGED pagingVars
  BY <1>2 DEF WalkOK, WalkIsExact, pagingVars
<1>3. CASE AppendToIndex
  <2>1. /\ index' = Append(index, m + 1) /\ m < MaxIndex
        /\ limit' = limit /\ walked' = walked
    BY <1>3 DEF AppendToIndex
  <2>2. /\ index' \in Seq(Nat) /\ Len(index') = m + 1
        /\ \A i \in 1 .. m : index'[i] = index[i]
    <3>1. m + 1 \in Nat
      BY <1>1
    <3> QED  BY <1>1, <2>1, <3>1, AppendProperties
  <2>3. MaxIndex \in Nat
    BY PagingAssumption
  <2>4. IsPrefix(walked', index')
    <3>1. walked' \in Seq(Nat) /\ Len(walked') = n /\ Len(walked') <= Len(index')
      BY <1>1, <2>1, <2>2
    <3>2. \A i \in 1 .. n : walked'[i] = index'[i]
      BY <1>1, <2>1, <2>2
    <3> QED  BY <2>2, <3>1, <3>2, PrefixByItem
  <2>5. Len(index') <= MaxIndex
    BY <1>1, <2>1, <2>2, <2>3
  <2> QED  BY <1>1, <2>1, <2>2, <2>4, <2>5 DEF WalkOK, WalkIsExact
<1>4. CASE ReadPage
  <2>1. index' = index /\ limit' = limit
    BY <1>4 DEF ReadPage
  <2>2. CASE walked' = walked
    BY <2>1, <2>2 DEF WalkOK, WalkIsExact
  <2>3. CASE walked' = walked \o Page(n, limit)
    <3>1. m \in 0 .. U32_MAX
      BY <1>1, PagingAssumption
    <3>2. PICK e \in Nat : e = PageEnd(n, limit, m) /\ n <= e /\ e <= m
      BY <1>1, <3>1, PageEndBetween
    <3>3. PICK page : page = SubSeq(index, n + 1, e)
      OBVIOUS
    <3>4. walked' = walked \o page
      BY <2>3, <3>2, <3>3 DEF Page
    <3>5. /\ page \in Seq(Nat) /\ Len(page) = e - n
          /\ \A i \in 1 .. e - n : page[i] = index[n + i]
      <4>1. \A i \in n + 1 .. e : index[i] \in Nat
        BY <1>1, <3>2
      <4>2. /\ page \in Seq(Nat)
            /\ Len(page) = IF n + 1 <= e THEN e - (n + 1) + 1 ELSE 0
            /\ \A i \in 1 .. e - (n + 1) + 1 : page[i] = index[(n + 1) + i - 1]
        BY <1>1, <3>2, <3>3, <4>1, SubSeqProperties
      <4>3. Len(page) = e - n
        BY <1>1, <3>2, <4>2
      <4>4. ASSUME NEW i \in 1 .. e - n PROVE page[i] = index[n + i]
        <5>1. i \in 1 .. e - (n + 1) + 1 /\ (n + 1) + i - 1 = n + i
          BY <1>1, <3>2
        <5> QED  BY <4>2, <5>1
      <4> QED  BY <4>2, <4>3, <4>4
    <3>6. /\ walked' \in Seq(Nat) /\ Len(walked') = n + (e - n)
          /\ \A i \in 1 .. n + (e - n) : walked'[i] =
                    IF i <= n THEN walked[i] ELSE page[i - n]
      BY <1>1, <3>4, <3>5, ConcatProperties
    <3>7. Len(walked') = e /\ \A i \in 1 .. e : walked'[i] = index[i]
      <4>1. SUFFICES ASSUME NEW i \in 1 .. e PROVE walked'[i] = index[i]
        BY <1>1, <3>2, <3>6
      <4>2. CASE i <= n
        <5>1. i \in 1 .. n /\ i \in 1 .. n + (e - n)
          BY <1>1, <3>2, <4>2
        <5>2. walked'[i] = walked[i]
          BY <3>6, <4>2, <5>1
        <5> QED  BY <1>1, <5>1, <5>2
      <4>3. CASE i > n
        <5>1. i - n \in 1 .. e - n /\ n + (i - n) = i
          BY <1>1, <3>2, <4>3
        <5>2. walked'[i] = page[i - n]
          BY <1>1, <3>2, <3>6, <4>3
        <5> QED  BY <3>5, <5>1, <5>2
      <4> QED  BY <1>1, <3>2, <4>2, <4>3
    <3>8. IsPrefix(walked', index')
      BY <1>1, <2>1, <3>2, <3>6, <3>7, PrefixByItem
    <3> QED  BY <1>1, <2>1, <3>6, <3>8 DEF WalkOK, WalkIsExact
  <2> QED  BY <1>4, <2>2, <2>3, PageRead
<1> QED  BY <1>2, <1>3, <1>4 DEF AlgorithmsNext, ReaderAsks, algorithmVars

(* get_farmer_policies, get_distributor_policies and get_org_obligations,  *)
(* at any limit, any page bound and any length a u32 counts: a reader that *)
(* starts each page where the last ended reads the head of the index.      *)
THEOREM WalkCorrect == AlgorithmsSpec => []WalkIsExact
<1>1. AlgorithmsInit => WalkOK
  <2>1. << >> \in Seq(Nat) /\ Len(<< >>) = 0 /\ IsPrefix(<< >>, << >>)
    BY DEF IsPrefix
  <2>2. MaxIndex \in Nat /\ 1 .. U32_MAX \subseteq Nat
    BY PagingAssumption
  <2>3. AlgorithmsInit => index = << >> /\ walked = << >> /\ limit \in Nat
    BY <2>2 DEF AlgorithmsInit, PagingInit, PagingAtRest
  <2> QED  BY <2>1, <2>2, <2>3 DEF WalkOK, WalkIsExact
<1>2. WalkOK /\ [AlgorithmsNext]_algorithmVars => WalkOK'
  BY WalkStep
<1>3. WalkOK => WalkIsExact
  BY DEF WalkOK
<1> QED  BY <1>1, <1>2, <1>3, PTL DEF AlgorithmsSpec
=============================================================================
