---------------------------- MODULE DroughtIndex ----------------------------
(***************************************************************************)
(* crop-drought-rdi-1.0 (crates/shared/src/drought.rs): the damage index   *)
(* the PayoutReceiver recomputes from the signed rainfall, in the same     *)
(* integer arithmetic.  w is the season's rain, r the reference rain, in   *)
(* centi-mm, over the windows W1 and W2.                                   *)
(***************************************************************************)
EXTENDS Integers

CONSTANT MAX_RAIN_E2

KY1_E2 == 40
KY2_E2 == 150

Least(a, b) == IF a < b THEN a ELSE b

Deficit_DividedFirst(w, r) ==          \* mutant: the ratio is truncated first
    100 - Least(1000, 1000 * (w \div r)) \div 10

Deficit_NotInverted(w, r) ==           \* mutant: the share that fell, not what is missing
    Least(1000, (1000 * w) \div r) \div 10

(* Percent of the reference rain that is missing in one window.            *)
Deficit(w, r) == 100 - Least(1000, (1000 * w) \div r) \div 10

YieldLoss_Uncapped(ky, w, r) == (ky * Deficit(w, r)) \div 100   \* mutant: no min(100, ..)

(* Percent of the yield lost to that deficit, at sensitivity ky.           *)
YieldLoss(ky, w, r) == Least(100, (ky * Deficit(w, r)) \div 100)

RainAccepted(w1, r1, w2, r2) ==
    r1 # 0 /\ r2 # 0 /\ w1 <= MAX_RAIN_E2 /\ w2 <= MAX_RAIN_E2

rdi_v1_drought_damage(w1, r1, w2, r2) ==
    100 - ((100 - YieldLoss(KY1_E2, w1, r1)) * (100 - YieldLoss(KY2_E2, w2, r2))) \div 100
=============================================================================
