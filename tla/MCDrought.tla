----------------------------- MODULE MCDrought -----------------------------
(***************************************************************************)
(* The drought index over every small season: two windows of rain against  *)
(* two references, and one more unit of rain at a time.                    *)
(***************************************************************************)
EXTENDS DroughtIndex

CONSTANT MaxReference       \* bound: references are 1 .. MaxReference

ASSUME SeasonAssumption == MaxReference \in Nat

VARIABLES w1, r1, w2, r2

season == <<w1, r1, w2, r2>>
Damage == rdi_v1_drought_damage(w1, r1, w2, r2)

DroughtInit ==
    /\ r1 \in 1 .. MaxReference /\ r2 \in 1 .. MaxReference
    /\ w1 = 0 /\ w2 = 0

(* Rain falls in one window, up to what the contract still accepts.        *)
DroughtNext ==
    /\ \/ w1' = w1 + 1 /\ UNCHANGED <<r1, w2, r2>>
       \/ w2' = w2 + 1 /\ UNCHANGED <<w1, r1, r2>>
    /\ RainAccepted(w1', r1', w2', r2')

(* The rule the index rounds, without rounding: the share of the yield     *)
(* left after a loss of ky times the missing share of rain, as a fraction  *)
(* over 100 * r.                                                           *)
YieldLeft(ky, w, r) ==
    LET left == 100 * r - ky * (r - Least(w, r)) IN IF left > 0 THEN left ELSE 0

(* drought.rs rounds five times.  The result stays within two points below *)
(* and three above the exact yield-response rule, at every season.         *)
TracksYieldResponse ==
    LET exact == 100 * 100 * r1 * r2 - YieldLeft(KY1_E2, w1, r1) * YieldLeft(KY2_E2, w2, r2)
        scale == 100 * r1 * r2
    IN  /\ (Damage + 2) * scale > exact
        /\ (Damage - 3) * scale < exact

(* The two ends the tests pin, at every reference: no shortfall is no      *)
(* damage, and no rain at all is total damage.                             *)
EndsExact ==
    /\ (w1 >= r1 /\ w2 >= r2) => Damage = 0
    /\ (w1 = 0 /\ w2 = 0) => Damage = 100
    /\ Damage \in 0 .. 100

(* More rain never raises the damage, in spite of the rounding: a farmer   *)
(* cannot be owed more for a wetter season.                                *)
WetterNeverPaysMore == [][Damage' <= Damage]_season
=============================================================================
