------------------------------ MODULE MCDigest ------------------------------
(***************************************************************************)
(* Two determinations, the second altered step by step: one signed, the    *)
(* other one the signature must not fit.                                   *)
(***************************************************************************)
EXTENDS DigestEncoding

CONSTANTS contractA, contractB, net1, net2, hashA, hashB,
          MaxAlterations        \* bound

VARIABLES signed, other, alterations

digestVars == <<signed, other, alterations>>

SignedFields == {"latitude_e6", "longitude_e6", "sum_insured", "ndvi_scaled",
                 "weather_temp_c_e2", "payout_amount"}
HashFields == {"source_hash", "methodology_params_hash"}
CropFields ==
    {"on_chain_policy_id", "damage_percent_bp", "weather_damage", "satellite_damage",
     "payout_amount", "assessed_at", "latitude_e6", "longitude_e6", "sum_insured",
     "ndvi_scaled", "weather_present", "weather_temp_c_e2", "weather_precip_e2",
     "weather_humidity", "weather_wind_e2"}
DroughtFields ==
    {"on_chain_policy_id", "damage_percent_bp", "drought_damage", "payout_amount",
     "assessed_at", "latitude_e6", "longitude_e6", "sum_insured", "season_start_epoch",
     "lgp_days", "rain_w1_e2", "rain_ref_w1_e2", "rain_w2_e2", "rain_ref_w2_e2",
     "cdd_w2_days", "source_hash", "methodology_params_hash"}

Values(f) ==
    CASE f \in SignedFields -> Signed
      [] f \in HashFields -> {hashA, hashB}
      [] OTHER -> Unsigned

Fields(kind) == IF kind = "crop" THEN CropFields ELSE DroughtFields

Plain(kind) ==
    [kind |-> kind, contract |-> contractA, domain |-> net1,
     d |-> [f \in Fields(kind) |-> IF f \in HashFields THEN hashA ELSE 0]]

Digest(s) ==
    IF s.kind = "crop"
    THEN determination_digest(s.d, s.contract, s.domain)
    ELSE drought_determination_digest(s.d, s.contract, s.domain)

DigestInit ==
    /\ \E kind \in {"crop", "drought"}, n \in Signed :
          signed = [Plain(kind) EXCEPT !.d.sum_insured = n, !.d.payout_amount = n]
    /\ other = signed
    /\ alterations = 0

AlterField ==
    \E f \in Fields(other.kind) : \E v \in Values(f) \ {other.d[f]} :
        other' = [other EXCEPT !.d[f] = v]

AlterPlace ==
    \/ \E c \in {contractA, contractB} \ {other.contract} : other' = [other EXCEPT !.contract = c]
    \/ \E n \in {net1, net2} \ {other.domain} : other' = [other EXCEPT !.domain = n]
    \/ \E k \in {"crop", "drought"} \ {other.kind} : other' = Plain(k)

DigestNext ==
    /\ alterations < MaxAlterations
    /\ alterations' = alterations + 1
    /\ AlterField \/ AlterPlace
    /\ UNCHANGED signed

(* encoding.rs promises that no digest can serve two paths, contracts or   *)
(* networks: two determinations that differ anywhere, were it only in the  *)
(* sign of a coordinate, have different digests, so a signature or replay  *)
(* marker of one never fits the other.                                     *)
DigestBindsEverything == Digest(signed) = Digest(other) => signed = other

Number(word) ==
    LET value[i \in 0 .. 2 * Half] ==
            IF i = 0 THEN 0 ELSE value[i - 1] * Base + word[i][1]
    IN  value[2 * Half]

(* Every scalar is its value modulo the whole word, as an EVM slot holds   *)
(* it: the signer encodes with abi.encode and must get the same bytes, at  *)
(* the ends of both ranges too.                                            *)
WordsMatchEvmSlots ==
    \A f \in Fields(other.kind) \ HashFields :
        LET v == other.d[f]
            word == IF f \in SignedFields THEN word_from_i128(v) ELSE word_from_u128(v)
        IN  Number(word) = v % Base ^ (2 * Half)
=============================================================================
