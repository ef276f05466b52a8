--------------------------- MODULE DigestEncoding ---------------------------
(***************************************************************************)
(* The frozen byte layout a determination is signed over                   *)
(* (crates/shared/src/encoding.rs).                                        *)
(*                                                                         *)
(* A byte is a digit in base Base, written as a 1-tuple; a word has two    *)
(* halves of Half bytes, 16 in the code.  keccak256 and the XDR form of an *)
(* address are injective and otherwise opaque: byte i of the hash of m is  *)
(* the symbol <<"keccak", m, i>>.                                          *)
(***************************************************************************)
EXTENDS Integers, Sequences

CONSTANTS
    Base, Half,     \* width of the machine integers: Half digits in base Base
    XdrBytes        \* length of an address in XDR, 40 in the code

ASSUME EncodingAssumption ==
    /\ Base \in Nat \ {0, 1} /\ Base % 2 = 0
    /\ {Half, XdrBytes} \subseteq Nat \ {0}

Word == 1 .. 2 * Half
Signed == -((Base ^ Half) \div 2) .. (Base ^ Half) \div 2 - 1     \* i128
Unsigned == 0 .. Base ^ Half - 1                                  \* u128

(* to_be_bytes: byte i of the low half of a word, two's complement.        *)
LowByte(v, i) == <<((v % Base ^ Half) \div Base ^ (2 * Half - i)) % Base>>

word_from_i128_ZeroPadded(v) ==        \* mutant: the sign is not extended
    [i \in Word |-> IF i <= Half THEN <<0>> ELSE LowByte(v, i)]

word_from_i128(v) ==
    [i \in Word |-> IF i <= Half THEN <<IF v < 0 THEN Base - 1 ELSE 0>> ELSE LowByte(v, i)]

word_from_u128(v) == [i \in Word |-> IF i <= Half THEN <<0>> ELSE LowByte(v, i)]

keccak256(m) == [i \in Word |-> <<"keccak", m, i>>]
to_xdr(contract) == [i \in 1 .. XdrBytes |-> <<"xdr", contract, i>>]
to_array(bytes32) == [i \in Word |-> <<"raw", bytes32, i>>]

SCHEMA_VERSION == <<"1.0">>
KIND_CROP == <<"CROP_DAMAGE">>
METHODOLOGY_CROP == <<"crop-dualindex-1.0">>
KIND_DROUGHT == <<"CROP_DROUGHT">>
METHODOLOGY_DROUGHT_RDI_1_0 == <<"crop-drought-rdi-1.0">>

-----------------------------------------------------------------------------
(* CROP_DAMAGE.                                                            *)

encode_inputs(d) ==
    word_from_u128(d.on_chain_policy_id) \o word_from_i128(d.latitude_e6)
    \o word_from_i128(d.longitude_e6) \o word_from_i128(d.sum_insured)
    \o word_from_i128(d.ndvi_scaled) \o word_from_u128(d.weather_present)
    \o word_from_i128(d.weather_temp_c_e2) \o word_from_u128(d.weather_precip_e2)
    \o word_from_u128(d.weather_humidity) \o word_from_u128(d.weather_wind_e2)

encode_preimage(inputs_hash, d, contract, network_domain) ==
    keccak256(SCHEMA_VERSION) \o keccak256(KIND_CROP) \o keccak256(METHODOLOGY_CROP)
    \o to_array(network_domain) \o to_xdr(contract) \o inputs_hash
    \o word_from_u128(d.on_chain_policy_id) \o word_from_u128(d.damage_percent_bp)
    \o word_from_u128(d.weather_damage) \o word_from_u128(d.satellite_damage)
    \o word_from_i128(d.payout_amount) \o word_from_u128(d.assessed_at)

determination_digest(d, contract, network_domain) ==
    keccak256(encode_preimage(keccak256(encode_inputs(d)), d, contract, network_domain))

-----------------------------------------------------------------------------
(* CROP_DROUGHT.                                                           *)

encode_drought_inputs_NoSource(d) ==   \* mutant: source_hash is not signed
    word_from_u128(d.on_chain_policy_id) \o word_from_i128(d.latitude_e6)
    \o word_from_i128(d.longitude_e6) \o word_from_i128(d.sum_insured)
    \o word_from_u128(d.season_start_epoch) \o word_from_u128(d.lgp_days)
    \o word_from_u128(d.rain_w1_e2) \o word_from_u128(d.rain_ref_w1_e2)
    \o word_from_u128(d.rain_w2_e2) \o word_from_u128(d.rain_ref_w2_e2)
    \o word_from_u128(d.cdd_w2_days) \o to_array(d.methodology_params_hash)

encode_drought_inputs(d) ==
    word_from_u128(d.on_chain_policy_id) \o word_from_i128(d.latitude_e6)
    \o word_from_i128(d.longitude_e6) \o word_from_i128(d.sum_insured)
    \o word_from_u128(d.season_start_epoch) \o word_from_u128(d.lgp_days)
    \o word_from_u128(d.rain_w1_e2) \o word_from_u128(d.rain_ref_w1_e2)
    \o word_from_u128(d.rain_w2_e2) \o word_from_u128(d.rain_ref_w2_e2)
    \o word_from_u128(d.cdd_w2_days)
    \o to_array(d.source_hash) \o to_array(d.methodology_params_hash)

encode_drought_preimage(inputs_hash, d, contract, network_domain) ==
    keccak256(SCHEMA_VERSION) \o keccak256(KIND_DROUGHT)
    \o keccak256(METHODOLOGY_DROUGHT_RDI_1_0)
    \o to_array(network_domain) \o to_xdr(contract) \o inputs_hash
    \o word_from_u128(d.on_chain_policy_id) \o word_from_u128(d.damage_percent_bp)
    \o word_from_u128(d.drought_damage) \o word_from_i128(d.payout_amount)
    \o word_from_u128(d.assessed_at)

drought_determination_digest(d, contract, network_domain) ==
    keccak256(encode_drought_preimage(keccak256(encode_drought_inputs(d)), d,
                                      contract, network_domain))
=============================================================================
