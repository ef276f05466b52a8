---------------------------- MODULE MCSettlement ----------------------------
(***************************************************************************)
(* Small instances of the whole system: PolicyManager, PolicyNft,          *)
(* SettlementAdapter and PayoutReceiver wired as deploy.sh wires them.     *)
(***************************************************************************)
EXTENDS PayoutReceiver

CONSTANTS admin, backend, relayer, alice, org1, org2, nftA,
          adapterA, adapterB, receiver1, receiver2, key1, key2, net1, net2, ref1

MCNftWiring == [grants |-> {<<"Minter", PM>>}, manager |-> PM]
MCPmWiring == [grants |-> {<<"Backend", backend>>} \cup {<<"Oracle", r>> : r \in Receivers},
               policyNft |-> nftA]
MCSaWiring == [a \in Adapters |->
    [grants |-> {<<"Funder", backend>>},
     receiver |-> IF a = adapterA THEN receiver1 ELSE None]]
MCPrWiring == [r \in Receivers |->
    [grants |-> {<<"Relayer", relayer>>}, adapter |-> adapterA, signer |-> key1,
     domain |-> net1, methodologies |-> {"CropDroughtRdi10"}]]

Sale(o, sum, days) ==
    [farmer |-> alice, org |-> o, lat_e6 |-> 0, lon_e6 |-> 0, sum_insured |-> sum,
     premium |-> 1, duration_days |-> days, coverage_type |-> "Drought"]
MCRelayerGrant == {<<"Relayer", relayer>>}
MCSales == {Sale(org1, 4, 2)}

(* W1 at its reference, W2 at 70% of it: the index is 45.                  *)
Drought45(id, season, at) ==
    [on_chain_policy_id |-> id, damage_percent_bp |-> 4500, drought_damage |-> 45,
     payout_amount |-> 1, assessed_at |-> at, latitude_e6 |-> 1, longitude_e6 |-> 0,
     sum_insured |-> 4, season_start_epoch |-> season, lgp_days |-> 180,
     rain_w1_e2 |-> 20, rain_ref_w1_e2 |-> 20, rain_w2_e2 |-> 7, rain_ref_w2_e2 |-> 10,
     cdd_w2_days |-> 10, params_known |-> TRUE]

(* No rain at all: the whole sum.                                          *)
TotalLoss(id, season, at) ==
    [Drought45(id, season, at) EXCEPT !.damage_percent_bp = 10000, !.drought_damage = 100,
        !.payout_amount = 4, !.rain_w1_e2 = 0, !.rain_w2_e2 = 0]

(* One determination per check that must refuse it.                        *)
Refused(ok) ==
    {[ok EXCEPT !.payout_amount = 2], [ok EXCEPT !.sum_insured = 5],
     [ok EXCEPT !.latitude_e6 = 2], [ok EXCEPT !.longitude_e6 = -2],
     [ok EXCEPT !.rain_w2_e2 = 8], [ok EXCEPT !.rain_ref_w1_e2 = 0],
     [ok EXCEPT !.rain_w1_e2 = 31], [ok EXCEPT !.lgp_days = 120],
     [ok EXCEPT !.cdd_w2_days = 41], [ok EXCEPT !.params_known = FALSE],
     [ok EXCEPT !.season_start_epoch = @ + 1], [ok EXCEPT !.season_start_epoch = @ + 2],
     [ok EXCEPT !.damage_percent_bp = 4501],
     [ok EXCEPT !.rain_w2_e2 = 10, !.drought_damage = 0, !.damage_percent_bp = 0,
                !.payout_amount = 0]}

(* Crop damage: 60 weather and 20 satellite points, or 44 satellite points *)
(* alone, with one determination per check that must refuse it.            *)
Crop(id, at) ==
    [on_chain_policy_id |-> id, damage_percent_bp |-> 4400, weather_damage |-> 60,
     satellite_damage |-> 20, payout_amount |-> 1, assessed_at |-> at,
     latitude_e6 |-> 1, longitude_e6 |-> 0, sum_insured |-> 4, weather_present |-> 1]
SatelliteOnly(id, at) ==
    [Crop(id, at) EXCEPT !.weather_present = 0, !.weather_damage = 0, !.satellite_damage = 44]
RefusedCrop(ok) ==
    {[ok EXCEPT !.weather_present = 0], [ok EXCEPT !.weather_present = 2],
     [ok EXCEPT !.weather_damage = 61], [ok EXCEPT !.payout_amount = 2],
     [ok EXCEPT !.sum_insured = 5], [ok EXCEPT !.latitude_e6 = 2],
     [ok EXCEPT !.longitude_e6 = -2],
     [ok EXCEPT !.weather_damage = 0, !.satellite_damage = 110],
     [ok EXCEPT !.weather_present = 0, !.weather_damage = 0],
     [ok EXCEPT !.weather_damage = 101, !.satellite_damage = 100, !.damage_percent_bp = 10060],
     [ok EXCEPT !.weather_damage = 20, !.damage_percent_bp = 2000, !.payout_amount = 0]}
MCLegacyPolicy ==
    [farmer |-> alice, org |-> org1, lat_e6 |-> 0, lon_e6 |-> 0, sum_insured |-> 4,
     start_date |-> 0, end_date |-> 2, coverage_type |-> "Comprehensive",
     status |-> "Pending", created_at |-> 0]

Times == 0 .. MaxTime
MCDeterminations ==
    {Drought45(id, x[1], x[2]) :
        id \in 1 .. MaxPolicies, x \in {x \in {0, 2, 4} \X {2, 4, 6} : x[1] < x[2]}}
        \cup Refused(Drought45(1, 0, SEASON_WINDOW_SECS))
MCRivalDeterminations ==
    {Drought45(1, 0, at) : at \in Times} \cup {TotalLoss(id, 0, at) : id \in {1, 2}, at \in Times}
(* Drought determinations of both policies, and of the second one that     *)
(* tells of another plot or of a damage its rain does not give.            *)
MCLegacyDroughts ==
    LET ok == Drought45(2, 0, SEASON_WINDOW_SECS) IN
    {Drought45(id, 0, at) : id \in 1 .. MaxPolicies, at \in Times}
        \cup {[ok EXCEPT !.longitude_e6 = -2], [ok EXCEPT !.rain_w2_e2 = 8]}
MCCropDeterminations ==
    UNION {{Crop(id, at), SatelliteOnly(id, at)} : id \in 1 .. MaxPolicies, at \in Times}
        \cup RefusedCrop(Crop(1, 0))
=============================================================================
