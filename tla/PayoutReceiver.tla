--------------------------- MODULE PayoutReceiver ---------------------------
(***************************************************************************)
(* The settlement contract (crates/payout-receiver) composed with the      *)
(* three contracts it drives: a relayed, signed determination is checked   *)
(* against the policy, its obligation is recorded in the bound adapter and *)
(* the policy is marked claimed, all in one transaction.                   *)
(*                                                                         *)
(* A signature is modelled by the key secp256k1_recover returns for it,    *)
(* the digest by the fields it hashes: nothing below needs more of either. *)
(* Any determination may come signed by any key, also twice.  source_hash  *)
(* and the weather and NDVI readings, which no check reads, only tell      *)
(* determinations apart, as assessed_at already does, and are left out.    *)
(***************************************************************************)
EXTENDS PolicyManager, SettlementAdapter, DroughtIndex

CONSTANTS
    Keys,               \* public keys a signature may recover to
    Domains,            \* network domain separators
    PrGrants,           \* <<role, holder>> pairs the admin may grant and revoke
    PrWiring,           \* receiver -> [grants, adapter, signer, domain, methodologies]
    Disturbances,       \* bound: which administration and evictions a run includes
    Determinations,     \* the DroughtDeterminations relayers may submit
    CropDeterminations, \* the CropDeterminations relayers may submit
    LegacyPolicy,       \* a policy an earlier build sold, for LegacyInit
    MAX_REPORT_AGE, SEASON_WINDOW_SECS

MIN_DAMAGE_THRESHOLD == 3000
MAX_DAMAGE_PERCENTAGE == 10000
WEATHER_WEIGHT == 60
SATELLITE_WEIGHT == 40
WEIGHT_DENOMINATOR == 100
BASIS_POINTS == 10000
PLOT_COORD_TOLERANCE_E6 == 1
LGP_DAYS == 180
MAX_CDD_W2_DAYS == 40
Methodologies == {"CropDualIndex10", "CropDroughtRdi10"}

DroughtDetermination ==
    [on_chain_policy_id: Nat, damage_percent_bp: Nat, drought_damage: Nat,
     payout_amount: Int, assessed_at: Nat, latitude_e6: Int, longitude_e6: Int,
     sum_insured: Int, season_start_epoch: Nat, lgp_days: Nat, rain_w1_e2: Nat,
     rain_ref_w1_e2: Nat, rain_w2_e2: Nat, rain_ref_w2_e2: Nat, cdd_w2_days: Nat,
     params_known: BOOLEAN]    \* is methodology_params_hash the frozen one?

CropDetermination ==
    [on_chain_policy_id: Nat, damage_percent_bp: Nat, weather_damage: Nat,
     satellite_damage: Nat, payout_amount: Int, assessed_at: Nat,
     latitude_e6: Int, longitude_e6: Int, sum_insured: Int, weather_present: Nat]

ASSUME PrAssumption ==
    /\ Determinations \subseteq DroughtDetermination
    /\ CropDeterminations \subseteq CropDetermination
    /\ LegacyPolicy \in Policy /\ LegacyPolicy.status = "Pending"
    /\ LegacyPolicy.start_date = 0     \* sold no later than the upgrade
    /\ None \notin Keys \cup Domains
    /\ \A r \in Receivers :
          /\ PrWiring[r].adapter \in Adapters \cup {None}
          /\ PrWiring[r].signer \in Keys \cup {None}
          /\ PrWiring[r].domain \in Domains \cup {None}
          /\ PrWiring[r].methodologies \subseteq Methodologies
    /\ {MAX_REPORT_AGE, SEASON_WINDOW_SECS} \subseteq Nat

(* The smallest sum insured at the smallest payable damage pays something: *)
(* record_obligation would refuse a zero amount.                           *)
ASSUME SmallestPayout == MIN_SUM_INSURED * MIN_DAMAGE_THRESHOLD >= BASIS_POINTS

VARIABLES
    prRoles,            \* receiver -> role registry
    settlementAdapter,  \* receiver -> DataKey::SettlementAdapter
    authorizedSigner,   \* receiver -> key
    networkDomain,      \* receiver -> domain
    paused,             \* receiver -> BOOLEAN
    methodologyEnabled, \* receiver -> set of methodologies
    policyPaid,         \* receiver -> ids whose PolicyPaid is set
    reports,            \* receiver -> id -> DamageReport
    consumed            \* receiver -> digests whose temporary marker is live

settledVars == <<policyPaid, reports, consumed>>
prVars == <<prRoles, settlementAdapter, authorizedSigner, networkDomain, paused,
            methodologyEnabled, settledVars>>
vars == <<now, nftVars, pmVars, saVars, prVars>>

PrInit ==
    /\ prRoles = [r \in Receivers |->
                     {<<"Admin", Admin>>, <<"Upgrader", Admin>>} \cup PrWiring[r].grants]
    /\ settlementAdapter = [r \in Receivers |-> PrWiring[r].adapter]
    /\ authorizedSigner = [r \in Receivers |-> PrWiring[r].signer]
    /\ networkDomain = [r \in Receivers |-> PrWiring[r].domain]
    /\ paused = [r \in Receivers |-> FALSE]
    /\ methodologyEnabled = [r \in Receivers |-> PrWiring[r].methodologies]
    /\ policyPaid = [r \in Receivers |-> {}]
    /\ reports = [r \in Receivers |-> [id \in {} |-> None]]
    /\ consumed = [r \in Receivers |-> {}]

-----------------------------------------------------------------------------
(* The checks of a submission.                                             *)

begin_submission(r, caller, kind) ==
    /\ has_role(prRoles[r], "Relayer", caller)
    /\ ~paused[r]
    /\ authorizedSigner[r] # None
    /\ kind \in methodologyEnabled[r]

DamageRecomputed_Trusted(d) ==          \* mutant: the result is not compared
    RainAccepted(d.rain_w1_e2, d.rain_ref_w1_e2, d.rain_w2_e2, d.rain_ref_w2_e2)

(* Step 5: the damage follows from the signed rain.                        *)
DamageRecomputed(d) ==
    /\ RainAccepted(d.rain_w1_e2, d.rain_ref_w1_e2, d.rain_w2_e2, d.rain_ref_w2_e2)
    /\ d.drought_damage = rdi_v1_drought_damage(d.rain_w1_e2, d.rain_ref_w1_e2,
                                                d.rain_w2_e2, d.rain_ref_w2_e2)

(* Steps 3 to 6: the evidence is within the methodology, the damage is the *)
(* index of the signed rain, in basis points, and reaches the threshold.   *)
EvidenceAccepted(d) ==
    /\ d.damage_percent_bp <= MAX_DAMAGE_PERCENTAGE
    /\ d.drought_damage <= 100
    /\ d.lgp_days = LGP_DAYS
    /\ d.cdd_w2_days <= MAX_CDD_W2_DAYS
    /\ d.rain_ref_w1_e2 <= MAX_RAIN_E2
    /\ d.rain_ref_w2_e2 <= MAX_RAIN_E2
    /\ d.season_start_epoch % SECONDS_PER_DAY = 0
    /\ d.params_known
    /\ d.damage_percent_bp = d.drought_damage * 100
    /\ DamageRecomputed(d)
    /\ d.damage_percent_bp >= MIN_DAMAGE_THRESHOLD

open_policy_NoExpiry(r, id) ==         \* mutant: PolicyExpired is dropped
    policy_exists(id) /\ policies[id].status = "Active" /\ id \notin policyPaid[r]

open_policy(r, id) ==
    /\ is_policy_active(id)
    /\ id \notin policyPaid[r]

Within(a, b, tolerance) == a - b <= tolerance /\ b - a <= tolerance

require_plot_Latitude(p, lat, lon) ==  \* mutant: the longitude is not compared
    Within(lat, p.lat_e6, PLOT_COORD_TOLERANCE_E6)

require_plot(p, lat, lon) ==
    /\ Within(lat, p.lat_e6, PLOT_COORD_TOLERANCE_E6)
    /\ Within(lon, p.lon_e6, PLOT_COORD_TOLERANCE_E6)

SeasonInsideCover_NotOver(p, d) ==     \* mutant: SeasonNotComplete is dropped
    /\ d.season_start_epoch >= p.start_date - (p.start_date % SECONDS_PER_DAY)
    /\ d.season_start_epoch + SEASON_WINDOW_SECS <= p.end_date

(* Step 11: the season starts no earlier than the day the cover did, and   *)
(* was over, inside the cover, when it was assessed.                       *)
SeasonInsideCover(p, d) ==
    LET start_day == p.start_date - (p.start_date % SECONDS_PER_DAY)
        window_end == d.season_start_epoch + SEASON_WINDOW_SECS
    IN
    /\ d.season_start_epoch >= start_day
    /\ window_end <= p.end_date
    /\ d.assessed_at >= window_end

PayoutFor_RoundedUp(p, bp) ==          \* mutant: ceiling instead of floor
    (p.sum_insured * bp + BASIS_POINTS - 1) \div BASIS_POINTS

PayoutFor(p, bp) == (p.sum_insured * bp) \div BASIS_POINTS

require_payout(p, bp, payout) == payout = PayoutFor(p, bp)

require_fresh_and_claimable(p, assessed_at) ==
    /\ assessed_at <= now
    /\ now <= assessed_at + MAX_REPORT_AGE
    /\ can_farmer_claim(p.farmer)

(* The digest binds the methodology, every field, this contract and the    *)
(* network domain.                                                         *)
drought_determination_digest(r, d) == <<"CropDroughtRdi10", d, r, networkDomain[r]>>

require_unconsumed_and_signed(r, digest, key) ==
    /\ digest \notin consumed[r]
    /\ key = authorizedSigner[r]

Verified(r, caller, d, key) ==
    /\ begin_submission(r, caller, "CropDroughtRdi10")
    /\ EvidenceAccepted(d)
    /\ open_policy(r, d.on_chain_policy_id)
    /\ LET p == policies[d.on_chain_policy_id] IN
       /\ p.coverage_type = "Drought"
       /\ d.sum_insured = p.sum_insured
       /\ require_plot(p, d.latitude_e6, d.longitude_e6)
       /\ SeasonInsideCover(p, d)
       /\ require_payout(p, d.damage_percent_bp, d.payout_amount)
       /\ require_fresh_and_claimable(p, d.assessed_at)
    /\ networkDomain[r] # None
    /\ require_unconsumed_and_signed(r, drought_determination_digest(r, d), key)

(* The retired crop path: the damage is the weighted sum of the two        *)
(* sub-scores, or the satellite score alone when no weather was read.      *)
WeightedDamage(d) ==
    IF d.weather_present = 0
    THEN d.satellite_damage * WEIGHT_DENOMINATOR
    ELSE WEATHER_WEIGHT * d.weather_damage + SATELLITE_WEIGHT * d.satellite_damage

(* Steps 2 to 5.                                                           *)
CropEvidenceAccepted(d) ==
    /\ d.damage_percent_bp <= MAX_DAMAGE_PERCENTAGE
    /\ d.weather_damage <= 100 /\ d.satellite_damage <= 100
    /\ d.weather_present <= 1
    /\ d.weather_present = 0 => d.weather_damage = 0
    /\ d.damage_percent_bp = WeightedDamage(d)
    /\ d.damage_percent_bp >= MIN_DAMAGE_THRESHOLD

CropCover_Any(p) == TRUE               \* mutant: step 6c is dropped

CropCover(p) == p.coverage_type = "Comprehensive"

determination_digest(r, d) == <<"CropDualIndex10", d, r, networkDomain[r]>>

CropVerified(r, caller, d, key) ==
    /\ begin_submission(r, caller, "CropDualIndex10")
    /\ CropEvidenceAccepted(d)
    /\ open_policy(r, d.on_chain_policy_id)
    /\ LET p == policies[d.on_chain_policy_id] IN
       /\ d.sum_insured = p.sum_insured
       /\ CropCover(p)
       /\ require_plot(p, d.latitude_e6, d.longitude_e6)
       /\ require_payout(p, d.damage_percent_bp, d.payout_amount)
       /\ require_fresh_and_claimable(p, d.assessed_at)
    /\ networkDomain[r] # None
    /\ require_unconsumed_and_signed(r, determination_digest(r, d), key)

-----------------------------------------------------------------------------
MarkPaid_Forgotten(r, id) == UNCHANGED policyPaid  \* mutant: PolicyPaid is not set

MarkPaid(r, id) == policyPaid' = [policyPaid EXCEPT ![r] = @ \cup {id}]

(* Effects and interactions of a verified determination.  The adapter must *)
(* hand back this very obligation, still Owed.                             *)
settle_verified(r, report, digest) ==
    LET id == report.policy_id
        a == settlementAdapter[r]
        p == policies[id]
    IN
    /\ consumed' = [consumed EXCEPT ![r] = @ \cup {digest}]
    /\ MarkPaid(r, id)
    /\ reports' = [reports EXCEPT ![r] = Put(@, id, report)]
    /\ a \in Adapters
    /\ record_obligation(a, r, id, p.org, report.payout_amount, digest)
    /\ LET ob == RecordedObligation(a, r, id) IN
       /\ ob.payout_receiver = r
       /\ ob.policy_id = id
       /\ SameObligation(ob, p.org, report.payout_amount, digest)
       /\ ob.status = "Owed"
    /\ mark_as_claimed(r, id)
    /\ increment_claim_count(r, p.farmer)
    /\ UNCHANGED <<prRoles, settlementAdapter, authorizedSigner, networkDomain,
                   paused, methodologyEnabled>>

DroughtReport(d) ==
    [policy_id |-> d.on_chain_policy_id, damage_percentage |-> d.damage_percent_bp,
     weather_damage |-> 0, satellite_damage |-> 0,
     payout_amount |-> d.payout_amount, assessed_at |-> d.assessed_at]

submit_drought_determination(r, caller, d, key) ==
    /\ Verified(r, caller, d, key)
    /\ settle_verified(r, DroughtReport(d), drought_determination_digest(r, d))

CropReport(d) ==
    [policy_id |-> d.on_chain_policy_id, damage_percentage |-> d.damage_percent_bp,
     weather_damage |-> d.weather_damage, satellite_damage |-> d.satellite_damage,
     payout_amount |-> d.payout_amount, assessed_at |-> d.assessed_at]

submit_determination(r, caller, d, key) ==
    /\ CropVerified(r, caller, d, key)
    /\ settle_verified(r, CropReport(d), determination_digest(r, d))

-----------------------------------------------------------------------------
(* Administration.                                                         *)

(* Only an adapter already bound to this contract is accepted.             *)
set_settlement_adapter(r, caller, a) ==
    /\ has_role(prRoles[r], "Admin", caller)
    /\ a \in Adapters
    /\ saPayoutReceiver[a] = r
    /\ settlementAdapter' = [settlementAdapter EXCEPT ![r] = a]
    /\ UNCHANGED <<prRoles, authorizedSigner, networkDomain, paused,
                   methodologyEnabled, settledVars>>

set_authorized_signer(r, caller, key) ==
    /\ has_role(prRoles[r], "Admin", caller)
    /\ authorizedSigner' = [authorizedSigner EXCEPT ![r] = key]
    /\ UNCHANGED <<prRoles, settlementAdapter, networkDomain, paused,
                   methodologyEnabled, settledVars>>

set_network_domain(r, caller, domain) ==
    /\ has_role(prRoles[r], "Admin", caller)
    /\ networkDomain' = [networkDomain EXCEPT ![r] = domain]
    /\ UNCHANGED <<prRoles, settlementAdapter, authorizedSigner, paused,
                   methodologyEnabled, settledVars>>

SetPaused(r, caller, value) ==
    /\ has_role(prRoles[r], "Admin", caller)
    /\ paused' = [paused EXCEPT ![r] = value]
    /\ UNCHANGED <<prRoles, settlementAdapter, authorizedSigner, networkDomain,
                   methodologyEnabled, settledVars>>

pause(r, caller) == SetPaused(r, caller, TRUE)

unpause(r, caller) == SetPaused(r, caller, FALSE)

set_methodology_enabled(r, caller, kind, enabled) ==
    /\ has_role(prRoles[r], "Admin", caller)
    /\ methodologyEnabled' = [methodologyEnabled EXCEPT ![r] =
                                 IF enabled THEN @ \cup {kind} ELSE @ \ {kind}]
    /\ UNCHANGED <<prRoles, settlementAdapter, authorizedSigner, networkDomain,
                   paused, settledVars>>

SetRoles(r, caller, registry) ==
    /\ has_role(prRoles[r], "Admin", caller)
    /\ prRoles' = [prRoles EXCEPT ![r] = registry]
    /\ UNCHANGED <<settlementAdapter, authorizedSigner, networkDomain, paused,
                   methodologyEnabled, settledVars>>

pr_grant_role(r, caller, role, who) ==
    SetRoles(r, caller, with_role(prRoles[r], role, who))

pr_revoke_role(r, caller, role, who) ==
    SetRoles(r, caller, without_role(prRoles[r], role, who))

(* The host drops a temporary entry when its time to live runs out.  No    *)
(* lower bound on when is assumed.                                         *)
EvictConsumed(r, digest) ==
    /\ digest \in consumed[r]
    /\ consumed' = [consumed EXCEPT ![r] = @ \ {digest}]
    /\ UNCHANGED <<prRoles, settlementAdapter, authorizedSigner, networkDomain,
                   paused, methodologyEnabled, policyPaid, reports>>

-----------------------------------------------------------------------------
PrAdminStep(r, caller) ==
    \/ "adapter" \in Disturbances /\ \E a \in Adapters : set_settlement_adapter(r, caller, a)
    \/ "signer" \in Disturbances /\ \E k \in Keys : set_authorized_signer(r, caller, k)
    \/ "domain" \in Disturbances /\ \E d \in Domains : set_network_domain(r, caller, d)
    \/ "pause" \in Disturbances /\ (pause(r, caller) \/ unpause(r, caller))
    \/ "methodology" \in Disturbances
          /\ \E k \in Methodologies, e \in BOOLEAN : set_methodology_enabled(r, caller, k, e)
    \/ \E g \in PrGrants : pr_grant_role(r, caller, g[1], g[2])
    \/ \E g \in PrGrants : pr_revoke_role(r, caller, g[1], g[2])

Settlement ==
    \E r \in Receivers, caller \in Accounts, k \in Keys :
        \/ \E d \in Determinations : submit_drought_determination(r, caller, d, k)
        \/ \E d \in CropDeterminations : submit_determination(r, caller, d, k)

Init == now = 0 /\ NftInit /\ PmInit /\ SaInit /\ PrInit

(* This build, upgraded onto storage in which an earlier build, which sold *)
(* Comprehensive cover (docs/MIGRATION_NOTES.md:432), left one policy      *)
(* PENDING and counted.                                                    *)
LegacyInit ==
    LET f == LegacyPolicy.farmer
        o == LegacyPolicy.org
    IN
    /\ now = 0 /\ NftInit /\ SaInit /\ PrInit
    /\ policyCounter = 1
    /\ policies = [id \in {1} |-> LegacyPolicy]
    /\ farmerPolicies = [x \in Farmers |-> IF x = f THEN <<1>> ELSE << >>]
    /\ farmerActiveCount = [x \in Farmers |-> 0]
    /\ farmerPendingCount = [x \in Farmers |-> IF x = f THEN 1 ELSE 0]
    /\ farmerClaimTimes = [x \in Farmers |-> << >>]
    /\ pendingCounted = {1}
    /\ orgOutstanding = [x \in Orgs |-> IF x = o THEN LegacyPolicy.sum_insured ELSE 0]
    /\ pmRoles = {<<"Admin", Admin>>, <<"Upgrader", Admin>>} \cup PmWiring.grants
    /\ policyNft = PmWiring.policyNft

Next ==
    \/ Settlement /\ UNCHANGED now
    \/ /\ \/ \E r \in Receivers, caller \in Accounts : PrAdminStep(r, caller)
          \/ /\ "evict" \in Disturbances
             /\ \E r \in Receivers : \E digest \in consumed[r] : EvictConsumed(r, digest)
       /\ UNCHANGED <<now, nftVars, pmVars, saVars>>
    \/ PmStep /\ UNCHANGED <<now, saVars, prVars>>
    \/ NftStep /\ UNCHANGED <<now, pmVars, saVars, prVars>>
    \/ SaStep /\ UNCHANGED <<now, nftVars, pmVars, prVars>>
    \/ Tick /\ UNCHANGED <<nftVars, pmVars, saVars, prVars>>

Spec == Init /\ [][Next]_vars
LegacySpec == LegacyInit /\ [][Next]_vars

-----------------------------------------------------------------------------
(* Properties of the composed system.                                      *)

(* The receivers' storage keeps its shape, a report is kept for exactly    *)
(* the policies marked paid, and those are policies the manager knows.     *)
PrTypeOK ==
    /\ settlementAdapter \in [Receivers -> Adapters \cup {None}]
    /\ authorizedSigner \in [Receivers -> Keys \cup {None}]
    /\ networkDomain \in [Receivers -> Domains \cup {None}]
    /\ paused \in [Receivers -> BOOLEAN]
    /\ methodologyEnabled \in [Receivers -> SUBSET Methodologies]
    /\ policyPaid \in [Receivers -> SUBSET DOMAIN policies]
    /\ DOMAIN reports = Receivers
    /\ \A r \in Receivers : DOMAIN reports[r] = policyPaid[r]

AllObligations == UNION {{<<a, id>> : id \in DOMAIN obligations[a]} : a \in Adapters}

ObligationsFor(policyId) ==
    {x \in AllObligations : obligations[x[1]][x[2]].policy_id = policyId}

(* A policy is paid at most once, in one adapter, by one receiver, and is  *)
(* CLAIMED exactly when it was: across replays, evicted markers, adapter   *)
(* swaps, receiver rotation and several receivers on one PolicyManager.    *)
PaidExactlyOnce ==
    \A id \in DOMAIN policies :
        /\ Cardinality(ObligationsFor(id)) <= 1
        /\ policies[id].status = "Claimed" <=> ObligationsFor(id) # {}
        /\ policies[id].status = "Claimed" <=> \E r \in Receivers : id \in policyPaid[r]

(* What an obligation has to be, given the policy and the kept report.     *)
Earned(ob, p, rep) ==
    /\ ob.org = p.org
    /\ ob.amount = rep.payout_amount
    /\ ob.amount \in 1 .. p.sum_insured
    /\ ob.amount * BASIS_POINTS <= p.sum_insured * rep.damage_percentage
    /\ (ob.amount + 1) * BASIS_POINTS > p.sum_insured * rep.damage_percentage
    /\ rep.damage_percentage \in MIN_DAMAGE_THRESHOLD .. MAX_DAMAGE_PERCENTAGE
    /\ ob.recorded_at \in p.start_date .. p.end_date
    /\ p.coverage_type = "Drought" =>
           ob.recorded_at + SECONDS_PER_DAY > p.start_date + SEASON_WINDOW_SECS
    /\ ob.recorded_at - rep.assessed_at \in 0 .. MAX_REPORT_AGE

(* Every obligation is owed by the policy's own org, for the floor of the  *)
(* insured share and never more than the sum insured, on a report kept by  *)
(* its receiver, recorded inside the cover window and, for drought, not    *)
(* before a whole season has passed since the day the cover started.       *)
ObligationsAreEarned ==
    \A x \in AllObligations :
        LET ob == obligations[x[1]][x[2]]
        IN  Earned(ob, policies[ob.policy_id], reports[ob.payout_receiver][ob.policy_id])

(* Audit finding 3: a farmer's open policies and the claims still in the   *)
(* window never exceed the cap, so the claim limit never turns away a      *)
(* policy the farmer has paid a premium for.                               *)
SoldCoverCanPay ==
    \A f \in Farmers :
        /\ farmerActiveCount[f] + farmerPendingCount[f] + claims_in_window(f)
               <= MAX_ACTIVE_POLICIES_PER_FARMER
        /\ farmerActiveCount[f] + farmerPendingCount[f] > 0 => can_farmer_claim(f)

(* No farmer is ever owed for more than the cap in any rolling window,     *)
(* counted over the obligations themselves and not over the short list of  *)
(* claim times the manager keeps.                                          *)
RollingClaimCap ==
    \A f \in Farmers, t \in 0 .. now :
        Cardinality({x \in AllObligations :
            LET ob == obligations[x[1]][x[2]] IN
            /\ policies[ob.policy_id].farmer = f
            /\ ob.recorded_at \in t .. t + CLAIM_WINDOW_SECS - 1})
        <= MAX_CLAIMS_PER_FARMER_PER_YEAR

(* Once the receiver's own checks pass, none of the three contracts it     *)
(* calls refuses: a verified determination settles, so no valid claim is   *)
(* lost to a disagreement between the contracts' views of the policy.      *)
SiblingsNeverRefuse ==
    \A r \in Receivers, caller \in Accounts, k \in Keys :
        /\ \A d \in Determinations :
              Verified(r, caller, d, k) =>
                  ENABLED settle_verified(r, DroughtReport(d), drought_determination_digest(r, d))
        /\ \A d \in CropDeterminations :
              CropVerified(r, caller, d, k) =>
                  ENABLED settle_verified(r, CropReport(d), determination_digest(r, d))

(* Is p settled on rep by the methodology that may read determination d,   *)
(* for the damage that follows from what d says was measured?              *)
Fits(d, p, rep) ==
    \/ /\ p.coverage_type = "Drought"
       /\ d \in Determinations
       /\ rep.weather_damage = 0 /\ rep.satellite_damage = 0
       /\ rep.damage_percentage =
             100 * rdi_v1_drought_damage(d.rain_w1_e2, d.rain_ref_w1_e2,
                                         d.rain_w2_e2, d.rain_ref_w2_e2)
    \/ /\ p.coverage_type = "Comprehensive"
       /\ d \in CropDeterminations
       /\ rep.damage_percentage =
             IF d.weather_present = 1
             THEN 60 * rep.weather_damage + 40 * rep.satellite_damage
             ELSE 100 * rep.satellite_damage

(* A cover is settled only by the methodology that measures its peril,     *)
(* whichever methodologies the admin had enabled when, and for the damage  *)
(* its evidence gives: drought cover by the index of the rain in the       *)
(* determination behind the debt, Comprehensive cover by the two           *)
(* sub-scores, weighted over what was read.                                *)
EvidenceFitsCover ==
    \A x \in AllObligations :
        LET ob == obligations[x[1]][x[2]]
        IN  Fits(ob.determination_digest[2], policies[ob.policy_id],
                 reports[ob.payout_receiver][ob.policy_id])

(* Was d measured for policy id, at its plot p, within the tolerance?      *)
MeasuredFor(d, id, p) ==
    /\ d.on_chain_policy_id = id
    /\ d.latitude_e6 - p.lat_e6 \in -PLOT_COORD_TOLERANCE_E6 .. PLOT_COORD_TOLERANCE_E6
    /\ d.longitude_e6 - p.lon_e6 \in -PLOT_COORD_TOLERANCE_E6 .. PLOT_COORD_TOLERANCE_E6

(* The determination behind a debt was made for the policy it is owed on,  *)
(* and at that policy's plot, on both settlement paths: rain or damage     *)
(* measured elsewhere is never paid for.                                   *)
EvidenceIsOfThePlot ==
    \A x \in AllObligations :
        LET ob == obligations[x[1]][x[2]]
        IN  MeasuredFor(ob.determination_digest[2], ob.policy_id, policies[ob.policy_id])
=============================================================================
