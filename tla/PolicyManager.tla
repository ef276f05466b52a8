--------------------------- MODULE PolicyManager ---------------------------
(***************************************************************************)
(* The policy lifecycle contract (crates/policy-manager), with the         *)
(* certificate contracts it calls: PENDING -> ACTIVE -> CLAIMED, CANCELLED *)
(* or EXPIRED, and the counters kept beside the policies (the farmer's     *)
(* open-policy slots and claim window, the org's outstanding exposure).    *)
(*                                                                         *)
(* A step of this contract may also write the variables of PolicyNft: the  *)
(* call it makes there is part of the same transaction.                    *)
(***************************************************************************)
EXTENDS PolicyNft

CONSTANTS
    Farmers,
    NftAddrs,       \* addresses set_policy_nft may be given; Nfts are the real ones
    PmGrants,       \* <<role, holder>> pairs the admin may grant and revoke
    PmWiring,       \* what the deployment left: [grants, policyNft]
    SaleRequests,   \* what the backend may ask create_policy for, valid or not
    MIN_SUM_INSURED, MAX_SUM_INSURED,
    MIN_DURATION_DAYS, MIN_DROUGHT_DURATION_DAYS, MAX_DURATION_DAYS,
    MAX_ACTIVE_POLICIES_PER_FARMER, MAX_CLAIMS_PER_FARMER_PER_YEAR,
    CLAIM_WINDOW_SECS, SECONDS_PER_DAY,
    MAX_LAT_E6, MAX_LON_E6,
    MaxPolicies     \* bound: no policy is sold after this many

CoverageTypes == {"Drought", "Flood", "Both", "ExcessRain", "Comprehensive"}
PolicyStatuses == {"Pending", "Active", "Expired", "Cancelled", "Claimed"}
OpenStatuses == {"Pending", "Active"}

SaleRequest ==
    [farmer: Farmers, org: Orgs, lat_e6: Int, lon_e6: Int, sum_insured: Int,
     premium: Int, duration_days: Nat, coverage_type: CoverageTypes]

ASSUME PmAssumption ==
    /\ SaleRequests \subseteq SaleRequest
    /\ None \notin NftAddrs
    /\ PmWiring.policyNft \in NftAddrs \cup {None}
    /\ MIN_SUM_INSURED \in Nat \ {0}
    /\ MAX_SUM_INSURED \in Nat
    /\ {MIN_DURATION_DAYS, MAX_DURATION_DAYS} \subseteq Nat
    /\ MIN_DROUGHT_DURATION_DAYS \in Nat \ {0}
    /\ MAX_ACTIVE_POLICIES_PER_FARMER \in Nat
    /\ MAX_CLAIMS_PER_FARMER_PER_YEAR \in Nat \ {0}
    /\ CLAIM_WINDOW_SECS \in Nat
    /\ SECONDS_PER_DAY \in Nat \ {0}
    /\ {MAX_LAT_E6, MAX_LON_E6} \subseteq Nat
    /\ MaxPolicies \in Nat

VARIABLES
    policyCounter,
    policies,            \* policy id -> Policy
    farmerPolicies,      \* farmer -> policy ids, in creation order
    farmerActiveCount,
    farmerPendingCount,
    farmerClaimTimes,    \* farmer -> times of the latest claims, oldest first
    pendingCounted,      \* the ids whose PendingCounted marker is set
    orgOutstanding,
    pmRoles,
    policyNft            \* DataKey::PolicyNft

bookVars == <<policyCounter, policies, farmerPolicies, farmerActiveCount,
              farmerPendingCount, pendingCounted, orgOutstanding>>
pmVars == <<bookVars, farmerClaimTimes, pmRoles, policyNft>>

Policy ==
    [farmer: Farmers, org: Orgs, lat_e6: Int, lon_e6: Int, sum_insured: Nat,
     start_date: Nat, end_date: Nat, coverage_type: CoverageTypes,
     status: PolicyStatuses, created_at: Nat]

PmInit ==
    /\ policyCounter = 0
    /\ policies = [id \in {} |-> None]
    /\ farmerPolicies = [f \in Farmers |-> << >>]
    /\ farmerActiveCount = [f \in Farmers |-> 0]
    /\ farmerPendingCount = [f \in Farmers |-> 0]
    /\ farmerClaimTimes = [f \in Farmers |-> << >>]
    /\ pendingCounted = {}
    /\ orgOutstanding = [o \in Orgs |-> 0]
    /\ pmRoles = {<<"Admin", Admin>>, <<"Upgrader", Admin>>} \cup PmWiring.grants
    /\ policyNft = PmWiring.policyNft

-----------------------------------------------------------------------------
(* Views and helpers.                                                      *)

policy_exists(id) == id \in DOMAIN policies

is_policy_active_AnyStatus(id) ==      \* mutant: only the window is checked
    policy_exists(id) /\ now <= policies[id].end_date

is_policy_active(id) ==
    policy_exists(id) /\ policies[id].status = "Active" /\ now <= policies[id].end_date

(* A claim counts until it is exactly CLAIM_WINDOW_SECS old.               *)
claims_in_window(f) ==
    Cardinality({i \in DOMAIN farmerClaimTimes[f] :
                    now < farmerClaimTimes[f][i] + CLAIM_WINDOW_SECS})

can_farmer_claim(f) == claims_in_window(f) < MAX_CLAIMS_PER_FARMER_PER_YEAR

(* What create_policy checks of its arguments.                             *)
Sellable(r) ==
    /\ r.sum_insured >= MIN_SUM_INSURED
    /\ r.sum_insured <= MAX_SUM_INSURED
    /\ r.premium > 0
    /\ r.duration_days \in MIN_DURATION_DAYS .. MAX_DURATION_DAYS
    /\ r.lat_e6 \in -MAX_LAT_E6 .. MAX_LAT_E6
    /\ r.lon_e6 \in -MAX_LON_E6 .. MAX_LON_E6
    /\ r.coverage_type = "Drought"
    /\ r.duration_days >= MIN_DROUGHT_DURATION_DAYS

OpenCount_ActiveOnly(f) == farmerActiveCount[f]    \* mutant: pending cover is free

OpenCount(f) == farmerActiveCount[f] + farmerPendingCount[f]

IndexPolicy_CountKept(f, id) ==        \* mutant: FarmerPolicyCount is not advanced
    farmerPolicies' = [farmerPolicies EXCEPT ![f] =
        IF @ = << >> THEN <<id>> ELSE [@ EXCEPT ![Len(@)] = id]]

IndexPolicy(f, id) == farmerPolicies' = [farmerPolicies EXCEPT ![f] = Append(@, id)]

(* The release helpers saturate instead of trapping.                       *)
decrement_active(f) ==
    farmerActiveCount' =
        [farmerActiveCount EXCEPT ![f] = IF @ > 0 THEN @ - 1 ELSE @]

release_pending_slot_MarkerKept(id, f) ==  \* mutant: the marker is not removed
    /\ UNCHANGED pendingCounted
    /\ farmerPendingCount' =
           [farmerPendingCount EXCEPT ![f] =
               IF id \in pendingCounted /\ @ > 0 THEN @ - 1 ELSE @]

release_pending_slot(id, f) ==
    /\ pendingCounted' = pendingCounted \ {id}
    /\ farmerPendingCount' =
           [farmerPendingCount EXCEPT ![f] =
               IF id \in pendingCounted /\ @ > 0 THEN @ - 1 ELSE @]

release_org_exposure_NoZero(o, sum) ==     \* mutant: the last release is lost
    orgOutstanding' =
        [orgOutstanding EXCEPT ![o] = IF @ > sum THEN @ - sum ELSE @]

release_org_exposure(o, sum) ==
    orgOutstanding' =
        [orgOutstanding EXCEPT ![o] = IF @ > sum THEN @ - sum ELSE 0]

deactivate_policy_nft_Skipped(id) ==       \* mutant: the certificate is left alone
    UNCHANGED nftVars

deactivate_policy_nft_Strict(id) ==        \* mutant: the call is not best effort
    policyNft \in Nfts /\ update_policy_status(policyNft, PM, id, FALSE)

(* try_update_policy_status swallows the certificate contract's refusal;   *)
(* the policy_nft_exists call before it is a plain one, so an address that *)
(* is no certificate contract makes the whole step revert.                 *)
deactivate_policy_nft(id) ==
    /\ policyNft \in Nfts \cup {None}
    /\ IF policyNft # None /\ MayUpdateStatus(policyNft, PM, id)
       THEN update_policy_status(policyNft, PM, id, FALSE)
       ELSE UNCHANGED nftVars

-----------------------------------------------------------------------------
(* The operations.                                                         *)

create_policy(caller, r) ==
    LET f == r.farmer
        id == policyCounter + 1
    IN
    /\ policyCounter < MaxPolicies
    /\ has_role(pmRoles, "Backend", caller)
    /\ Sellable(r)
    /\ OpenCount(f) + claims_in_window(f) < MAX_ACTIVE_POLICIES_PER_FARMER
    /\ policyCounter' = id
    /\ policies' = Put(policies, id,
           [farmer |-> f, org |-> r.org, lat_e6 |-> r.lat_e6, lon_e6 |-> r.lon_e6,
            sum_insured |-> r.sum_insured,
            start_date |-> now, end_date |-> now + r.duration_days * SECONDS_PER_DAY,
            coverage_type |-> r.coverage_type, status |-> "Pending",
            created_at |-> now])
    /\ IndexPolicy(f, id)
    /\ orgOutstanding' = [orgOutstanding EXCEPT ![r.org] = @ + r.sum_insured]
    /\ farmerPendingCount' = [farmerPendingCount EXCEPT ![f] = @ + 1]
    /\ pendingCounted' = pendingCounted \cup {id}
    /\ UNCHANGED <<farmerActiveCount, farmerClaimTimes, pmRoles, policyNft, nftVars>>

Activated_SwappedDates(p) ==           \* mutant: the duration is start - end
    [p EXCEPT !.status = "Active", !.start_date = now,
              !.end_date = now + (p.start_date - p.end_date)]

Activated_EndKept(p) ==                \* mutant: the end is not moved with the start
    [p EXCEPT !.status = "Active", !.start_date = now]

(* The cover starts now and keeps the duration it was sold with.           *)
Activated(p) ==
    [p EXCEPT !.status = "Active",
              !.start_date = now,
              !.end_date = now + (p.end_date - p.start_date)]

activate_policy(caller, id, distributor) ==
    LET p == Activated(policies[id]) IN
    /\ has_role(pmRoles, "Backend", caller)
    /\ policyNft \in Nfts
    /\ policy_exists(id)
    /\ policies[id].status = "Pending"
    /\ now <= policies[id].end_date
    /\ farmerActiveCount[p.farmer] < MAX_ACTIVE_POLICIES_PER_FARMER
    /\ policies' = [policies EXCEPT ![id] = p]
    /\ farmerActiveCount' = [farmerActiveCount EXCEPT ![p.farmer] = @ + 1]
    /\ release_pending_slot(id, p.farmer)
    /\ mint_policy(policyNft, PM, p.farmer, id, distributor,
                   p.sum_insured, p.start_date, p.end_date)
    /\ UNCHANGED <<policyCounter, farmerPolicies, orgOutstanding,
                   farmerClaimTimes, pmRoles, policyNft>>

(* Says nothing of farmerClaimTimes: a settlement conjoins it with         *)
(* increment_claim_count, which writes only that.                          *)
mark_as_claimed(caller, id) ==
    /\ has_role(pmRoles, "Oracle", caller)
    /\ is_policy_active(id)
    /\ policies' = [policies EXCEPT ![id].status = "Claimed"]
    /\ decrement_active(policies[id].farmer)
    /\ release_org_exposure(policies[id].org, policies[id].sum_insured)
    /\ deactivate_policy_nft(id)
    /\ UNCHANGED <<policyCounter, farmerPolicies, farmerPendingCount,
                   pendingCounted, pmRoles, policyNft>>

LatestClaims_OneTooFew(times) ==       \* mutant: one time too many is dropped
    SubSeq(times, IF Len(times) >= MAX_CLAIMS_PER_FARMER_PER_YEAR
                  THEN Len(times) - MAX_CLAIMS_PER_FARMER_PER_YEAR + 2
                  ELSE 1,
           Len(times))

(* push_back, then drop from the front what exceeds the cap.               *)
LatestClaims(times) ==
    SubSeq(times, IF Len(times) > MAX_CLAIMS_PER_FARMER_PER_YEAR
                  THEN Len(times) - MAX_CLAIMS_PER_FARMER_PER_YEAR + 1
                  ELSE 1,
           Len(times))

increment_claim_count(caller, f) ==
    /\ has_role(pmRoles, "Oracle", caller)
    /\ can_farmer_claim(f)
    /\ farmerClaimTimes' =
           [farmerClaimTimes EXCEPT ![f] = LatestClaims(Append(@, now))]

(* ACTIVE or PENDING cover ends without a claim: what cancel and expire    *)
(* share.                                                                  *)
Close(id, status) ==
    LET p == policies[id] IN
    /\ policies' = [policies EXCEPT ![id].status = status]
    /\ release_org_exposure(p.org, p.sum_insured)
    /\ \/ /\ p.status = "Active"
          /\ decrement_active(p.farmer)
          /\ deactivate_policy_nft(id)
          /\ UNCHANGED <<farmerPendingCount, pendingCounted>>
       \/ /\ p.status = "Pending"
          /\ release_pending_slot(id, p.farmer)
          /\ UNCHANGED <<farmerActiveCount, nftVars>>
    /\ UNCHANGED <<policyCounter, farmerPolicies, farmerClaimTimes, pmRoles, policyNft>>

(* The backend may cancel what is not yet in force; only the admin what is.*)
cancel_policy(caller, id) ==
    /\ policy_exists(id)
    /\ \/ has_role(pmRoles, "Admin", caller)
       \/ has_role(pmRoles, "Backend", caller) /\ policies[id].status = "Pending"
    /\ Close(id, "Cancelled")

(* Anyone may call it; on an expired policy it changes nothing.            *)
expire_policy(id) ==
    /\ policy_exists(id)
    /\ now > policies[id].end_date
    /\ Close(id, "Expired")

set_policy_nft(caller, addr) ==
    /\ has_role(pmRoles, "Admin", caller)
    /\ policyNft' = addr
    /\ UNCHANGED <<bookVars, farmerClaimTimes, pmRoles, nftVars>>

pm_grant_role(caller, role, who) ==
    /\ has_role(pmRoles, "Admin", caller)
    /\ pmRoles' = with_role(pmRoles, role, who)
    /\ UNCHANGED <<bookVars, farmerClaimTimes, policyNft, nftVars>>

pm_revoke_role(caller, role, who) ==
    /\ has_role(pmRoles, "Admin", caller)
    /\ pmRoles' = without_role(pmRoles, role, who)
    /\ UNCHANGED <<bookVars, farmerClaimTimes, policyNft, nftVars>>

-----------------------------------------------------------------------------
(* What accounts do to the contract; settlements are PayoutReceiver's.     *)
PmStep ==
    \E caller \in Accounts :
        \/ \E r \in SaleRequests : create_policy(caller, r)
        \/ \E id \in DOMAIN policies :
              \/ \E d \in Distributors : activate_policy(caller, id, d)
              \/ mark_as_claimed(caller, id) /\ UNCHANGED farmerClaimTimes
              \/ cancel_policy(caller, id)
              \/ expire_policy(id)
        \/ \E f \in Farmers :
              increment_claim_count(caller, f)
                  /\ UNCHANGED <<bookVars, pmRoles, policyNft, nftVars>>
        \/ \E a \in NftAddrs : set_policy_nft(caller, a)
        \/ \E g \in PmGrants : pm_grant_role(caller, g[1], g[2])
        \/ \E g \in PmGrants : pm_revoke_role(caller, g[1], g[2])

BookInit == now = 0 /\ NftInit /\ PmInit

BookNext ==
    \/ PmStep /\ UNCHANGED now
    \/ NftStep /\ UNCHANGED <<now, pmVars>>
    \/ Tick /\ UNCHANGED <<pmVars, nftVars>>

bookSpecVars == <<now, nftVars, pmVars>>

BookSpec == BookInit /\ [][BookNext]_bookSpecVars

(* Anyone can submit expire_policy, so it needs no one's cooperation.      *)
LiveBookSpec ==
    /\ BookSpec
    /\ \A id \in 1 .. MaxPolicies : WF_bookSpecVars(expire_policy(id) /\ UNCHANGED now)

-----------------------------------------------------------------------------
(* Properties.                                                             *)

PoliciesOf(f, status) ==
    {id \in DOMAIN policies : policies[id].farmer = f /\ policies[id].status = status}

OpenPolicies == {id \in DOMAIN policies : policies[id].status \in OpenStatuses}

(* The policies and the counters beside them have the declared types, ids  *)
(* are dense, and no window ends before it starts.                         *)
BookTypeOK ==
    /\ now \in Nat
    /\ policyCounter \in Nat
    /\ policies \in [1 .. policyCounter -> Policy]
    /\ \A id \in 1 .. policyCounter : policies[id].start_date <= policies[id].end_date
    /\ farmerPolicies \in [Farmers -> Seq(1 .. policyCounter)]
    /\ farmerActiveCount \in [Farmers -> Nat]
    /\ farmerPendingCount \in [Farmers -> Nat]
    /\ pendingCounted \subseteq 1 .. policyCounter
    /\ orgOutstanding \in [Orgs -> Nat]
    /\ policyNft \in NftAddrs \cup {None}

(* The contract's storage keeps the shape its types declare; in particular *)
(* activate_policy never moves an end date before the start it writes.     *)
PmTypeOK ==
    /\ BookTypeOK
    /\ farmerClaimTimes \in [Farmers -> Seq(Nat)]

(* The slot counters create_policy and activate_policy gate on are exact,  *)
(* whatever mix of activation, claim, cancellation and expiry came before: *)
(* the saturating decrements never hide a double or a missed release.      *)
CountersMatchPolicies ==
    /\ \A f \in Farmers :
          /\ farmerActiveCount[f] = Cardinality(PoliciesOf(f, "Active"))
          /\ farmerPendingCount[f] = Cardinality(PoliciesOf(f, "Pending"))
    /\ pendingCounted = {id \in DOMAIN policies : policies[id].status = "Pending"}

(* One element per base unit of sum insured on the org's open policies.    *)
OpenUnits(o) ==
    UNION {{id} \X (1 .. policies[id].sum_insured) :
              id \in {i \in OpenPolicies : policies[i].org = o}}

(* org_outstanding_sum_insured is exactly the sum of the org's PENDING and *)
(* ACTIVE sums: counted once at create_policy, released once on the way    *)
(* out (audit finding 4), never absorbed by the saturation at zero.        *)
ExposureMatchesOpenPolicies ==
    \A o \in Orgs : orgOutstanding[o] = Cardinality(OpenUnits(o))

(* The index get_farmer_policies pages through holds exactly the policies  *)
(* created for the farmer, each once and in creation order.                *)
FarmerIndexExact ==
    \A f \in Farmers :
        LET ids == farmerPolicies[f] IN
        /\ Elements(ids) = {id \in DOMAIN policies : policies[id].farmer = f}
        /\ \A i, j \in DOMAIN ids : i < j => ids[i] < ids[j]

CertifiedBy(n, id) ==
    LET p == policies[id] IN
    /\ policy_nft_exists(n, id)
    /\ certificates[n][id].is_active
    /\ certificates[n][id].farmer = p.farmer
    /\ certificates[n][id].sum_insured = p.sum_insured
    /\ certificates[n][id].start_date = p.start_date
    /\ certificates[n][id].end_date = p.end_date
    /\ owners[n][id] = p.farmer

(* Cover in force is always documented: some certificate contract holds an *)
(* active certificate with the policy's terms, still owned by the insured  *)
(* farmer, even after set_policy_nft pointed the manager elsewhere.        *)
ActiveCoverIsCertified ==
    \A id \in DOMAIN policies :
        policies[id].status = "Active" => \E n \in Nfts : CertifiedBy(n, id)

(* While the certificate contract is not replaced, the certificate says    *)
(* exactly whether the cover is in force: the best-effort deactivation is  *)
(* never skipped, so no closed policy keeps a soulbound certificate.       *)
CertificateMirrorsPolicy ==
    \A n \in Nfts : \A id \in DOMAIN certificates[n] :
        /\ policy_exists(id)
        /\ certificates[n][id].is_active <=> policies[id].status = "Active"

PhaseOf == [Pending |-> "Offered", Active |-> "InForce", Claimed |-> "Paid",
            Expired |-> "Lapsed", Cancelled |-> "Withdrawn"]

LifecycleEntry(p) ==
    [phase |-> PhaseOf[p.status],
     from  |-> p.start_date,
     until |-> p.end_date,
     terms |-> <<p.farmer, p.org, p.lat_e6, p.lon_e6, p.sum_insured,
                 p.coverage_type, p.created_at>>]

LifecycleOfPolicies == [id \in DOMAIN policies |-> LifecycleEntry(policies[id])]

Lifecycle == INSTANCE PolicyLifecycle WITH book <- LifecycleOfPolicies

(* The manager implements the abstract lifecycle: terms never change after *)
(* the sale, a policy closes once, is paid only inside its window and      *)
(* expires only after it, and activation restarts the window at its length.*)
ImplementsLifecycle == Lifecycle!Spec

(* Nobody has to hold a role for the org to get its exposure and the       *)
(* farmer the slot back: a policy past its end date does close.            *)
EndedPolicyCloses ==
    \A id \in 1 .. MaxPolicies :
        (id \in OpenPolicies /\ now > policies[id].end_date) ~> (id \notin OpenPolicies)

(* The module docs (lib.rs:20): the NFT update is best effort and "never   *)
(* bricks the lifecycle transition".  So an ended policy can be expired.   *)
LifecycleNeverBricked ==
    \A id \in OpenPolicies :
        now > policies[id].end_date => ENABLED expire_policy(id)
=============================================================================
