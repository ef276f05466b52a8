----------------------------- MODULE PolicyNft -----------------------------
(***************************************************************************)
(* The policy certificate contract (crates/policy-nft): one certificate    *)
(* per policy, soulbound while it is active.  The module models every      *)
(* deployed certificate contract at once, indexed by address, because the  *)
(* PolicyManager can be pointed at another one (set_policy_nft).           *)
(*                                                                         *)
(* Certificate, PolicyToToken and Owner are written together by a mint and *)
(* never removed, so the first two are one map.  The distributor's name,   *)
(* the region, the plot id and the premium are display data and left out.  *)
(***************************************************************************)
EXTENDS SorobanHost

CONSTANTS
    PM,             \* the PolicyManager contract's address
    Nfts,           \* the deployed PolicyNft contracts
    Distributors,
    Managers,       \* addresses the admin may wire with set_policy_manager
    NftGrants,      \* <<role, holder>> pairs the admin may grant and revoke
    NftWiring,      \* what the deployment left: [grants, manager]
    MintRequests    \* mints an account holding Minter may ask for: id is a u64

ASSUME NftAssumption ==
    /\ PM \notin Accounts
    /\ None \notin Nfts
    /\ NftWiring.manager \in Managers \cup {None}
    /\ \A m \in MintRequests : m.id \in Nat /\ m.distributor \in Distributors

VARIABLES
    nftRoles,            \* contract -> role registry
    nftPolicyManager,    \* contract -> DataKey::PolicyManager
    certificates,        \* contract -> policy id -> PolicyCertificate
    owners,              \* contract -> token id -> holder
    distributorPolicies  \* contract -> distributor -> token ids, in mint order

nftVars == <<nftRoles, nftPolicyManager, certificates, owners, distributorPolicies>>
certificateVars == <<certificates, owners, distributorPolicies>>

NftInit ==
    /\ nftRoles = [n \in Nfts |-> {<<"Admin", Admin>>} \cup NftWiring.grants]
    /\ nftPolicyManager = [n \in Nfts |-> NftWiring.manager]
    /\ certificates = [n \in Nfts |-> << >>]
    /\ owners = [n \in Nfts |-> << >>]
    /\ distributorPolicies = [n \in Nfts |-> [d \in Distributors |-> << >>]]

policy_nft_exists(n, id) == id \in DOMAIN certificates[n]

-----------------------------------------------------------------------------
Mintable_ZeroId(n, caller, id) ==      \* mutant: the reserved id is not refused
    has_role(nftRoles[n], "Minter", caller) /\ ~policy_nft_exists(n, id)

Mintable_Twice(n, caller, id) ==       \* mutant: PolicyAlreadyMinted is dropped
    has_role(nftRoles[n], "Minter", caller) /\ id # 0

Mintable(n, caller, id) ==
    /\ has_role(nftRoles[n], "Minter", caller)
    /\ id # 0
    /\ ~policy_nft_exists(n, id)

(* The certificate starts active and belongs to the farmer.                *)
mint_policy(n, caller, farmer, id, distributor, sum, start, end) ==
    /\ Mintable(n, caller, id)
    /\ certificates' = [certificates EXCEPT ![n] =
            Put(@, id, [farmer      |-> farmer,
                        distributor |-> distributor,
                        sum_insured |-> sum,
                        start_date  |-> start,
                        end_date    |-> end,
                        is_active   |-> TRUE])]
    /\ owners' = [owners EXCEPT ![n] = Put(@, id, farmer)]
    /\ distributorPolicies' =
            [distributorPolicies EXCEPT ![n][distributor] = Append(@, id)]
    /\ UNCHANGED <<nftRoles, nftPolicyManager>>

(* Only the wired PolicyManager flips the active flag of a minted token.   *)
MayUpdateStatus(n, caller, id) ==
    /\ nftPolicyManager[n] = caller
    /\ policy_nft_exists(n, id)

update_policy_status(n, caller, id, isActive) ==
    /\ MayUpdateStatus(n, caller, id)
    /\ certificates' = [certificates EXCEPT ![n][id].is_active = isActive]
    /\ UNCHANGED <<nftRoles, nftPolicyManager, owners, distributorPolicies>>

MayTransfer_WhileActive(n, from, id) ==    \* mutant: TransferWhileActive is dropped
    id \in DOMAIN owners[n] /\ owners[n][id] = from

MayTransfer(n, from, id) ==
    /\ id \in DOMAIN owners[n]
    /\ owners[n][id] = from
    /\ ~certificates[n][id].is_active

transfer(n, from, to, id) ==
    /\ MayTransfer(n, from, id)
    /\ owners' = [owners EXCEPT ![n][id] = to]
    /\ UNCHANGED <<nftRoles, nftPolicyManager, certificates, distributorPolicies>>

set_policy_manager(n, caller, manager) ==
    /\ has_role(nftRoles[n], "Admin", caller)
    /\ nftPolicyManager' = [nftPolicyManager EXCEPT ![n] = manager]
    /\ UNCHANGED <<nftRoles, certificateVars>>

nft_grant_role(n, caller, role, who) ==
    /\ has_role(nftRoles[n], "Admin", caller)
    /\ nftRoles' = [nftRoles EXCEPT ![n] = with_role(@, role, who)]
    /\ UNCHANGED <<nftPolicyManager, certificateVars>>

nft_revoke_role(n, caller, role, who) ==
    /\ has_role(nftRoles[n], "Admin", caller)
    /\ nftRoles' = [nftRoles EXCEPT ![n] = without_role(@, role, who)]
    /\ UNCHANGED <<nftPolicyManager, certificateVars>>

-----------------------------------------------------------------------------
(* The calls accounts make.  The PolicyManager's own calls are part of its *)
(* steps (module PolicyManager).                                           *)
NftStep ==
    \E n \in Nfts, caller \in Accounts :
        \/ \E m \in MintRequests :
              mint_policy(n, caller, m.farmer, m.id, m.distributor,
                          m.sum_insured, m.start_date, m.end_date)
        \/ \E id \in DOMAIN certificates[n], active \in BOOLEAN :
              update_policy_status(n, caller, id, active)
        \/ \E id \in DOMAIN certificates[n], to \in Accounts :
              transfer(n, caller, to, id)
        \/ \E m \in Managers : set_policy_manager(n, caller, m)
        \/ \E g \in NftGrants : nft_grant_role(n, caller, g[1], g[2])
        \/ \E g \in NftGrants : nft_revoke_role(n, caller, g[1], g[2])

NftNext == (NftStep /\ UNCHANGED now) \/ (Tick /\ UNCHANGED nftVars)

NftAloneInit == now = 0 /\ NftInit

NftSpec == NftAloneInit /\ [][NftNext]_<<now, nftVars>>

-----------------------------------------------------------------------------
(* Properties.                                                             *)

CertificateFields ==
    {"farmer", "distributor", "sum_insured", "start_date", "end_date", "is_active"}

CertificateOK(certificate) ==
    /\ certificate = [f \in CertificateFields |-> certificate[f]]
    /\ certificate.distributor \in Distributors
    /\ certificate.is_active \in BOOLEAN

(* A certificate and its owner entry exist together, and never for id 0.   *)
NftTypeOK ==
    /\ nftPolicyManager \in [Nfts -> Managers \cup {None}]
    /\ distributorPolicies \in [Nfts -> [Distributors -> Seq(Nat)]]
    /\ DOMAIN certificates = Nfts /\ DOMAIN owners = Nfts
    /\ \A n \in Nfts :
          /\ DOMAIN owners[n] = DOMAIN certificates[n]
          /\ DOMAIN certificates[n] \subseteq Nat \ {0}
          /\ \A id \in DOMAIN certificates[n] : CertificateOK(certificates[n][id])

SoldBy(sold, d) == {id \in DOMAIN sold : sold[id].distributor = d}

IndexLists(ids, elements) ==
    Elements(ids) = elements /\ Len(ids) = Cardinality(elements)

(* A distributor's index lists exactly the certificates it sold, each      *)
(* once: no mint of an id moves it from one distributor to another.        *)
DistributorIndexExact ==
    \A n \in Nfts, d \in Distributors :
        IndexLists(distributorPolicies[n][d], SoldBy(certificates[n], d))

(* An active certificate never changes hands, its terms never change, and  *)
(* no certificate disappears: only the active flag and, once inactive, the *)
(* owner may move.                                                         *)
SoulboundStep ==
    \A n \in Nfts : \A id \in DOMAIN certificates[n] :
        /\ id \in DOMAIN certificates'[n]
        /\ certificates[n][id].is_active => owners'[n][id] = owners[n][id]
        /\ certificates'[n][id] = [certificates[n][id] EXCEPT
                                     !.is_active = certificates'[n][id].is_active]

SoulboundWhileActive == [][SoulboundStep]_<<now, nftVars>>
=============================================================================
