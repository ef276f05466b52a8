------------------------ MODULE PolicyManagerProofs ------------------------
(***************************************************************************)
(* Theorems about PolicyNft, for every set of contracts, distributors and  *)
(* requests: the certificates are well formed, each distributor's index is *)
(* exact, and an active certificate is soulbound.  The lemmas about its    *)
(* single operations are about any caller, so that the PolicyManager's     *)
(* calls fall under them too.                                              *)
(*                                                                         *)
(* Theorems about PolicyManager, for every set of farmers, orgs and sale   *)
(* requests and every value of the caps: the storage is well typed, and    *)
(* the slot counters are exact.                                            *)
(***************************************************************************)
EXTENDS PolicyManager, FiniteSetTheorems, SequenceTheorems, TLAPS

-----------------------------------------------------------------------------
(* PolicyNft on its own.                                                   *)

(* There are finitely many certificates, or their number would mean        *)
(* nothing.                                                                *)
CertificatesFinite == \A n \in Nfts : IsFiniteSet(DOMAIN certificates[n])

NftInv == NftTypeOK /\ DistributorIndexExact /\ CertificatesFinite

-----------------------------------------------------------------------------
(* What a step does to the certificates: a mint, a new flag, a new owner,  *)
(* or nothing.                                                             *)

Minted(n, id, c, owner) ==
    /\ id \in Nat \ {0}
    /\ id \notin DOMAIN certificates[n]
    /\ c = [f \in CertificateFields |-> c[f]]
    /\ c.distributor \in Distributors
    /\ c.is_active = TRUE
    /\ DOMAIN certificates' = Nfts /\ DOMAIN owners' = Nfts
    /\ \A m \in Nfts : m # n => /\ certificates'[m] = certificates[m]
                                /\ owners'[m] = owners[m]
    /\ DOMAIN certificates'[n] = DOMAIN certificates[n] \cup {id}
    /\ certificates'[n][id] = c
    /\ \A i \in DOMAIN certificates[n] : certificates'[n][i] = certificates[n][i]
    /\ DOMAIN owners'[n] = DOMAIN owners[n] \cup {id}
    /\ owners'[n][id] = owner
    /\ \A i \in DOMAIN owners[n] : owners'[n][i] = owners[n][i]
    /\ distributorPolicies' =
           [distributorPolicies EXCEPT ![n][c.distributor] = Append(@, id)]
    /\ UNCHANGED nftPolicyManager

FlagSet(n, id, active) ==
    /\ DOMAIN certificates' = Nfts
    /\ \A m \in Nfts : m # n => certificates'[m] = certificates[m]
    /\ DOMAIN certificates'[n] = DOMAIN certificates[n]
    /\ \A i \in DOMAIN certificates[n] : i # id => certificates'[n][i] = certificates[n][i]
    /\ certificates'[n][id] = [certificates[n][id] EXCEPT !.is_active = active]
    /\ UNCHANGED <<nftPolicyManager, owners, distributorPolicies>>

Transferred(n, id, to) ==
    /\ ~certificates[n][id].is_active
    /\ DOMAIN owners' = Nfts
    /\ \A m \in Nfts : m # n => owners'[m] = owners[m]
    /\ DOMAIN owners'[n] = DOMAIN owners[n]
    /\ \A i \in DOMAIN owners[n] : i # id => owners'[n][i] = owners[n][i]
    /\ owners'[n][id] = to
    /\ UNCHANGED <<nftPolicyManager, certificates, distributorPolicies>>

Rewired ==
    /\ UNCHANGED certificateVars
    /\ nftPolicyManager' \in [Nfts -> Managers \cup {None}]
    /\ \A n \in Nfts : nftPolicyManager'[n] \in Managers \cup {nftPolicyManager[n]}

(* mint_policy mints.                                                      *)
LEMMA MintEffect ==
    ASSUME NftTypeOK, NEW n \in Nfts, NEW caller, NEW farmer, NEW id \in Nat,
           NEW distributor \in Distributors, NEW sum, NEW start, NEW end,
           mint_policy(n, caller, farmer, id, distributor, sum, start, end)
    PROVE  Minted(n, id, [farmer |-> farmer, distributor |-> distributor,
                          sum_insured |-> sum, start_date |-> start, end_date |-> end,
                          is_active |-> TRUE], farmer)
<1> DEFINE c == [farmer |-> farmer, distributor |-> distributor,
                 sum_insured |-> sum, start_date |-> start, end_date |-> end,
                 is_active |-> TRUE]
<1>1. /\ id # 0 /\ id \notin DOMAIN certificates[n]
      /\ certificates' = [certificates EXCEPT ![n] = Put(certificates[n], id, c)]
      /\ owners' = [owners EXCEPT ![n] = Put(owners[n], id, farmer)]
      /\ distributorPolicies' =
             [distributorPolicies EXCEPT ![n][distributor] = Append(@, id)]
      /\ UNCHANGED nftPolicyManager
  BY DEF mint_policy, Mintable, policy_nft_exists
<1>2. /\ c = [f \in CertificateFields |-> c[f]]
      /\ c.distributor = distributor /\ c.is_active = TRUE
  BY DEF CertificateFields
<1>3. /\ DOMAIN certificates = Nfts /\ DOMAIN owners = Nfts
      /\ DOMAIN owners[n] = DOMAIN certificates[n]
  BY DEF NftTypeOK
<1> HIDE DEF c
<1>4. /\ DOMAIN certificates' = Nfts /\ DOMAIN owners' = Nfts
      /\ certificates'[n] = Put(certificates[n], id, c)
      /\ owners'[n] = Put(owners[n], id, farmer)
      /\ \A m \in Nfts : m # n => certificates'[m] = certificates[m] /\ owners'[m] = owners[m]
  BY <1>1, <1>3
<1>5. /\ DOMAIN certificates'[n] = DOMAIN certificates[n] \cup {id}
      /\ certificates'[n][id] = c
      /\ \A i \in DOMAIN certificates[n] : certificates'[n][i] = certificates[n][i]
  BY <1>1, <1>4 DEF Put
<1>6. /\ DOMAIN owners'[n] = DOMAIN owners[n] \cup {id}
      /\ owners'[n][id] = farmer
      /\ \A i \in DOMAIN owners[n] : owners'[n][i] = owners[n][i]
  BY <1>1, <1>3, <1>4 DEF Put
<1>7. Minted(n, id, c, farmer)
  BY <1>1, <1>2, <1>4, <1>5, <1>6 DEF Minted
<1> QED  BY <1>7 DEF c

(* update_policy_status sets one flag.                                     *)
LEMMA FlagEffect ==
    ASSUME NftTypeOK, NEW n \in Nfts, NEW caller, NEW id, NEW active,
           update_policy_status(n, caller, id, active)
    PROVE  FlagSet(n, id, active)
<1>1. /\ id \in DOMAIN certificates[n] /\ DOMAIN certificates = Nfts
      /\ certificates' = [certificates EXCEPT ![n] =
             [certificates[n] EXCEPT ![id] = [certificates[n][id] EXCEPT !.is_active = active]]]
      /\ UNCHANGED <<nftPolicyManager, owners, distributorPolicies>>
  BY DEF update_policy_status, MayUpdateStatus, policy_nft_exists, NftTypeOK
<1>2. PICK c : c = [certificates[n][id] EXCEPT !.is_active = active]
  OBVIOUS
<1>3. certificates' = [certificates EXCEPT ![n] = [certificates[n] EXCEPT ![id] = c]]
  BY <1>1, <1>2
<1>4. /\ DOMAIN certificates' = Nfts
      /\ \A m \in Nfts : m # n => certificates'[m] = certificates[m]
      /\ certificates'[n] = [certificates[n] EXCEPT ![id] = c]
  BY <1>1, <1>3
<1>5. /\ DOMAIN certificates'[n] = DOMAIN certificates[n]
      /\ \A i \in DOMAIN certificates[n] : i # id => certificates'[n][i] = certificates[n][i]
      /\ certificates'[n][id] = c
  BY <1>1, <1>4
<1> QED  BY <1>1, <1>2, <1>4, <1>5 DEF FlagSet

(* transfer moves one inactive certificate.                                *)
LEMMA TransferEffect ==
    ASSUME NftTypeOK, NEW n \in Nfts, NEW from, NEW to, NEW id, transfer(n, from, to, id)
    PROVE  Transferred(n, id, to) /\ id \in DOMAIN certificates[n]
<1>1. /\ id \in DOMAIN owners[n] /\ DOMAIN owners = Nfts
      /\ ~certificates[n][id].is_active
      /\ owners' = [owners EXCEPT ![n] = [owners[n] EXCEPT ![id] = to]]
      /\ UNCHANGED <<nftPolicyManager, certificates, distributorPolicies>>
      /\ DOMAIN owners[n] = DOMAIN certificates[n]
  BY DEF transfer, MayTransfer, NftTypeOK
<1>2. /\ DOMAIN owners' = Nfts
      /\ \A m \in Nfts : m # n => owners'[m] = owners[m]
      /\ owners'[n] = [owners[n] EXCEPT ![id] = to]
  BY <1>1
<1> QED  BY <1>1, <1>2 DEF Transferred

-----------------------------------------------------------------------------
(* Each of them keeps the invariant.                                       *)

(* Appending to an index adds one element at the end.                      *)
LEMMA AppendElements ==
    ASSUME NEW T, NEW s \in Seq(T), NEW x \in T
    PROVE  /\ Elements(Append(s, x)) = Elements(s) \cup {x}
           /\ Append(s, x) \in Seq(T)
           /\ Len(Append(s, x)) = Len(s) + 1
           /\ Len(s) \in Nat
<1>1. /\ Append(s, x) \in Seq(T) /\ Len(s) \in Nat
      /\ Len(Append(s, x)) = Len(s) + 1
      /\ DOMAIN s = 1 .. Len(s) /\ DOMAIN Append(s, x) = 1 .. Len(s) + 1
      /\ \A i \in 1 .. Len(s) : Append(s, x)[i] = s[i]
      /\ Append(s, x)[Len(s) + 1] = x
  BY LenProperties, AppendProperties
<1>2. 1 .. Len(s) + 1 = (1 .. Len(s)) \cup {Len(s) + 1}
  BY <1>1
<1> QED  BY <1>1, <1>2 DEF Elements

(* A mint keeps the certificates well formed and finitely many.            *)
LEMMA MintType ==
    ASSUME NftTypeOK, CertificatesFinite, NEW n \in Nfts, NEW id, NEW c, NEW owner,
           Minted(n, id, c, owner)
    PROVE  NftTypeOK' /\ CertificatesFinite'
<1>1. CertificateOK(c)
  BY DEF Minted, CertificateOK
<1>2. ASSUME NEW m \in Nfts
      PROVE  /\ DOMAIN owners'[m] = DOMAIN certificates'[m]
             /\ DOMAIN certificates'[m] \subseteq Nat \ {0}
             /\ \A i \in DOMAIN certificates'[m] : CertificateOK(certificates'[m][i])
             /\ IsFiniteSet(DOMAIN certificates'[m])
  <2>1. /\ DOMAIN owners[m] = DOMAIN certificates[m]
        /\ DOMAIN certificates[m] \subseteq Nat \ {0}
        /\ \A i \in DOMAIN certificates[m] : CertificateOK(certificates[m][i])
        /\ IsFiniteSet(DOMAIN certificates[m])
    BY DEF NftTypeOK, CertificatesFinite
  <2>2. CASE m # n
    BY <2>1, <2>2 DEF Minted
  <2>3. CASE m = n
    <3>1. /\ id \in Nat \ {0}
          /\ DOMAIN certificates'[n] = DOMAIN certificates[n] \cup {id}
          /\ DOMAIN owners'[n] = DOMAIN owners[n] \cup {id}
          /\ certificates'[n][id] = c
          /\ \A i \in DOMAIN certificates[n] : certificates'[n][i] = certificates[n][i]
      BY DEF Minted
    <3>2. IsFiniteSet(DOMAIN certificates[n] \cup {id})
      BY <2>1, <2>3, FS_AddElement
    <3> QED  BY <1>1, <2>1, <2>3, <3>1, <3>2
  <2> QED  BY <2>2, <2>3
<1>3. distributorPolicies' \in [Nfts -> [Distributors -> Seq(Nat)]]
  <2>1. /\ id \in Nat /\ c.distributor \in Distributors
        /\ distributorPolicies' =
               [distributorPolicies EXCEPT ![n][c.distributor] = Append(@, id)]
        /\ distributorPolicies \in [Nfts -> [Distributors -> Seq(Nat)]]
    BY DEF Minted, NftTypeOK
  <2>2. PICK d \in Distributors : d = c.distributor
    BY <2>1
  <2>3. Append(distributorPolicies[n][d], id) \in Seq(Nat)
    BY <2>1, AppendElements
  <2> QED  BY <2>1, <2>2, <2>3
<1>4. (\A m \in Nfts : \A i \in DOMAIN certificates[m] : CertificateOK(certificates[m][i]))'
  BY <1>2 DEF CertificateOK
<1> QED  BY <1>2, <1>3, <1>4 DEF NftTypeOK, CertificatesFinite, Minted

(* A mint appends a fresh id to one index.                                 *)
LEMMA MintIndex ==
    ASSUME NftInv, NEW n \in Nfts, NEW id, NEW c, NEW owner,
           Minted(n, id, c, owner)
    PROVE  DistributorIndexExact'
<1> SUFFICES ASSUME NEW m \in Nfts, NEW d \in Distributors
             PROVE  IndexLists(distributorPolicies'[m][d], SoldBy(certificates'[m], d))
  BY DEF DistributorIndexExact
<1> DEFINE ids == distributorPolicies[m][d]
           new == distributorPolicies'[m][d]
           sold == SoldBy(certificates[m], d)
           soldNow == SoldBy(certificates'[m], d)
<1>1. IndexLists(ids, sold)
  BY DEF NftInv, DistributorIndexExact
<1>2. /\ id \notin DOMAIN certificates[n] /\ id \in Nat
      /\ \A k \in Nfts : k # n => certificates'[k] = certificates[k]
      /\ DOMAIN certificates'[n] = DOMAIN certificates[n] \cup {id}
      /\ certificates'[n][id] = c
      /\ \A i \in DOMAIN certificates[n] : certificates'[n][i] = certificates[n][i]
      /\ distributorPolicies' =
             [distributorPolicies EXCEPT ![n][c.distributor] = Append(@, id)]
      /\ distributorPolicies \in [Nfts -> [Distributors -> Seq(Nat)]]
  BY DEF Minted, NftInv, NftTypeOK
<1>3. CASE m = n /\ d = c.distributor
  <2>1. new = Append(ids, id) /\ ids \in Seq(Nat)
    BY <1>2, <1>3
  <2>2. soldNow = sold \cup {id} /\ id \notin sold
    BY <1>2, <1>3 DEF SoldBy
  <2>3. IsFiniteSet(sold)
    <3>1. sold \in SUBSET DOMAIN certificates[m]
      BY DEF SoldBy
    <3>2. IsFiniteSet(DOMAIN certificates[m])
      BY DEF NftInv, CertificatesFinite
    <3> HIDE DEF sold
    <3> QED  BY <3>1, <3>2, FS_Subset
  <2> HIDE DEF sold, soldNow, ids, new
  <2>4. Cardinality(soldNow) = Cardinality(sold) + 1
    BY <2>2, <2>3, FS_AddElement
  <2>5. Elements(new) = soldNow /\ Len(new) = Len(ids) + 1
    <3>1. id \in Nat
      BY <1>2
    <3>2. Elements(Append(ids, id)) = Elements(ids) \cup {id} /\ Len(Append(ids, id)) = Len(ids) + 1
      BY <2>1, <3>1, AppendElements
    <3>3. Elements(ids) = sold
      BY <1>1 DEF IndexLists
    <3> QED  BY <2>1, <2>2, <3>2, <3>3
  <2>6. IndexLists(new, soldNow)
    BY <1>1, <2>4, <2>5 DEF IndexLists
  <2> QED  BY <2>6 DEF new, soldNow
<1>4. CASE ~(m = n /\ d = c.distributor)
  <2>1. new = ids
    <3>1. c.distributor \in Distributors
      BY DEF Minted
    <3> QED  BY <1>2, <1>4, <3>1
  <2>2. soldNow = sold
    BY <1>2, <1>4 DEF SoldBy
  <2> HIDE DEF sold, soldNow, ids, new
  <2>3. IndexLists(new, soldNow)
    BY <1>1, <2>1, <2>2
  <2> QED  BY <2>3 DEF new, soldNow
<1> QED  BY <1>3, <1>4

(* Setting a flag, moving an owner and rewiring change no index and no     *)
(* certificate's distributor.                                              *)
LEMMA FlagInv ==
    ASSUME NftInv, NEW n \in Nfts, NEW id \in DOMAIN certificates[n],
           NEW active \in BOOLEAN, FlagSet(n, id, active)
    PROVE  NftInv'
<1> DEFINE old == certificates[n][id]
           new == certificates'[n][id]
<1>1. CertificateOK(old) /\ new = [old EXCEPT !.is_active = active]
  BY DEF NftInv, NftTypeOK, FlagSet
<1>2. CertificateOK(new) /\ new.distributor = old.distributor
  <2> HIDE DEF old, new
  <2> QED  BY <1>1 DEF CertificateOK, CertificateFields
<1>3. /\ DOMAIN certificates' = Nfts
      /\ UNCHANGED <<nftPolicyManager, owners, distributorPolicies>>
      /\ \A m \in Nfts : m # n => certificates'[m] = certificates[m]
      /\ DOMAIN certificates'[n] = DOMAIN certificates[n]
      /\ \A i \in DOMAIN certificates[n] : i # id => certificates'[n][i] = certificates[n][i]
  BY DEF FlagSet
<1>4. ASSUME NEW m \in Nfts
      PROVE  /\ DOMAIN certificates'[m] = DOMAIN certificates[m]
             /\ \A i \in DOMAIN certificates[m] :
                   /\ CertificateOK(certificates'[m][i])
                   /\ certificates'[m][i].distributor = certificates[m][i].distributor
  <2>1. \A i \in DOMAIN certificates[m] : CertificateOK(certificates[m][i])
    BY DEF NftInv, NftTypeOK
  <2> HIDE DEF old, new
  <2>2. CASE m # n
    BY <1>3, <2>1, <2>2
  <2>3. CASE m = n
    BY <1>2, <1>3, <2>1, <2>3 DEF old, new
  <2> QED  BY <2>2, <2>3
<1>5. NftTypeOK'
  <2>1. (\A m \in Nfts : \A i \in DOMAIN certificates[m] : CertificateOK(certificates[m][i]))'
    BY <1>4 DEF CertificateOK
  <2> QED  BY <1>3, <1>4, <2>1 DEF NftInv, NftTypeOK
<1>6. CertificatesFinite'
  BY <1>4 DEF NftInv, CertificatesFinite
<1>7. DistributorIndexExact'
  <2>1. ASSUME NEW m \in Nfts, NEW d \in Distributors
        PROVE  SoldBy(certificates'[m], d) = SoldBy(certificates[m], d)
    BY <1>4 DEF SoldBy
  <2> HIDE DEF old, new
  <2> QED  BY <1>3, <2>1 DEF NftInv, DistributorIndexExact
<1> QED  BY <1>5, <1>6, <1>7 DEF NftInv

(* A transfer keeps the invariant.                                         *)
LEMMA TransferInv ==
    ASSUME NftInv, NEW n \in Nfts, NEW id \in DOMAIN certificates[n], NEW to,
           Transferred(n, id, to)
    PROVE  NftInv'
<1>1. /\ DOMAIN owners' = Nfts
      /\ \A m \in Nfts : DOMAIN owners'[m] = DOMAIN owners[m]
      /\ UNCHANGED <<nftPolicyManager, certificates, distributorPolicies>>
  BY DEF Transferred
<1>2. NftTypeOK'
  BY <1>1 DEF NftInv, NftTypeOK, CertificateOK
<1>3. DistributorIndexExact' /\ CertificatesFinite'
  BY <1>1 DEF NftInv, DistributorIndexExact, CertificatesFinite
<1> QED  BY <1>2, <1>3 DEF NftInv

(* Administration keeps the invariant.                                     *)
LEMMA RewireInv ==
    ASSUME NftInv, Rewired
    PROVE  NftInv'
<1>1. /\ nftPolicyManager' \in [Nfts -> Managers \cup {None}]
      /\ UNCHANGED <<certificates, owners, distributorPolicies>>
  BY DEF Rewired, certificateVars
<1>2. NftTypeOK'
  BY <1>1 DEF NftInv, NftTypeOK, CertificateOK
<1>3. DistributorIndexExact' /\ CertificatesFinite'
  BY <1>1 DEF NftInv, DistributorIndexExact, CertificatesFinite
<1> QED  BY <1>2, <1>3 DEF NftInv

(* A mint keeps the invariant.                                             *)
LEMMA MintInv ==
    ASSUME NftInv, NEW n \in Nfts, NEW id, NEW c, NEW owner, Minted(n, id, c, owner)
    PROVE  NftInv'
BY MintType, MintIndex DEF NftInv

-----------------------------------------------------------------------------
(* What the accounts' calls and the clock come to.                         *)

MintStep ==
    \E n \in Nfts : \E id, c, owner : Minted(n, id, c, owner)

FlagStep ==
    \E n \in Nfts : \E id \in DOMAIN certificates[n] : \E active \in BOOLEAN :
        FlagSet(n, id, active)

TransferStep ==
    \E n \in Nfts : \E id \in DOMAIN certificates[n] : \E to : Transferred(n, id, to)

(* Every call of an account is one of the four; it mints only if accounts  *)
(* do, and sets a flag only if it is wired as a manager.                   *)
LEMMA AccountSteps ==
    ASSUME HostAssumption, NftAssumption, NftTypeOK, NftStep
    PROVE  \/ MintStep /\ MintRequests # {}
           \/ FlagStep /\ Managers \cap Accounts # {}
           \/ TransferStep
           \/ Rewired
<1>1. PICK n \in Nfts, caller \in Accounts :
          \/ \E m \in MintRequests :
                mint_policy(n, caller, m.farmer, m.id, m.distributor,
                            m.sum_insured, m.start_date, m.end_date)
          \/ \E id \in DOMAIN certificates[n], active \in BOOLEAN :
                update_policy_status(n, caller, id, active)
          \/ \E id \in DOMAIN certificates[n], to \in Accounts :
                transfer(n, caller, to, id)
          \/ \E m \in Managers : set_policy_manager(n, caller, m)
          \/ \E g \in NftGrants : nft_grant_role(n, caller, g[1], g[2])
          \/ \E g \in NftGrants : nft_revoke_role(n, caller, g[1], g[2])
  BY DEF NftStep
<1>2. ASSUME NEW m \in MintRequests,
             mint_policy(n, caller, m.farmer, m.id, m.distributor,
                         m.sum_insured, m.start_date, m.end_date)
      PROVE  MintStep
  <2>1. PICK id, d, f, sum, start, end :
            /\ id \in Nat /\ d \in Distributors
            /\ mint_policy(n, caller, f, id, d, sum, start, end)
    BY <1>2 DEF NftAssumption
  <2>2. Minted(n, id, [farmer |-> f, distributor |-> d, sum_insured |-> sum,
                       start_date |-> start, end_date |-> end, is_active |-> TRUE], f)
    BY <2>1, MintEffect
  <2> QED  BY <2>2 DEF MintStep
<1>3. ASSUME NEW id \in DOMAIN certificates[n], NEW active \in BOOLEAN,
             update_policy_status(n, caller, id, active)
      PROVE  FlagStep /\ Managers \cap Accounts # {}
  <2>1. FlagStep
    BY <1>3, FlagEffect DEF FlagStep
  <2>2. caller \in Managers
    BY <1>3 DEF update_policy_status, MayUpdateStatus, NftTypeOK, HostAssumption
  <2> QED  BY <2>1, <2>2
<1>4. ASSUME NEW id, NEW to, transfer(n, caller, to, id)
      PROVE  TransferStep
  BY <1>4, TransferEffect DEF TransferStep
<1>5. ASSUME NEW m \in Managers, set_policy_manager(n, caller, m)
      PROVE  Rewired
  BY <1>5 DEF set_policy_manager, Rewired, NftTypeOK
<1>6. ASSUME NEW role, NEW who,
             nft_grant_role(n, caller, role, who) \/ nft_revoke_role(n, caller, role, who)
      PROVE  Rewired
  BY <1>6 DEF nft_grant_role, nft_revoke_role, Rewired, NftTypeOK
<1> QED  BY <1>1, <1>2, <1>3, <1>4, <1>5, <1>6

(* Each of the four keeps the invariant.                                   *)
LEMMA StepInv ==
    ASSUME NftInv, MintStep \/ FlagStep \/ TransferStep \/ Rewired
    PROVE  NftInv'
BY MintInv, FlagInv, TransferInv, RewireInv DEF MintStep, FlagStep, TransferStep

(* Each of the four leaves terms, and the holders of active certificates.  *)
LEMMA StepSoulbound ==
    ASSUME NftTypeOK, MintStep \/ FlagStep \/ TransferStep \/ Rewired
    PROVE  SoulboundStep
<1> SUFFICES ASSUME NEW n \in Nfts, NEW id \in DOMAIN certificates[n]
             PROVE  /\ id \in DOMAIN certificates'[n]
                    /\ certificates[n][id].is_active => owners'[n][id] = owners[n][id]
                    /\ certificates'[n][id] = [certificates[n][id] EXCEPT
                                         !.is_active = certificates'[n][id].is_active]
  BY DEF SoulboundStep
<1> DEFINE c == certificates[n][id]
           d == certificates'[n][id]
<1>1. /\ c = [f \in CertificateFields |-> c[f]]
      /\ id \in DOMAIN owners[n]
  BY DEF NftTypeOK, CertificateOK
<1>2. c = [c EXCEPT !.is_active = c.is_active]
  <2> HIDE DEF c
  <2> QED  BY <1>1 DEF CertificateFields
<1>3. ASSUME NEW m \in Nfts, NEW i, NEW x, NEW owner, Minted(m, i, x, owner)
      PROVE  id \in DOMAIN certificates'[n] /\ d = c /\ owners'[n][id] = owners[n][id]
  <2>1. CASE m # n
    BY <1>3, <2>1 DEF Minted
  <2>2. CASE m = n
    BY <1>1, <1>3, <2>2 DEF Minted
  <2> QED  BY <2>1, <2>2
<1>4. ASSUME NEW m \in Nfts, NEW i \in DOMAIN certificates[m], NEW active \in BOOLEAN,
             FlagSet(m, i, active)
      PROVE  /\ id \in DOMAIN certificates'[n] /\ owners'[n][id] = owners[n][id]
             /\ d = [c EXCEPT !.is_active = d.is_active]
  <2>1. id \in DOMAIN certificates'[n] /\ owners'[n][id] = owners[n][id]
    BY <1>4 DEF FlagSet
  <2>2. d = c \/ d = [c EXCEPT !.is_active = active]
    BY <1>4 DEF FlagSet
  <2> HIDE DEF c, d
  <2> QED  BY <1>1, <1>2, <2>1, <2>2 DEF CertificateFields
<1>5. ASSUME NEW m \in Nfts, NEW i \in DOMAIN certificates[m], NEW to,
             Transferred(m, i, to)
      PROVE  /\ id \in DOMAIN certificates'[n] /\ d = c
             /\ c.is_active => owners'[n][id] = owners[n][id]
  BY <1>1, <1>5 DEF Transferred
<1>6. CASE Rewired
  BY <1>2, <1>6 DEF Rewired, certificateVars
<1> HIDE DEF c, d
<1>7. /\ id \in DOMAIN certificates'[n]
      /\ c.is_active => owners'[n][id] = owners[n][id]
      /\ d = [c EXCEPT !.is_active = d.is_active]
  <2>1. CASE MintStep
    BY <1>2, <1>3, <2>1 DEF MintStep
  <2>2. CASE FlagStep
    BY <1>4, <2>2 DEF FlagStep
  <2>3. CASE TransferStep
    BY <1>2, <1>5, <2>3 DEF TransferStep
  <2>4. CASE Rewired
    BY <1>6, <2>4 DEF c, d
  <2> QED  BY <2>1, <2>2, <2>3, <2>4
<1> QED  BY <1>7 DEF c, d

-----------------------------------------------------------------------------
(* The theorems.                                                           *)

(* The constructors leave no certificates and a typed wiring.              *)
LEMMA NftInitial ==
    ASSUME NftAssumption, NftInit
    PROVE  NftInv
<1>1. /\ nftPolicyManager = [n \in Nfts |-> NftWiring.manager]
      /\ certificates = [n \in Nfts |-> << >>]
      /\ owners = [n \in Nfts |-> << >>]
      /\ distributorPolicies = [n \in Nfts |-> [d \in Distributors |-> << >>]]
  BY DEF NftInit
<1>2. << >> \in Seq(Nat) /\ DOMAIN << >> = {} /\ Len(<< >>) = 0
  BY EmptySeq
<1>3. NftTypeOK
  BY <1>1, <1>2 DEF NftTypeOK, NftAssumption
<1>4. CertificatesFinite
  BY <1>1, <1>2, FS_EmptySet DEF CertificatesFinite
<1>5. DistributorIndexExact
  <2>1. ASSUME NEW n \in Nfts, NEW d \in Distributors
        PROVE  IndexLists(distributorPolicies[n][d], SoldBy(certificates[n], d))
    <3>1. SoldBy(certificates[n], d) = {}
      BY <1>1, <1>2 DEF SoldBy
    <3>2. distributorPolicies[n][d] = << >>
      BY <1>1
    <3>3. Elements(<< >>) = {}
      BY <1>2 DEF Elements
    <3> QED  BY <1>2, <3>1, <3>2, <3>3, FS_EmptySet DEF IndexLists
  <2> QED  BY <2>1 DEF DistributorIndexExact
<1> QED  BY <1>3, <1>4, <1>5 DEF NftInv

(* A step that leaves the certificates alone keeps the invariant.          *)
LEMMA SameInv ==
    ASSUME NftInv, UNCHANGED nftVars
    PROVE  NftInv'
BY RewireInv DEF NftInv, NftTypeOK, Rewired, nftVars, certificateVars

(* In every reachable state certificates and owners exist together, never  *)
(* for id 0, and the distributors' indexes are exact (policy-nft/lib.rs).  *)
THEOREM CertificatesCorrect == NftSpec => []NftInv
<1>1. NftAloneInit => NftInv
  BY NftAssumption, NftInitial DEF NftAloneInit
<1>2. NftInv /\ [NftNext]_<<now, nftVars>> => NftInv'
  <2> SUFFICES ASSUME NftInv, [NftNext]_<<now, nftVars>> PROVE NftInv'
    OBVIOUS
  <2>1. CASE NftStep
    BY <2>1, HostAssumption, NftAssumption, AccountSteps, StepInv DEF NftInv
  <2>2. CASE UNCHANGED nftVars
    BY <2>2, SameInv
  <2> QED  BY <2>1, <2>2 DEF NftNext
<1> QED  BY <1>1, <1>2, PTL DEF NftSpec

(* A certificate and its owner entry exist together, never for id 0.       *)
THEOREM NftTypeCorrect == NftSpec => []NftTypeOK
<1>1. NftInv => NftTypeOK
  BY DEF NftInv
<1> QED  BY <1>1, CertificatesCorrect, PTL

(* Each distributor's index lists its certificates, each once              *)
(* (mint_policy's append).                                                 *)
THEOREM DistributorIndexCorrect == NftSpec => []DistributorIndexExact
<1>1. NftInv => DistributorIndexExact
  BY DEF NftInv
<1> QED  BY <1>1, CertificatesCorrect, PTL

(* No call moves an active certificate, rewrites a certificate's terms or  *)
(* removes one (transfer's TransferWhileActive).                           *)
THEOREM SoulboundCorrect == NftSpec => SoulboundWhileActive
<1>1. NftInv /\ [NftNext]_<<now, nftVars>> => [SoulboundStep]_<<now, nftVars>>
  <2> SUFFICES ASSUME NftInv, [NftNext]_<<now, nftVars>>,
                      ~UNCHANGED <<now, nftVars>>
               PROVE  SoulboundStep
    OBVIOUS
  <2>1. CASE NftStep
    BY <2>1, HostAssumption, NftAssumption, AccountSteps, StepSoulbound DEF NftInv
  <2>2. CASE UNCHANGED nftVars
    BY <2>2, StepSoulbound DEF Rewired, NftInv, NftTypeOK, nftVars, certificateVars
  <2> QED  BY <2>1, <2>2 DEF NftNext
<1> QED  BY <1>1, CertificatesCorrect, PTL DEF NftSpec, SoulboundWhileActive

-----------------------------------------------------------------------------
(* Facts about the operators the actions are built from.                   *)

(* A product of naturals is one: end_date = start + days * SECONDS_PER_DAY. *)
LEMMA ProductNat ==
    ASSUME NEW m \in Nat, NEW n \in Nat
    PROVE  m * n \in Nat
OBVIOUS

(* increment_claim_count keeps the list of claim times a list of times.    *)
LEMMA LatestClaimsType ==
    ASSUME NEW times \in Seq(Nat), PmAssumption
    PROVE  LatestClaims(times) \in Seq(Nat)
<1> DEFINE m == IF Len(times) > MAX_CLAIMS_PER_FARMER_PER_YEAR
                THEN Len(times) - MAX_CLAIMS_PER_FARMER_PER_YEAR + 1
                ELSE 1
<1>1. Len(times) \in Nat /\ m \in Int /\ m >= 1
  BY LenProperties DEF PmAssumption
<1>2. \A i \in m .. Len(times) : times[i] \in Nat
  BY <1>1, ElementOfSeq
<1>3. SubSeq(times, m, Len(times)) \in Seq(Nat)
  <2> HIDE DEF m
  <2> QED  BY <1>1, <1>2, SubSeqProperties
<1> QED  BY <1>3 DEF LatestClaims

-----------------------------------------------------------------------------
(* Every operation keeps the storage well typed.                           *)

(* create_policy.                                                          *)
LEMMA CreateType ==
    ASSUME PmAssumption, PmTypeOK, now' = now, NEW caller, NEW r \in SaleRequests,
           create_policy(caller, r)
    PROVE  PmTypeOK'
<1>1. r \in SaleRequest
  BY DEF PmAssumption
<1>2. r.sum_insured \in Nat
  BY <1>1 DEF create_policy, Sellable, SaleRequest, PmAssumption
<1>3. PICK len \in Nat : len = r.duration_days * SECONDS_PER_DAY
  BY <1>1, ProductNat DEF SaleRequest, PmAssumption
<1>4. now \in Nat /\ policyCounter \in Nat /\ policies \in [1 .. policyCounter -> Policy]
  BY DEF PmTypeOK, BookTypeOK
<1> DEFINE id == policyCounter + 1
           new == [farmer |-> r.farmer, org |-> r.org, lat_e6 |-> r.lat_e6,
                   lon_e6 |-> r.lon_e6, sum_insured |-> r.sum_insured,
                   start_date |-> now, end_date |-> now + len,
                   coverage_type |-> r.coverage_type, status |-> "Pending",
                   created_at |-> now]
<1>5. new \in Policy /\ new.start_date <= new.end_date
  BY <1>1, <1>2, <1>3, <1>4 DEF SaleRequest, Policy, PolicyStatuses
<1>6. /\ policies' = Put(policies, id, new)
      /\ policyCounter' = id
      /\ farmerPolicies' = [farmerPolicies EXCEPT ![r.farmer] = Append(@, id)]
      /\ orgOutstanding' = [orgOutstanding EXCEPT ![r.org] = @ + r.sum_insured]
      /\ farmerPendingCount' = [farmerPendingCount EXCEPT ![r.farmer] = @ + 1]
      /\ pendingCounted' = pendingCounted \cup {id}
      /\ UNCHANGED <<farmerActiveCount, farmerClaimTimes, policyNft>>
  BY <1>3 DEF create_policy, IndexPolicy
<1>7. id \in Nat /\ id \in 1 .. id /\ 1 .. policyCounter \subseteq 1 .. id
  BY <1>4
<1>8. /\ policies' \in [1 .. id -> Policy]
      /\ policies'[id] = new
      /\ \A i \in 1 .. policyCounter : policies'[i] = policies[i]
  <2> HIDE DEF new
  <2>1. new \in Policy
    BY <1>5
  <2>2. /\ Put(policies, policyCounter + 1, new) \in [1 .. policyCounter + 1 -> Policy]
        /\ Put(policies, policyCounter + 1, new)[policyCounter + 1] = new
        /\ \A i \in 1 .. policyCounter :
              Put(policies, policyCounter + 1, new)[i] = policies[i]
    <3>1. policyCounter \in Nat
      BY <1>4
    <3>2. policies \in [1 .. policyCounter -> Policy]
      BY <1>4
    <3>3. DOMAIN policies \cup {policyCounter + 1} = 1 .. policyCounter + 1
      BY <3>1, <3>2
    <3> HIDE DEF id
    <3> QED  BY <3>1, <3>2, <3>3, <2>1 DEF Put
  <2>3. policies' = Put(policies, policyCounter + 1, new)
    BY <1>6
  <2> QED  BY <2>2, <2>3
<1>9. \A i \in 1 .. id : policies'[i].start_date <= policies'[i].end_date
  <2> SUFFICES ASSUME NEW i \in 1 .. id
               PROVE  policies'[i].start_date <= policies'[i].end_date
    OBVIOUS
  <2>1. CASE i = id
    BY <2>1, <1>5, <1>8
  <2>2. CASE i \in 1 .. policyCounter
    BY <2>2, <1>8 DEF PmTypeOK, BookTypeOK
  <2> QED  BY <1>4, <2>1, <2>2
<1> HIDE DEF id, new
<1>10. farmerPolicies' \in [Farmers -> Seq(1 .. id)]
  <2>1. \A f \in Farmers : farmerPolicies[f] \in Seq(1 .. id)
    BY <1>7, SeqMonotonic DEF PmTypeOK, BookTypeOK
  <2>2. \A f \in Farmers : Append(farmerPolicies[f], id) \in Seq(1 .. id)
    BY <1>7, <2>1, AppendProperties
  <2> QED  BY <1>6, <2>1, <2>2 DEF PmTypeOK, BookTypeOK
<1>11. /\ farmerActiveCount' \in [Farmers -> Nat]
       /\ farmerPendingCount' \in [Farmers -> Nat]
       /\ orgOutstanding' \in [Orgs -> Nat]
       /\ farmerClaimTimes' \in [Farmers -> Seq(Nat)]
       /\ policyNft' \in NftAddrs \cup {None}
  <2>1. /\ farmerPendingCount \in [Farmers -> Nat]
        /\ orgOutstanding \in [Orgs -> Nat]
    BY DEF PmTypeOK, BookTypeOK
  <2>2. r.farmer \in Farmers /\ r.org \in Orgs
    BY <1>1 DEF SaleRequest
  <2>3. farmerPendingCount' = [farmerPendingCount EXCEPT ![r.farmer] = @ + 1]
    BY <1>6
  <2>4. orgOutstanding' = [orgOutstanding EXCEPT ![r.org] = @ + r.sum_insured]
    BY <1>6
  <2>5. farmerPendingCount' \in [Farmers -> Nat]
    BY <2>1, <2>2, <2>3
  <2>6. orgOutstanding' \in [Orgs -> Nat]
    BY <1>2, <2>1, <2>2, <2>4
  <2> QED  BY <1>6, <2>5, <2>6 DEF PmTypeOK, BookTypeOK
<1>12. pendingCounted' \subseteq 1 .. id
  BY <1>6, <1>7 DEF PmTypeOK, BookTypeOK
<1> QED  BY <1>4, <1>6, <1>7, <1>8, <1>9, <1>10, <1>11, <1>12 DEF PmTypeOK, BookTypeOK

(* The release helpers keep the counters natural numbers.                  *)
LEMMA ReleaseType ==
    ASSUME BookTypeOK, NEW f \in Farmers, NEW o \in Orgs, NEW sum \in Nat, NEW id
    PROVE  /\ decrement_active(f) => farmerActiveCount' \in [Farmers -> Nat]
           /\ release_pending_slot(id, f) =>
                  /\ farmerPendingCount' \in [Farmers -> Nat]
                  /\ pendingCounted' \subseteq pendingCounted
           /\ release_org_exposure(o, sum) => orgOutstanding' \in [Orgs -> Nat]
<1>1. /\ farmerActiveCount \in [Farmers -> Nat]
      /\ farmerPendingCount \in [Farmers -> Nat]
      /\ orgOutstanding \in [Orgs -> Nat]
  BY DEF BookTypeOK
<1>2. decrement_active(f) => farmerActiveCount' \in [Farmers -> Nat]
  BY <1>1 DEF decrement_active
<1>3. release_pending_slot(id, f) => farmerPendingCount' \in [Farmers -> Nat]
  BY <1>1 DEF release_pending_slot
<1>4. release_pending_slot(id, f) => pendingCounted' \subseteq pendingCounted
  BY DEF release_pending_slot
<1>5. release_org_exposure(o, sum) => orgOutstanding' \in [Orgs -> Nat]
  BY <1>1 DEF release_org_exposure
<1> QED  BY <1>2, <1>3, <1>4, <1>5

(* Rewriting one policy with a well-formed one keeps the book well typed.  *)
LEMMA UpdateType ==
    ASSUME BookTypeOK, NEW id \in 1 .. policyCounter, NEW STATE p, p \in Policy,
           p.start_date <= p.end_date,
           policies' = [policies EXCEPT ![id] = p],
           UNCHANGED <<now, policyCounter, farmerPolicies, policyNft>>,
           farmerActiveCount' \in [Farmers -> Nat],
           farmerPendingCount' \in [Farmers -> Nat],
           pendingCounted' \subseteq pendingCounted,
           orgOutstanding' \in [Orgs -> Nat]
    PROVE  BookTypeOK'
<1>1. /\ policies \in [1 .. policyCounter -> Policy]
      /\ \A i \in 1 .. policyCounter : policies[i].start_date <= policies[i].end_date
  BY DEF BookTypeOK
<1>2. policies' \in [1 .. policyCounter -> Policy]
  BY <1>1
<1>3. \A i \in 1 .. policyCounter : policies'[i].start_date <= policies'[i].end_date
  BY <1>1
<1> QED  BY <1>2, <1>3 DEF BookTypeOK

(* A policy loses nothing but its status when it closes.                   *)
LEMMA StatusType ==
    ASSUME NEW p \in Policy, NEW status \in PolicyStatuses
    PROVE  /\ [p EXCEPT !.status = status] \in Policy
           /\ [p EXCEPT !.status = status].start_date = p.start_date
           /\ [p EXCEPT !.status = status].end_date = p.end_date
BY DEF Policy

(* activate_policy: the new window is as long as the one it replaces, so   *)
(* it does not end before it starts.                                       *)
LEMMA ActivatedType ==
    ASSUME BookTypeOK, NEW id \in 1 .. policyCounter
    PROVE  /\ Activated(policies[id]) \in Policy
           /\ Activated(policies[id]).start_date <= Activated(policies[id]).end_date
           /\ Activated(policies[id]).farmer = policies[id].farmer
           /\ Activated(policies[id]).status = "Active"
<1>1. policies[id] \in Policy /\ policies[id].start_date <= policies[id].end_date /\ now \in Nat
  BY DEF BookTypeOK
<1>2. PICK q \in Policy : q = policies[id] /\ q.start_date <= q.end_date
  BY <1>1
<1>3. PICK len \in Nat : len = q.end_date - q.start_date
  BY <1>2 DEF Policy
<1> DEFINE p == [q EXCEPT !.status = "Active", !.start_date = now, !.end_date = now + len]
<1>4. now + len \in Nat /\ now <= now + len
  BY <1>1, <1>3
<1>5. p \in Policy
  BY <1>1, <1>2, <1>4 DEF Policy, PolicyStatuses
<1>6. p.farmer = q.farmer /\ p.status = "Active" /\ p.start_date = now /\ p.end_date = now + len
  BY <1>2 DEF Policy
<1>7. Activated(policies[id]) = p
  BY <1>2, <1>3 DEF Activated
<1> HIDE DEF p
<1> QED  BY <1>2, <1>4, <1>5, <1>6, <1>7

(* activate_policy keeps the storage well typed.                           *)
LEMMA ActivateType ==
    ASSUME PmTypeOK, now' = now, NEW caller, NEW distributor, NEW id \in DOMAIN policies,
           activate_policy(caller, id, distributor)
    PROVE  PmTypeOK'
<1> DEFINE p == Activated(policies[id])
<1>1. BookTypeOK /\ id \in 1 .. policyCounter
  BY DEF PmTypeOK, BookTypeOK
<1>2. p \in Policy /\ p.start_date <= p.end_date
  BY <1>1, ActivatedType
<1>3. p.farmer \in Farmers
  BY <1>2 DEF Policy
<1> HIDE DEF p
<1>4. /\ policies' = [policies EXCEPT ![id] = p]
      /\ farmerActiveCount' = [farmerActiveCount EXCEPT ![p.farmer] = @ + 1]
      /\ release_pending_slot(id, p.farmer)
      /\ UNCHANGED <<policyCounter, farmerPolicies, orgOutstanding, farmerClaimTimes, policyNft>>
  BY DEF activate_policy, p
<1>5. farmerActiveCount' \in [Farmers -> Nat]
  BY <1>1, <1>3, <1>4 DEF BookTypeOK
<1>6. farmerPendingCount' \in [Farmers -> Nat] /\ pendingCounted' \subseteq pendingCounted
  <2>1. farmerPendingCount \in [Farmers -> Nat]
    BY <1>1 DEF BookTypeOK
  <2> QED  BY <1>3, <1>4, <2>1 DEF release_pending_slot
<1>7. orgOutstanding' \in [Orgs -> Nat]
  BY <1>1, <1>4 DEF BookTypeOK
<1>8. BookTypeOK'
  BY <1>1, <1>2, <1>4, <1>5, <1>6, <1>7, UpdateType
<1> QED  BY <1>4, <1>8 DEF PmTypeOK

(* cancel_policy and expire_policy.                                        *)
LEMMA CloseType ==
    ASSUME PmTypeOK, now' = now, NEW id \in DOMAIN policies,
           NEW status \in PolicyStatuses, Close(id, status)
    PROVE  PmTypeOK'
<1>1. BookTypeOK /\ id \in 1 .. policyCounter
  BY DEF PmTypeOK, BookTypeOK
<1> DEFINE p == [policies[id] EXCEPT !.status = status]
<1>2. policies[id] \in Policy /\ policies[id].start_date <= policies[id].end_date
  BY <1>1 DEF BookTypeOK
<1>3. p \in Policy /\ p.start_date <= p.end_date
  BY <1>2, StatusType
<1>4. /\ policies[id].farmer \in Farmers
      /\ policies[id].org \in Orgs
      /\ policies[id].sum_insured \in Nat
  BY <1>2 DEF Policy
<1>5. policies' = [policies EXCEPT ![id] = p]
  BY DEF Close
<1>6. UNCHANGED <<policyCounter, farmerPolicies, policyNft, farmerClaimTimes>>
  BY DEF Close
<1>7. orgOutstanding' \in [Orgs -> Nat]
  BY <1>1, <1>4, ReleaseType DEF Close
<1>8. \/ /\ decrement_active(policies[id].farmer)
         /\ UNCHANGED <<farmerPendingCount, pendingCounted>>
      \/ /\ release_pending_slot(id, policies[id].farmer)
         /\ UNCHANGED farmerActiveCount
  BY DEF Close
<1>9. /\ farmerActiveCount' \in [Farmers -> Nat]
      /\ farmerPendingCount' \in [Farmers -> Nat]
      /\ pendingCounted' \subseteq pendingCounted
  BY <1>1, <1>4, <1>8, ReleaseType DEF BookTypeOK
<1> HIDE DEF p
<1>10. BookTypeOK'
  BY <1>1, <1>3, <1>5, <1>6, <1>7, <1>9, UpdateType
<1> QED  BY <1>6, <1>10 DEF PmTypeOK

(* mark_as_claimed, whatever happens to the claim times beside it.         *)
LEMMA ClaimType ==
    ASSUME BookTypeOK, now' = now, NEW caller, NEW id \in DOMAIN policies,
           mark_as_claimed(caller, id)
    PROVE  BookTypeOK'
<1>1. id \in 1 .. policyCounter
  BY DEF BookTypeOK
<1> DEFINE p == [policies[id] EXCEPT !.status = "Claimed"]
<1>2. policies[id] \in Policy /\ policies[id].start_date <= policies[id].end_date
  BY <1>1 DEF BookTypeOK
<1>3. p \in Policy /\ p.start_date <= p.end_date
  BY <1>2, StatusType DEF PolicyStatuses
<1>4. /\ policies[id].farmer \in Farmers
      /\ policies[id].org \in Orgs
      /\ policies[id].sum_insured \in Nat
  BY <1>2 DEF Policy
<1>5. policies' = [policies EXCEPT ![id] = p]
  BY DEF mark_as_claimed
<1>6. UNCHANGED <<policyCounter, farmerPolicies, farmerPendingCount, pendingCounted, policyNft>>
  BY DEF mark_as_claimed
<1>7. orgOutstanding' \in [Orgs -> Nat] /\ farmerActiveCount' \in [Farmers -> Nat]
  BY <1>4, ReleaseType DEF mark_as_claimed
<1>8. farmerPendingCount' \in [Farmers -> Nat] /\ pendingCounted' \subseteq pendingCounted
  BY <1>6 DEF BookTypeOK
<1> HIDE DEF p
<1> QED  BY <1>1, <1>3, <1>5, <1>6, <1>7, <1>8, UpdateType

(* A step that leaves the book alone keeps it well typed.                  *)
LEMMA SameBookType ==
    ASSUME BookTypeOK, UNCHANGED bookVars, now' \in Nat, policyNft' \in NftAddrs \cup {None}
    PROVE  BookTypeOK'
BY DEF BookTypeOK, bookVars

(* Every step of the book, by the accounts, the certificates or the clock. *)
LEMMA BookNextType ==
    ASSUME PmAssumption, PmTypeOK, [BookNext]_bookSpecVars
    PROVE  PmTypeOK'
<1>1. CASE UNCHANGED <<now, pmVars>>
  BY <1>1 DEF PmTypeOK, BookTypeOK, pmVars, bookVars
<1>2. CASE Tick /\ UNCHANGED pmVars
  <2>1. now' \in Nat
    BY <1>2 DEF Tick, PmTypeOK, BookTypeOK
  <2> QED  BY <1>2, <2>1, SameBookType DEF PmTypeOK, BookTypeOK, pmVars
<1>3. CASE PmStep /\ UNCHANGED now
  <2>1. PICK caller \in Accounts :
            \/ \E r \in SaleRequests : create_policy(caller, r)
            \/ \E id \in DOMAIN policies :
                  \/ \E d \in Distributors : activate_policy(caller, id, d)
                  \/ mark_as_claimed(caller, id) /\ UNCHANGED farmerClaimTimes
                  \/ cancel_policy(caller, id)
                  \/ expire_policy(id)
            \/ \E f \in Farmers :
                  increment_claim_count(caller, f)
                      /\ UNCHANGED <<bookVars, pmRoles, policyNft, nftVars>>
            \/ \E a \in NftAddrs : set_policy_nft(caller, a)
            \/ \E g \in PmGrants : pm_grant_role(caller, g[1], g[2])
            \/ \E g \in PmGrants : pm_revoke_role(caller, g[1], g[2])
    BY <1>3 DEF PmStep
  <2>2. ASSUME NEW r \in SaleRequests, create_policy(caller, r)
        PROVE  PmTypeOK'
    BY <1>3, <2>2, CreateType
  <2>3. ASSUME NEW id \in DOMAIN policies, NEW d, activate_policy(caller, id, d)
        PROVE  PmTypeOK'
    BY <1>3, <2>3, ActivateType
  <2>4. ASSUME NEW id \in DOMAIN policies, mark_as_claimed(caller, id),
               UNCHANGED farmerClaimTimes
        PROVE  PmTypeOK'
    BY <1>3, <2>4, ClaimType DEF PmTypeOK
  <2>5. ASSUME NEW id \in DOMAIN policies, cancel_policy(caller, id)
        PROVE  PmTypeOK'
    BY <1>3, <2>5, CloseType DEF cancel_policy, PolicyStatuses
  <2>6. ASSUME NEW id \in DOMAIN policies, expire_policy(id)
        PROVE  PmTypeOK'
    BY <1>3, <2>6, CloseType DEF expire_policy, PolicyStatuses
  <2>7. ASSUME NEW f \in Farmers, increment_claim_count(caller, f),
               UNCHANGED <<bookVars, policyNft>>
        PROVE  PmTypeOK'
    <3>1. now \in Nat /\ farmerClaimTimes \in [Farmers -> Seq(Nat)]
      BY DEF PmTypeOK, BookTypeOK
    <3>2. Append(farmerClaimTimes[f], now) \in Seq(Nat)
      BY <3>1, AppendProperties
    <3>3. LatestClaims(Append(farmerClaimTimes[f], now)) \in Seq(Nat)
      BY <3>2, LatestClaimsType
    <3>4. farmerClaimTimes' =
              [farmerClaimTimes EXCEPT ![f] = LatestClaims(Append(farmerClaimTimes[f], now))]
      BY <2>7 DEF increment_claim_count
    <3>5. farmerClaimTimes' \in [Farmers -> Seq(Nat)]
      BY <3>1, <3>3, <3>4
    <3> QED  BY <1>3, <2>7, <3>5, SameBookType DEF PmTypeOK, BookTypeOK
  <2>8. ASSUME NEW a \in NftAddrs, set_policy_nft(caller, a)
        PROVE  PmTypeOK'
    BY <1>3, <2>8, SameBookType DEF set_policy_nft, PmTypeOK, BookTypeOK
  <2>9. ASSUME NEW role, NEW who,
               pm_grant_role(caller, role, who) \/ pm_revoke_role(caller, role, who)
        PROVE  PmTypeOK'
    BY <1>3, <2>9, SameBookType DEF pm_grant_role, pm_revoke_role, PmTypeOK, BookTypeOK
  <2> QED  BY <2>1, <2>2, <2>3, <2>4, <2>5, <2>6, <2>7, <2>8, <2>9
<1> QED  BY <1>1, <1>2, <1>3 DEF BookNext, bookSpecVars

(* What the constructor leaves has the declared shape.                     *)
LEMMA InitialBook ==
    ASSUME PmAssumption, now = 0, PmInit
    PROVE  PmTypeOK
<1>1. policies \in [1 .. 0 -> Policy] /\ policyCounter = 0
  BY DEF PmInit
<1>2. << >> \in Seq(1 .. 0) /\ << >> \in Seq(Nat)
  OBVIOUS
<1>3. policyNft \in NftAddrs \cup {None}
  BY DEF PmInit, PmAssumption
<1> QED  BY <1>1, <1>2, <1>3 DEF PmInit, PmTypeOK, BookTypeOK

(* The storage of the manager always has its declared shape, for every     *)
(* deployment: policy ids are dense and no window ends before it starts.   *)
THEOREM BookTypeCorrect == BookSpec => []PmTypeOK
<1>1. BookInit => PmTypeOK
  BY PmAssumption, InitialBook DEF BookInit
<1>2. PmTypeOK /\ [BookNext]_bookSpecVars => PmTypeOK'
  BY PmAssumption, BookNextType
<1> QED  BY <1>1, <1>2, PTL DEF BookSpec

-----------------------------------------------------------------------------
(* The slot counters.                                                      *)

(* Policies are finitely many, so the counts below are natural numbers.    *)
LEMMA PoliciesOfFinite ==
    ASSUME BookTypeOK, NEW f, NEW s
    PROVE  IsFiniteSet(PoliciesOf(f, s)) /\ Cardinality(PoliciesOf(f, s)) \in Nat
<1>1. IsFiniteSet(1 .. policyCounter)
  BY FS_Interval DEF BookTypeOK
<1>2. PoliciesOf(f, s) \subseteq 1 .. policyCounter
  BY DEF BookTypeOK, PoliciesOf
<1> QED  BY <1>1, <1>2, FS_Subset, FS_CardinalityType

(* A policy that changes its status leaves one count and joins another.    *)
CountsMove(id, p) ==
    \A f, s :
        /\ f = p.farmer /\ s = policies[id].status =>
               /\ Cardinality(PoliciesOf(f, s)) > 0
               /\ Cardinality(PoliciesOf(f, s))' = Cardinality(PoliciesOf(f, s)) - 1
        /\ f = p.farmer /\ s = p.status =>
               Cardinality(PoliciesOf(f, s))' = Cardinality(PoliciesOf(f, s)) + 1
        /\ f # p.farmer \/ s \notin {policies[id].status, p.status} =>
               Cardinality(PoliciesOf(f, s))' = Cardinality(PoliciesOf(f, s))

(* Rewriting one policy with another status moves it between the counts.   *)
LEMMA MoveCounts ==
    ASSUME BookTypeOK, NEW id \in 1 .. policyCounter, NEW STATE p, p \in Policy,
           p.farmer = policies[id].farmer, p.status # policies[id].status,
           policies' = [policies EXCEPT ![id] = p]
    PROVE  CountsMove(id, p)
<1> SUFFICES ASSUME NEW f, NEW s
             PROVE  /\ f = p.farmer /\ s = policies[id].status =>
                           /\ Cardinality(PoliciesOf(f, s)) > 0
                           /\ Cardinality(PoliciesOf(f, s))' = Cardinality(PoliciesOf(f, s)) - 1
                    /\ f = p.farmer /\ s = p.status =>
                           Cardinality(PoliciesOf(f, s))' = Cardinality(PoliciesOf(f, s)) + 1
                    /\ f # p.farmer \/ s \notin {policies[id].status, p.status} =>
                           Cardinality(PoliciesOf(f, s))' = Cardinality(PoliciesOf(f, s))
  BY DEF CountsMove
<1> DEFINE S == PoliciesOf(f, s)
           T == PoliciesOf(f, s)'
<1>1. IsFiniteSet(S) /\ Cardinality(S) \in Nat
  BY PoliciesOfFinite
<1>2. /\ DOMAIN policies = 1 .. policyCounter
      /\ DOMAIN policies' = 1 .. policyCounter
      /\ policies'[id] = p
      /\ \A i \in 1 .. policyCounter : i # id => policies'[i] = policies[i]
  BY DEF BookTypeOK
<1>3. T = {i \in DOMAIN policies' : policies'[i].farmer = f /\ policies'[i].status = s}
  BY DEF PoliciesOf
<1>4. S = {i \in DOMAIN policies : policies[i].farmer = f /\ policies[i].status = s}
  BY DEF PoliciesOf
<1> HIDE DEF S, T
<1>5. ASSUME f = p.farmer, s = policies[id].status
      PROVE  Cardinality(S) > 0 /\ Cardinality(T) = Cardinality(S) - 1
  <2>1. id \in S /\ T = S \ {id}
    BY <1>2, <1>3, <1>4, <1>5
  <2>2. Cardinality(T) = Cardinality(S) - 1 /\ Cardinality(T) \in Nat
    BY <1>1, <2>1, FS_RemoveElement, FS_CardinalityType
  <2> QED  BY <1>1, <2>2
<1>6. ASSUME f = p.farmer, s = p.status
      PROVE  Cardinality(T) = Cardinality(S) + 1
  <2>1. id \notin S /\ T = S \cup {id}
    BY <1>2, <1>3, <1>4, <1>6
  <2> QED  BY <1>1, <2>1, FS_AddElement
<1>7. ASSUME f # p.farmer \/ s \notin {policies[id].status, p.status}
      PROVE  T = S
  BY <1>2, <1>3, <1>4, <1>7
<1> QED  BY <1>5, <1>6, <1>7 DEF S, T

(* What create_policy adds is one PENDING policy of its farmer.            *)
LEMMA CreateCounters ==
    ASSUME PmAssumption, PmTypeOK, CountersMatchPolicies, NEW caller, NEW r \in SaleRequests,
           create_policy(caller, r)
    PROVE  CountersMatchPolicies'
<1> DEFINE id == policyCounter + 1
<1>1. BookTypeOK /\ policyCounter \in Nat /\ DOMAIN policies = 1 .. policyCounter
  BY DEF PmTypeOK, BookTypeOK
<1>2. /\ DOMAIN policies' = DOMAIN policies \cup {id}
      /\ \A i \in DOMAIN policies : policies'[i] = policies[i]
      /\ policies'[id].farmer = r.farmer
      /\ policies'[id].status = "Pending"
  BY <1>1 DEF create_policy, Put
<1>3. /\ farmerPendingCount' = [farmerPendingCount EXCEPT ![r.farmer] = @ + 1]
      /\ pendingCounted' = pendingCounted \cup {id}
      /\ farmerActiveCount' = farmerActiveCount
  BY DEF create_policy
<1>4. id \notin DOMAIN policies
  BY <1>1
<1> HIDE DEF id
<1>5. pendingCounted' = {i \in DOMAIN policies' : policies'[i].status = "Pending"}
  BY <1>2, <1>3, <1>4 DEF CountersMatchPolicies
<1>6. ASSUME NEW f \in Farmers
      PROVE  /\ farmerActiveCount'[f] = Cardinality(PoliciesOf(f, "Active"))'
             /\ farmerPendingCount'[f] = Cardinality(PoliciesOf(f, "Pending"))'
  <2>1. PoliciesOf(f, "Active")' = PoliciesOf(f, "Active")
    BY <1>2, <1>4 DEF PoliciesOf
  <2>2. /\ farmerActiveCount[f] = Cardinality(PoliciesOf(f, "Active"))
        /\ farmerPendingCount[f] = Cardinality(PoliciesOf(f, "Pending"))
        /\ farmerPendingCount \in [Farmers -> Nat]
    BY <1>1 DEF CountersMatchPolicies, BookTypeOK
  <2>3. CASE f = r.farmer
    <3>1. PoliciesOf(f, "Pending")' = PoliciesOf(f, "Pending") \cup {id}
      BY <1>2, <1>4, <2>3 DEF PoliciesOf
    <3>2. id \notin PoliciesOf(f, "Pending")
      BY <1>4 DEF PoliciesOf
    <3>3. Cardinality(PoliciesOf(f, "Pending")') = Cardinality(PoliciesOf(f, "Pending")) + 1
      BY <1>1, <3>1, <3>2, PoliciesOfFinite, FS_AddElement
    <3> QED  BY <1>3, <2>1, <2>2, <2>3, <3>3
  <2>4. CASE f # r.farmer
    <3>1. PoliciesOf(f, "Pending")' = PoliciesOf(f, "Pending")
      BY <1>2, <1>4, <2>4 DEF PoliciesOf
    <3> QED  BY <1>3, <2>1, <2>2, <2>4, <3>1
  <2> QED  BY <2>3, <2>4
<1> QED  BY <1>5, <1>6 DEF CountersMatchPolicies

(* activate_policy moves one policy from the PENDING to the ACTIVE count.  *)
LEMMA ActivateCounters ==
    ASSUME PmTypeOK, CountersMatchPolicies, NEW caller, NEW distributor,
           NEW id \in DOMAIN policies, activate_policy(caller, id, distributor)
    PROVE  CountersMatchPolicies'
<1> DEFINE p == Activated(policies[id])
<1>1. BookTypeOK /\ id \in 1 .. policyCounter /\ DOMAIN policies = 1 .. policyCounter
  BY DEF PmTypeOK, BookTypeOK
<1>2. p \in Policy /\ p.farmer = policies[id].farmer /\ p.status = "Active"
  BY <1>1, ActivatedType
<1> HIDE DEF p
<1>3. /\ policies[id].status = "Pending"
      /\ policies' = [policies EXCEPT ![id] = p]
      /\ farmerActiveCount' = [farmerActiveCount EXCEPT ![p.farmer] = @ + 1]
      /\ release_pending_slot(id, p.farmer)
  BY DEF activate_policy, p
<1>4. p.status # policies[id].status
  BY <1>2, <1>3
<1>5. CountsMove(id, p)
  BY <1>1, <1>2, <1>3, <1>4, MoveCounts
<1>6. id \in pendingCounted
  BY <1>3 DEF CountersMatchPolicies
<1>7. /\ pendingCounted' = pendingCounted \ {id}
      /\ farmerPendingCount' =
             [farmerPendingCount EXCEPT ![p.farmer] = IF @ > 0 THEN @ - 1 ELSE @]
  BY <1>3, <1>6 DEF release_pending_slot
<1>8. pendingCounted' = {i \in DOMAIN policies' : policies'[i].status = "Pending"}
  BY <1>1, <1>2, <1>3, <1>7 DEF CountersMatchPolicies
<1>9. ASSUME NEW f \in Farmers
      PROVE  /\ farmerActiveCount'[f] = Cardinality(PoliciesOf(f, "Active"))'
             /\ farmerPendingCount'[f] = Cardinality(PoliciesOf(f, "Pending"))'
  <2>1. /\ farmerActiveCount[f] = Cardinality(PoliciesOf(f, "Active"))
        /\ farmerPendingCount[f] = Cardinality(PoliciesOf(f, "Pending"))
        /\ farmerActiveCount \in [Farmers -> Nat]
        /\ farmerPendingCount \in [Farmers -> Nat]
    BY <1>1 DEF CountersMatchPolicies, BookTypeOK
  <2>2. CASE f = p.farmer
    <3>1. Cardinality(PoliciesOf(f, "Active"))' = Cardinality(PoliciesOf(f, "Active")) + 1
      BY <1>2, <1>3, <1>5, <2>2 DEF CountsMove
    <3>2. /\ Cardinality(PoliciesOf(f, "Pending")) > 0
          /\ Cardinality(PoliciesOf(f, "Pending"))' = Cardinality(PoliciesOf(f, "Pending")) - 1
      BY <1>2, <1>3, <1>5, <2>2 DEF CountsMove
    <3> QED  BY <1>3, <1>7, <2>1, <2>2, <3>1, <3>2
  <2>3. CASE f # p.farmer
    <3>1. /\ Cardinality(PoliciesOf(f, "Active"))' = Cardinality(PoliciesOf(f, "Active"))
          /\ Cardinality(PoliciesOf(f, "Pending"))' = Cardinality(PoliciesOf(f, "Pending"))
      BY <1>5, <2>3 DEF CountsMove
    <3> QED  BY <1>3, <1>7, <2>1, <2>3, <3>1
  <2> QED  BY <2>2, <2>3
<1> QED  BY <1>8, <1>9 DEF CountersMatchPolicies

(* A policy that leaves ACTIVE frees the active slot it held.              *)
LEMMA LeaveActiveCounters ==
    ASSUME BookTypeOK, CountersMatchPolicies, NEW id \in DOMAIN policies,
           NEW STATE p, p \in Policy,
           p.farmer = policies[id].farmer, p.status \notin OpenStatuses,
           policies[id].status = "Active",
           policies' = [policies EXCEPT ![id] = p],
           decrement_active(policies[id].farmer),
           UNCHANGED <<farmerPendingCount, pendingCounted>>
    PROVE  CountersMatchPolicies'
<1>1. id \in 1 .. policyCounter /\ DOMAIN policies = 1 .. policyCounter
  BY DEF BookTypeOK
<1>2. p.status # "Active" /\ p.status # "Pending"
  BY DEF OpenStatuses
<1>3. p.status # policies[id].status
  BY <1>2
<1>4. CountsMove(id, p)
  BY <1>1, <1>3, MoveCounts
<1>5. pendingCounted' = {i \in DOMAIN policies' : policies'[i].status = "Pending"}
  BY <1>1, <1>2 DEF CountersMatchPolicies
<1>6. ASSUME NEW f \in Farmers
      PROVE  /\ farmerActiveCount'[f] = Cardinality(PoliciesOf(f, "Active"))'
             /\ farmerPendingCount'[f] = Cardinality(PoliciesOf(f, "Pending"))'
  <2>1. /\ farmerActiveCount[f] = Cardinality(PoliciesOf(f, "Active"))
        /\ farmerPendingCount[f] = Cardinality(PoliciesOf(f, "Pending"))
        /\ farmerActiveCount \in [Farmers -> Nat]
    BY DEF CountersMatchPolicies, BookTypeOK
  <2>2. Cardinality(PoliciesOf(f, "Pending"))' = Cardinality(PoliciesOf(f, "Pending"))
    BY <1>2, <1>4 DEF CountsMove
  <2>3. farmerActiveCount' =
            [farmerActiveCount EXCEPT ![p.farmer] = IF @ > 0 THEN @ - 1 ELSE @]
    BY DEF decrement_active
  <2>4. CASE f = p.farmer
    <3>1. /\ Cardinality(PoliciesOf(f, "Active")) > 0
          /\ Cardinality(PoliciesOf(f, "Active"))' = Cardinality(PoliciesOf(f, "Active")) - 1
      BY <1>2, <2>4, <1>4 DEF CountsMove
    <3> QED  BY <2>1, <2>2, <2>3, <2>4, <3>1
  <2>5. CASE f # p.farmer
    <3>1. Cardinality(PoliciesOf(f, "Active"))' = Cardinality(PoliciesOf(f, "Active"))
      BY <1>2, <2>5, <1>4 DEF CountsMove
    <3> QED  BY <2>1, <2>2, <2>3, <2>5, <3>1
  <2> QED  BY <2>4, <2>5
<1> QED  BY <1>5, <1>6 DEF CountersMatchPolicies

(* A policy that is withdrawn or lapses while PENDING frees its slot: its  *)
(* marker is still set, and the saturation at zero is never reached.       *)
LEMMA LeavePendingCounters ==
    ASSUME BookTypeOK, CountersMatchPolicies, NEW id \in DOMAIN policies,
           NEW STATE p, p \in Policy,
           p.farmer = policies[id].farmer, p.status \notin OpenStatuses,
           policies[id].status = "Pending",
           policies' = [policies EXCEPT ![id] = p],
           release_pending_slot(id, policies[id].farmer),
           UNCHANGED farmerActiveCount
    PROVE  CountersMatchPolicies'
<1>1. id \in 1 .. policyCounter /\ DOMAIN policies = 1 .. policyCounter
  BY DEF BookTypeOK
<1>2. p.status # "Active" /\ p.status # "Pending"
  BY DEF OpenStatuses
<1>3. id \in pendingCounted
  BY DEF CountersMatchPolicies
<1>4. /\ pendingCounted' = pendingCounted \ {id}
      /\ farmerPendingCount' =
             [farmerPendingCount EXCEPT ![p.farmer] = IF @ > 0 THEN @ - 1 ELSE @]
  BY <1>3 DEF release_pending_slot
<1>5. p.status # policies[id].status
  BY <1>2
<1>6. CountsMove(id, p)
  BY <1>1, <1>5, MoveCounts
<1>7. pendingCounted' = {i \in DOMAIN policies' : policies'[i].status = "Pending"}
  BY <1>1, <1>2, <1>4 DEF CountersMatchPolicies
<1>8. ASSUME NEW f \in Farmers
      PROVE  /\ farmerActiveCount'[f] = Cardinality(PoliciesOf(f, "Active"))'
             /\ farmerPendingCount'[f] = Cardinality(PoliciesOf(f, "Pending"))'
  <2>1. /\ farmerActiveCount[f] = Cardinality(PoliciesOf(f, "Active"))
        /\ farmerPendingCount[f] = Cardinality(PoliciesOf(f, "Pending"))
        /\ farmerPendingCount \in [Farmers -> Nat]
    BY DEF CountersMatchPolicies, BookTypeOK
  <2>2. Cardinality(PoliciesOf(f, "Active"))' = Cardinality(PoliciesOf(f, "Active"))
    BY <1>2, <1>6 DEF CountsMove
  <2>3. CASE f = p.farmer
    <3>1. /\ Cardinality(PoliciesOf(f, "Pending")) > 0
          /\ Cardinality(PoliciesOf(f, "Pending"))' = Cardinality(PoliciesOf(f, "Pending")) - 1
      BY <1>2, <2>3, <1>6 DEF CountsMove
    <3> QED  BY <1>4, <2>1, <2>2, <2>3, <3>1
  <2>4. CASE f # p.farmer
    <3>1. Cardinality(PoliciesOf(f, "Pending"))' = Cardinality(PoliciesOf(f, "Pending"))
      BY <1>2, <2>4, <1>6 DEF CountsMove
    <3> QED  BY <1>4, <2>1, <2>2, <2>4, <3>1
  <2> QED  BY <2>3, <2>4
<1> QED  BY <1>7, <1>8 DEF CountersMatchPolicies

(* Closing a policy rewrites it with one that is no longer open.           *)
LEMMA ClosedPolicy ==
    ASSUME BookTypeOK, NEW id \in DOMAIN policies, NEW status \in PolicyStatuses \ OpenStatuses,
           policies' = [policies EXCEPT ![id].status = status]
    PROVE  \E p \in Policy : /\ p.farmer = policies[id].farmer
                             /\ p.status \notin OpenStatuses
                             /\ policies' = [policies EXCEPT ![id] = p]
<1> DEFINE p == [policies[id] EXCEPT !.status = status]
<1>1. policies[id] \in Policy
  BY DEF BookTypeOK
<1>2. p \in Policy /\ p.farmer = policies[id].farmer /\ p.status = status
  BY <1>1, StatusType DEF Policy
<1>3. policies' = [policies EXCEPT ![id] = p]
  OBVIOUS
<1> QED  BY <1>2, <1>3

(* cancel_policy and expire_policy.                                        *)
LEMMA CloseCounters ==
    ASSUME BookTypeOK, CountersMatchPolicies, NEW id \in DOMAIN policies,
           NEW status \in PolicyStatuses \ OpenStatuses, Close(id, status)
    PROVE  CountersMatchPolicies'
<1>1. policies' = [policies EXCEPT ![id].status = status]
  BY DEF Close
<1>2. PICK p \in Policy : /\ p.farmer = policies[id].farmer
                         /\ p.status \notin OpenStatuses
                         /\ policies' = [policies EXCEPT ![id] = p]
  BY <1>1, ClosedPolicy
<1>3. \/ /\ policies[id].status = "Active"
         /\ decrement_active(policies[id].farmer)
         /\ UNCHANGED <<farmerPendingCount, pendingCounted>>
      \/ /\ policies[id].status = "Pending"
         /\ release_pending_slot(id, policies[id].farmer)
         /\ UNCHANGED farmerActiveCount
  BY DEF Close
<1> QED  BY <1>2, <1>3, LeaveActiveCounters, LeavePendingCounters

(* mark_as_claimed.                                                        *)
LEMMA ClaimCounters ==
    ASSUME BookTypeOK, CountersMatchPolicies, NEW caller, NEW id \in DOMAIN policies,
           mark_as_claimed(caller, id)
    PROVE  CountersMatchPolicies'
<1>1. /\ policies' = [policies EXCEPT ![id].status = "Claimed"]
      /\ policies[id].status = "Active"
      /\ decrement_active(policies[id].farmer)
      /\ UNCHANGED <<farmerPendingCount, pendingCounted>>
  BY DEF mark_as_claimed, is_policy_active
<1>2. PICK p \in Policy : /\ p.farmer = policies[id].farmer
                         /\ p.status \notin OpenStatuses
                         /\ policies' = [policies EXCEPT ![id] = p]
  BY <1>1, ClosedPolicy DEF PolicyStatuses, OpenStatuses
<1> QED  BY <1>1, <1>2, LeaveActiveCounters

(* Steps that leave the book alone.                                        *)
LEMMA SameBookCounters ==
    ASSUME CountersMatchPolicies, UNCHANGED bookVars
    PROVE  CountersMatchPolicies'
BY DEF CountersMatchPolicies, PoliciesOf, bookVars

(* Every step of the book keeps the counters exact.                        *)
LEMMA BookNextCounters ==
    ASSUME PmAssumption, PmTypeOK, CountersMatchPolicies, [BookNext]_bookSpecVars
    PROVE  CountersMatchPolicies'
<1>1. CASE UNCHANGED pmVars
  BY <1>1, SameBookCounters DEF pmVars
<1>2. CASE PmStep
  <2>1. PICK caller \in Accounts :
            \/ \E r \in SaleRequests : create_policy(caller, r)
            \/ \E id \in DOMAIN policies :
                  \/ \E d \in Distributors : activate_policy(caller, id, d)
                  \/ mark_as_claimed(caller, id) /\ UNCHANGED farmerClaimTimes
                  \/ cancel_policy(caller, id)
                  \/ expire_policy(id)
            \/ UNCHANGED bookVars
    BY <1>2 DEF PmStep, set_policy_nft, pm_grant_role, pm_revoke_role
  <2>2. BookTypeOK
    BY DEF PmTypeOK
  <2>3. ASSUME NEW id \in DOMAIN policies, cancel_policy(caller, id) \/ expire_policy(id)
        PROVE  CountersMatchPolicies'
    BY <2>2, <2>3, CloseCounters
       DEF cancel_policy, expire_policy, PolicyStatuses, OpenStatuses
  <2> QED  BY <2>1, <2>2, <2>3, CreateCounters, ActivateCounters, ClaimCounters, SameBookCounters
<1> QED  BY <1>1, <1>2 DEF BookNext, bookSpecVars

(* The constructor counts nothing.                                         *)
LEMMA InitialCounters ==
    ASSUME PmInit
    PROVE  CountersMatchPolicies
<1>1. DOMAIN policies = {}
  BY DEF PmInit
<1>2. \A f, s : PoliciesOf(f, s) = {}
  BY <1>1 DEF PoliciesOf
<1> QED  BY <1>1, <1>2, FS_EmptySet DEF PmInit, CountersMatchPolicies

(* The counters create_policy and activate_policy gate on are exact after  *)
(* every sequence of operations, for every set of farmers and every cap:   *)
(* the PendingCounted marker holds exactly for the PENDING policies, and   *)
(* each transition moves its policy between the counts once.               *)
THEOREM CountersCorrect == BookSpec => []CountersMatchPolicies
<1>1. BookInit => CountersMatchPolicies
  BY InitialCounters DEF BookInit
<1>2. PmTypeOK /\ CountersMatchPolicies /\ [BookNext]_bookSpecVars => CountersMatchPolicies'
  BY PmAssumption, BookNextCounters
<1>3. BookSpec => []PmTypeOK
  BY BookTypeCorrect
<1> QED  BY <1>1, <1>2, <1>3, PTL DEF BookSpec
=============================================================================
