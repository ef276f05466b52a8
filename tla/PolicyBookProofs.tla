-------------------------- MODULE PolicyBookProofs --------------------------
(***************************************************************************)
(* More theorems about PolicyManager: the farmer's index and the org's     *)
(* outstanding exposure are exact, and the manager implements the abstract *)
(* PolicyLifecycle.  Then about the manager and the certificate contracts  *)
(* together: the manager's calls keep the certificates well formed and     *)
(* soulbound, cover in force is certified, and, when the certificate       *)
(* contract is never replaced, the certificates mirror the book.           *)
(***************************************************************************)
EXTENDS PolicyManagerProofs

-----------------------------------------------------------------------------
(* What a step does to the book: a sale, an activation, a closing, or      *)
(* nothing.                                                                *)

Sold(id) ==
    LET p == policies'[id] IN
    /\ id = policyCounter + 1
    /\ policyCounter' = id
    /\ DOMAIN policies' = DOMAIN policies \cup {id}
    /\ \A i \in DOMAIN policies : policies'[i] = policies[i]
    /\ p \in Policy
    /\ p.status = "Pending" /\ p.start_date = now /\ p.end_date > now
    /\ p.sum_insured >= MIN_SUM_INSURED
    /\ farmerPolicies' = [farmerPolicies EXCEPT ![p.farmer] = Append(@, id)]
    /\ orgOutstanding' = [orgOutstanding EXCEPT ![p.org] = @ + p.sum_insured]

Started(id) ==
    /\ id \in DOMAIN policies
    /\ policies[id].status = "Pending"
    /\ now <= policies[id].end_date
    /\ policies' = [policies EXCEPT ![id] = Activated(policies[id])]
    /\ UNCHANGED <<policyCounter, farmerPolicies, orgOutstanding>>

Closed(id, status) ==
    /\ id \in DOMAIN policies
    /\ policies[id].status \in OpenStatuses
    /\ \/ status = "Claimed" /\ policies[id].status = "Active" /\ now <= policies[id].end_date
       \/ status = "Expired" /\ now > policies[id].end_date
       \/ status = "Cancelled"
    /\ policies' = [policies EXCEPT ![id] = [policies[id] EXCEPT !.status = status]]
    /\ release_org_exposure(policies[id].org, policies[id].sum_insured)
    /\ UNCHANGED <<policyCounter, farmerPolicies>>

(* Only an oracle marks a policy as claimed; in this module the callers    *)
(* are accounts.                                                           *)
AccountOracle == \E caller \in Accounts : has_role(pmRoles, "Oracle", caller)

BookStep ==
    \E id : \/ Sold(id)
            \/ Started(id)
            \/ \E status : Closed(id, status) /\ (status = "Claimed" => AccountOracle)

(* The same whoever claims, and the steps that leave the book alone.       *)
BookChange ==
    \/ UNCHANGED bookVars
    \/ \E id : Sold(id) \/ Started(id) \/ \E status : Closed(id, status)

(* create_policy sells cover that ends after the sale.                     *)
LEMMA CreateSells ==
    ASSUME PmAssumption, PmTypeOK, PmTypeOK', NEW caller, NEW r \in SaleRequests,
           create_policy(caller, r)
    PROVE  Sold(policyCounter + 1)
<1> DEFINE id == policyCounter + 1
           new == [farmer |-> r.farmer, org |-> r.org, lat_e6 |-> r.lat_e6,
                   lon_e6 |-> r.lon_e6, sum_insured |-> r.sum_insured,
                   start_date |-> now, end_date |-> now + r.duration_days * SECONDS_PER_DAY,
                   coverage_type |-> r.coverage_type, status |-> "Pending",
                   created_at |-> now]
<1>1. /\ r \in SaleRequest /\ now \in Nat /\ policyCounter \in Nat
      /\ DOMAIN policies = 1 .. policyCounter
  BY DEF PmAssumption, PmTypeOK, BookTypeOK
<1>2. /\ policies' = Put(policies, id, new)
      /\ policyCounter' = id
      /\ farmerPolicies' = [farmerPolicies EXCEPT ![r.farmer] = Append(@, id)]
      /\ orgOutstanding' = [orgOutstanding EXCEPT ![r.org] = @ + r.sum_insured]
  BY DEF create_policy, IndexPolicy
<1>3. r.duration_days * SECONDS_PER_DAY > 0
  <2>1. r.duration_days \in Nat \ {0} /\ SECONDS_PER_DAY \in Nat \ {0}
    BY <1>1 DEF create_policy, Sellable, SaleRequest, PmAssumption
  <2>2. \A m, n \in Nat \ {0} : m * n > 0
    OBVIOUS
  <2> QED  BY <2>1, <2>2
<1>4. /\ new.farmer = r.farmer /\ new.org = r.org /\ new.sum_insured = r.sum_insured
      /\ new.status = "Pending" /\ new.start_date = now
      /\ new.end_date = now + r.duration_days * SECONDS_PER_DAY
  OBVIOUS
<1> HIDE DEF new
<1>5. /\ DOMAIN policies' = DOMAIN policies \cup {id}
      /\ policies'[id] = new
      /\ \A i \in DOMAIN policies : policies'[i] = policies[i]
  BY <1>1, <1>2 DEF Put
<1>6. new \in Policy
  BY <1>5 DEF PmTypeOK, BookTypeOK
<1>7. new.end_date > now
  <2>1. PICK len : len = r.duration_days * SECONDS_PER_DAY
    OBVIOUS
  <2>2. new.end_date = now + len /\ new.end_date \in Nat
    BY <1>4, <1>6, <2>1 DEF Policy
  <2>3. len \in Nat
    <3>1. r.duration_days \in Nat /\ SECONDS_PER_DAY \in Nat
      BY <1>1 DEF SaleRequest, PmAssumption
    <3> QED  BY <2>1, <3>1, ProductNat
  <2> QED  BY <1>1, <1>3, <2>1, <2>2, <2>3
<1>8. new.sum_insured >= MIN_SUM_INSURED
  BY <1>4 DEF create_policy, Sellable
<1> HIDE DEF id
<1> QED  BY <1>2, <1>4, <1>5, <1>6, <1>7, <1>8 DEF Sold, id

(* Every step of the book is one of the three, or leaves the book alone.   *)
LEMMA BookStepKinds ==
    ASSUME PmAssumption, PmTypeOK, [BookNext]_bookSpecVars
    PROVE  \/ now' = now /\ BookStep
           \/ now' \in {now, now + 1} /\ UNCHANGED bookVars
<1>1. CASE UNCHANGED <<now, pmVars>>
  BY <1>1 DEF pmVars
<1>2. CASE Tick /\ UNCHANGED pmVars
  BY <1>2 DEF Tick, pmVars
<1>3. CASE PmStep /\ UNCHANGED now
  <2>1. PICK caller \in Accounts :
            \/ \E r \in SaleRequests : create_policy(caller, r)
            \/ \E id \in DOMAIN policies :
                  \/ \E d \in Distributors : activate_policy(caller, id, d)
                  \/ mark_as_claimed(caller, id) /\ UNCHANGED farmerClaimTimes
                  \/ cancel_policy(caller, id)
                  \/ expire_policy(id)
            \/ UNCHANGED bookVars
    BY <1>3 DEF PmStep, set_policy_nft, pm_grant_role, pm_revoke_role
  <2>2. PmTypeOK'
    BY BookNextType
  <2>3. ASSUME NEW r \in SaleRequests, create_policy(caller, r)
        PROVE  BookStep
    BY <2>2, <2>3, CreateSells DEF BookStep
  <2>4. ASSUME NEW id \in DOMAIN policies, NEW d, activate_policy(caller, id, d)
        PROVE  BookStep
    BY <2>4 DEF activate_policy, Started, BookStep
  <2>5. ASSUME NEW id \in DOMAIN policies, mark_as_claimed(caller, id)
        PROVE  BookStep
    <3>1. Closed(id, "Claimed") /\ AccountOracle
      BY <2>5 DEF mark_as_claimed, is_policy_active, Closed, OpenStatuses, AccountOracle
    <3> QED  BY <3>1 DEF BookStep
  <2>6. ASSUME NEW id \in DOMAIN policies, cancel_policy(caller, id)
        PROVE  BookStep
    <3>1. Closed(id, "Cancelled")
      BY <2>6 DEF cancel_policy, Close, Closed, OpenStatuses
    <3>2. "Cancelled" # "Claimed"
      OBVIOUS
    <3> QED  BY <3>1, <3>2 DEF BookStep
  <2>7. ASSUME NEW id \in DOMAIN policies, expire_policy(id)
        PROVE  BookStep
    <3>1. Closed(id, "Expired")
      BY <2>7 DEF expire_policy, Close, Closed, OpenStatuses
    <3>2. "Expired" # "Claimed"
      OBVIOUS
    <3> QED  BY <3>1, <3>2 DEF BookStep
  <2> QED  BY <1>3, <2>1, <2>3, <2>4, <2>5, <2>6, <2>7
<1> QED  BY <1>1, <1>2, <1>3 DEF BookNext, bookSpecVars

(* So every step of the manager is a change of its book.                   *)
LEMMA BookChanges ==
    ASSUME PmAssumption, PmTypeOK, [BookNext]_bookSpecVars
    PROVE  BookChange
BY BookStepKinds DEF BookStep, BookChange

-----------------------------------------------------------------------------
(* The farmer's index.                                                     *)

IsFarmers(f) == {id \in DOMAIN policies : policies[id].farmer = f}

InOrder(ids) == \A i, j \in DOMAIN ids : i < j => ids[i] < ids[j]

(* The id of a sale is larger than every id listed before it.              *)
LEMMA AppendInOrder ==
    ASSUME NEW n \in Nat, NEW ids \in Seq(1 .. n), InOrder(ids)
    PROVE  InOrder(Append(ids, n + 1))
<1> DEFINE longer == Append(ids, n + 1)
<1>1. ids \in Seq(Nat) /\ n + 1 \in Nat
  <2>1. 1 .. n \subseteq Nat
    OBVIOUS
  <2> QED  BY <2>1, SeqMonotonic
<1>2. /\ Len(ids) \in Nat
      /\ DOMAIN ids = 1 .. Len(ids) /\ DOMAIN longer = 1 .. Len(ids) + 1
      /\ \A i \in 1 .. Len(ids) : longer[i] = ids[i]
      /\ longer[Len(ids) + 1] = n + 1
  BY <1>1, LenProperties, AppendProperties
<1>3. \A i \in 1 .. Len(ids) : ids[i] \in 1 .. n
  BY ElementOfSeq
<1> HIDE DEF longer
<1>4. ASSUME NEW i \in DOMAIN longer, NEW j \in DOMAIN longer, i < j
      PROVE  longer[i] < longer[j]
  <2>1. i \in 1 .. Len(ids)
    BY <1>2, <1>4
  <2>2. CASE j = Len(ids) + 1
    BY <1>2, <1>3, <2>1, <2>2
  <2>3. CASE j \in 1 .. Len(ids)
    BY <1>2, <1>4, <2>1, <2>3 DEF InOrder
  <2> QED  BY <1>2, <2>2, <2>3
<1>5. InOrder(longer)
  BY <1>4 DEF InOrder
<1> QED  BY <1>5 DEF longer

(* A sale enters the index of its farmer.                                  *)
LEMMA SoldIndex ==
    ASSUME PmTypeOK, FarmerIndexExact, NEW id, Sold(id)
    PROVE  FarmerIndexExact'
<1>1. /\ policyCounter \in Nat /\ DOMAIN policies = 1 .. policyCounter
      /\ farmerPolicies \in [Farmers -> Seq(1 .. policyCounter)]
      /\ \A f \in Farmers : Elements(farmerPolicies[f]) = IsFarmers(f)
      /\ \A f \in Farmers : InOrder(farmerPolicies[f])
  BY DEF PmTypeOK, BookTypeOK, FarmerIndexExact, IsFarmers, InOrder
<1>2. PICK buyer \in Farmers : buyer = policies'[id].farmer
  BY DEF Sold, Policy
<1>3. /\ farmerPolicies' = [farmerPolicies EXCEPT ![buyer] = Append(@, id)]
      /\ id = policyCounter + 1
      /\ DOMAIN policies' = DOMAIN policies \cup {id}
      /\ \A i \in DOMAIN policies : policies'[i] = policies[i]
  BY <1>2 DEF Sold
<1>4. \A f \in Farmers : IsFarmers(f)' = IF f = buyer THEN IsFarmers(f) \cup {id}
                                          ELSE IsFarmers(f)
  BY <1>1, <1>2, <1>3 DEF IsFarmers
<1>5. ASSUME NEW f \in Farmers
      PROVE  Elements(farmerPolicies'[f]) = IsFarmers(f)' /\ InOrder(farmerPolicies'[f])
  <2>1. CASE f = buyer
    <3>1. farmerPolicies'[f] = Append(farmerPolicies[f], id)
      BY <1>1, <1>3, <2>1
    <3>2. farmerPolicies[f] \in Seq(1 .. policyCounter)
      BY <1>1
    <3>3. farmerPolicies[f] \in Seq(Nat) /\ id \in Nat
      <4>1. 1 .. policyCounter \subseteq Nat
        OBVIOUS
      <4> QED  BY <1>1, <1>3, <3>2, <4>1, SeqMonotonic
    <3>4. Elements(Append(farmerPolicies[f], id)) = Elements(farmerPolicies[f]) \cup {id}
      BY <3>3, AppendElements
    <3>5. InOrder(Append(farmerPolicies[f], id))
      BY <1>1, <1>3, <3>2, AppendInOrder
    <3> QED  BY <1>1, <1>4, <2>1, <3>1, <3>4, <3>5
  <2>2. CASE f # buyer
    <3>1. farmerPolicies'[f] = farmerPolicies[f]
      BY <1>1, <1>3, <2>2
    <3> QED  BY <1>1, <1>4, <2>2, <3>1
  <2> QED  BY <2>1, <2>2
<1> QED  BY <1>5 DEF FarmerIndexExact, IsFarmers, InOrder

(* What a later step rewrites of a policy is neither its farmer nor its    *)
(* org nor its sum.                                                        *)
SameParties ==
    /\ DOMAIN policies' = DOMAIN policies
    /\ \A i \in DOMAIN policies : /\ policies'[i].farmer = policies[i].farmer
                                  /\ policies'[i].org = policies[i].org
                                  /\ policies'[i].sum_insured = policies[i].sum_insured

(* An activation or a closing rewrites the status and the window.          *)
LEMMA LaterSteps ==
    ASSUME PmTypeOK, NEW id, NEW status, Started(id) \/ Closed(id, status)
    PROVE  /\ SameParties
           /\ id \in DOMAIN policies
           /\ \A i \in DOMAIN policies : i # id => policies'[i] = policies[i]
           /\ Started(id) => policies'[id].status = "Active"
           /\ Closed(id, status) => policies'[id].status = status
<1>1. id \in DOMAIN policies /\ policies[id] \in Policy
  BY DEF Started, Closed, PmTypeOK, BookTypeOK
<1>2. PICK p : /\ policies' = [policies EXCEPT ![id] = p]
               /\ p = Activated(policies[id]) \/ p = [policies[id] EXCEPT !.status = status]
  BY DEF Started, Closed
<1>3. /\ p.farmer = policies[id].farmer /\ p.org = policies[id].org
      /\ p.sum_insured = policies[id].sum_insured
  BY <1>1, <1>2 DEF Activated, Policy
<1>4. /\ DOMAIN policies' = DOMAIN policies /\ policies'[id] = p
      /\ \A i \in DOMAIN policies : i # id => policies'[i] = policies[i]
  BY <1>1, <1>2
<1>5. Started(id) => p.status = "Active"
  BY <1>1, <1>4 DEF Started, Activated, Policy
<1>6. Closed(id, status) => p.status = status
  BY <1>1, <1>4 DEF Closed, Policy
<1> QED  BY <1>1, <1>3, <1>4, <1>5, <1>6 DEF SameParties

(* Neither touches the index.                                              *)
LEMMA SameIndex ==
    ASSUME FarmerIndexExact, UNCHANGED farmerPolicies,
           SameParties \/ UNCHANGED policies
    PROVE  FarmerIndexExact'
<1>1. \A f \in Farmers : IsFarmers(f)' = IsFarmers(f)
  BY DEF SameParties, IsFarmers
<1> QED  BY <1>1 DEF FarmerIndexExact, IsFarmers

(* No change of the book takes the index apart.                            *)
LEMMA IndexStep ==
    ASSUME PmTypeOK, FarmerIndexExact, BookChange
    PROVE  FarmerIndexExact'
<1>1. ASSUME NEW id, Sold(id)
      PROVE  FarmerIndexExact'
  BY <1>1, SoldIndex
<1>2. ASSUME NEW id, NEW status, Started(id) \/ Closed(id, status)
      PROVE  FarmerIndexExact'
  <2>1. SameParties /\ UNCHANGED farmerPolicies
    BY <1>2, LaterSteps DEF Started, Closed
  <2> QED  BY <2>1, SameIndex
<1>3. ASSUME UNCHANGED bookVars
      PROVE  FarmerIndexExact'
  BY <1>3, SameIndex DEF bookVars
<1> QED  BY <1>1, <1>2, <1>3 DEF BookChange

(* A book without policies has nothing to index.                           *)
LEMMA IndexInitial ==
    ASSUME PmInit
    PROVE  FarmerIndexExact
<1> SUFFICES ASSUME NEW f \in Farmers
             PROVE  Elements(farmerPolicies[f]) = IsFarmers(f) /\ InOrder(farmerPolicies[f])
  BY DEF FarmerIndexExact, IsFarmers, InOrder
<1> QED  BY DEF PmInit, Elements, IsFarmers, InOrder

(* get_farmer_policies pages through exactly the farmer's policies, in the *)
(* order of their sale, whatever the farmers, orgs and requests are.       *)
THEOREM FarmerIndexCorrect == BookSpec => []FarmerIndexExact
<1>1. BookInit => FarmerIndexExact
  BY IndexInitial DEF BookInit
<1>2. PmTypeOK /\ FarmerIndexExact /\ [BookNext]_bookSpecVars => FarmerIndexExact'
  BY PmAssumption, BookChanges, IndexStep
<1> QED  BY <1>1, <1>2, BookTypeCorrect, PTL DEF BookSpec

-----------------------------------------------------------------------------
(* The org's exposure.  An org's units are finitely many, or their number  *)
(* would mean nothing: this is the strengthening induction needs.          *)

PolicyUnits(id, sum) == {id} \X (1 .. sum)

UnitsFinite == \A o \in Orgs : IsFiniteSet(OpenUnits(o))

ExposureInv == ExposureMatchesOpenPolicies /\ UnitsFinite

(* A policy contributes as many units as it insures.                       *)
LEMMA PolicyUnitsCount ==
    ASSUME NEW id, NEW sum \in Nat
    PROVE  IsFiniteSet(PolicyUnits(id, sum)) /\ Cardinality(PolicyUnits(id, sum)) = sum
<1>1. IsFiniteSet({id}) /\ Cardinality({id}) = 1
  BY FS_Singleton
<1>2. IsFiniteSet(1 .. sum) /\ Cardinality(1 .. sum) = sum
  BY FS_Interval
<1>3. /\ IsFiniteSet({id} \X (1 .. sum))
      /\ Cardinality({id} \X (1 .. sum)) = Cardinality({id}) * Cardinality(1 .. sum)
  BY <1>1, <1>2, FS_Product
<1> QED  BY <1>1, <1>2, <1>3 DEF PolicyUnits

(* The units of an org, one by one.                                        *)
LEMMA UnitsMember ==
    ASSUME NEW o, NEW u
    PROVE  u \in OpenUnits(o) <=>
               \E i \in DOMAIN policies :
                   /\ policies[i].status \in OpenStatuses
                   /\ policies[i].org = o
                   /\ u \in PolicyUnits(i, policies[i].sum_insured)
BY DEF OpenUnits, OpenPolicies, PolicyUnits

(* Units of different policies are different.                              *)
LEMMA UnitsApart ==
    ASSUME NEW i, NEW j, NEW m, NEW n, i # j
    PROVE  PolicyUnits(i, m) \cap PolicyUnits(j, n) = {}
BY DEF PolicyUnits

(* What joins an org's units adds its number.                              *)
LEMMA UnitsGain ==
    ASSUME NEW S, NEW id, NEW sum \in Nat, IsFiniteSet(S),
           S \cap PolicyUnits(id, sum) = {}
    PROVE  /\ IsFiniteSet(S \cup PolicyUnits(id, sum))
           /\ Cardinality(S \cup PolicyUnits(id, sum)) = Cardinality(S) + sum
<1>1. IsFiniteSet(PolicyUnits(id, sum)) /\ Cardinality(PolicyUnits(id, sum)) = sum
  BY PolicyUnitsCount
<1>2. Cardinality(S \cap PolicyUnits(id, sum)) = 0
  BY FS_EmptySet
<1>3. Cardinality(S) \in Nat
  BY FS_CardinalityType
<1> QED  BY <1>1, <1>2, <1>3, FS_Union

(* What leaves them takes its number away, and there was as much.          *)
LEMMA UnitsLoss ==
    ASSUME NEW S, NEW id, NEW sum \in Nat, IsFiniteSet(S),
           PolicyUnits(id, sum) \subseteq S
    PROVE  /\ IsFiniteSet(S \ PolicyUnits(id, sum))
           /\ Cardinality(S) >= sum
           /\ Cardinality(S \ PolicyUnits(id, sum)) = Cardinality(S) - sum
<1>1. IsFiniteSet(PolicyUnits(id, sum)) /\ Cardinality(PolicyUnits(id, sum)) = sum
  BY PolicyUnitsCount
<1>2. S \cap PolicyUnits(id, sum) = PolicyUnits(id, sum)
  OBVIOUS
<1>3. /\ IsFiniteSet(S \ PolicyUnits(id, sum))
      /\ Cardinality(S \ PolicyUnits(id, sum)) = Cardinality(S) - sum
  BY <1>1, <1>2, FS_Difference
<1>4. Cardinality(S) \in Nat /\ sum <= Cardinality(S)
  BY <1>1, FS_CardinalityType, FS_Subset
<1> QED  BY <1>3, <1>4

(* create_policy counts the policy it sells.                               *)
LEMMA SoldExposure ==
    ASSUME PmTypeOK, ExposureInv, NEW id, Sold(id)
    PROVE  ExposureInv'
<1>1. PICK org \in Orgs, sum \in Nat : org = policies'[id].org /\ sum = policies'[id].sum_insured
  BY DEF Sold, Policy
<1>2. /\ orgOutstanding \in [Orgs -> Nat]
      /\ DOMAIN policies = 1 .. policyCounter /\ policyCounter \in Nat
      /\ \A o \in Orgs : IsFiniteSet(OpenUnits(o)) /\ orgOutstanding[o] = Cardinality(OpenUnits(o))
  BY DEF PmTypeOK, BookTypeOK, ExposureInv, ExposureMatchesOpenPolicies, UnitsFinite
<1>3. /\ id = policyCounter + 1
      /\ id \notin DOMAIN policies
      /\ DOMAIN policies' = DOMAIN policies \cup {id}
      /\ \A i \in DOMAIN policies : policies'[i] = policies[i]
      /\ policies'[id].status \in OpenStatuses
      /\ orgOutstanding' = [orgOutstanding EXCEPT ![org] = @ + sum]
  BY <1>1, <1>2 DEF Sold, OpenStatuses
<1>4. ASSUME NEW o \in Orgs
      PROVE  OpenUnits(o)' = IF o = org THEN OpenUnits(o) \cup PolicyUnits(id, sum)
                             ELSE OpenUnits(o)
  <2>1. ASSUME NEW u
        PROVE  u \in OpenUnits(o)' <=>
                   u \in OpenUnits(o) \/ (o = org /\ u \in PolicyUnits(id, sum))
    <3>1. u \in OpenUnits(o)' <=>
               \E i \in DOMAIN policies' :
                   /\ policies'[i].status \in OpenStatuses
                   /\ policies'[i].org = o
                   /\ u \in PolicyUnits(i, policies'[i].sum_insured)
      BY DEF OpenUnits, OpenPolicies, PolicyUnits
    <3>2. u \in OpenUnits(o) <=>
               \E i \in DOMAIN policies :
                   /\ policies[i].status \in OpenStatuses
                   /\ policies[i].org = o
                   /\ u \in PolicyUnits(i, policies[i].sum_insured)
      BY UnitsMember
    <3>3. ASSUME NEW i \in DOMAIN policies
          PROVE  policies'[i] = policies[i] /\ i # id /\ i \in DOMAIN policies'
      BY <1>3
    <3>4. ASSUME u \in OpenUnits(o)'
          PROVE  u \in OpenUnits(o) \/ (o = org /\ u \in PolicyUnits(id, sum))
      <4>1. PICK i \in DOMAIN policies' :
                   /\ policies'[i].status \in OpenStatuses
                   /\ policies'[i].org = o
                   /\ u \in PolicyUnits(i, policies'[i].sum_insured)
        BY <3>1, <3>4
      <4>2. CASE i = id
        BY <1>1, <4>1, <4>2
      <4>3. CASE i \in DOMAIN policies
        BY <3>2, <3>3, <4>1, <4>3
      <4> QED  BY <1>3, <4>2, <4>3
    <3>5. u \in OpenUnits(o) => u \in OpenUnits(o)'
      BY <3>1, <3>2, <3>3
    <3>6. o = org /\ u \in PolicyUnits(id, sum) => u \in OpenUnits(o)'
      BY <1>1, <1>3, <3>1
    <3> QED  BY <3>4, <3>5, <3>6
  <2> QED  BY <2>1
<1>5. ASSUME NEW o \in Orgs
      PROVE  OpenUnits(o) \cap PolicyUnits(id, sum) = {}
  <2> SUFFICES ASSUME NEW u \in OpenUnits(o), u \in PolicyUnits(id, sum)
               PROVE  FALSE
    OBVIOUS
  <2>1. PICK i \in DOMAIN policies : u \in PolicyUnits(i, policies[i].sum_insured)
    BY UnitsMember
  <2>2. i # id
    BY <1>3
  <2> QED  BY <2>1, <2>2, UnitsApart
<1>6. ASSUME NEW o \in Orgs
      PROVE  IsFiniteSet(OpenUnits(o)') /\ orgOutstanding'[o] = Cardinality(OpenUnits(o)')
  <2>1. CASE o = org
    <3>1. OpenUnits(o)' = OpenUnits(o) \cup PolicyUnits(id, sum)
      BY <1>4, <2>1
    <3>2. orgOutstanding'[o] = orgOutstanding[o] + sum
      BY <1>2, <1>3, <2>1
    <3>3. IsFiniteSet(OpenUnits(o)) /\ OpenUnits(o) \cap PolicyUnits(id, sum) = {}
      BY <1>2, <1>5
    <3>4. /\ IsFiniteSet(OpenUnits(o) \cup PolicyUnits(id, sum))
          /\ Cardinality(OpenUnits(o) \cup PolicyUnits(id, sum)) = Cardinality(OpenUnits(o)) + sum
      BY <3>3, UnitsGain
    <3> QED  BY <1>2, <3>1, <3>2, <3>4
  <2>2. CASE o # org
    <3>1. OpenUnits(o)' = OpenUnits(o) /\ orgOutstanding'[o] = orgOutstanding[o]
      BY <1>2, <1>3, <1>4, <2>2
    <3> QED  BY <1>2, <3>1
  <2> QED  BY <2>1, <2>2
<1> QED  BY <1>6 DEF ExposureInv, ExposureMatchesOpenPolicies, UnitsFinite

(* An activation leaves the policy open, for the same sum.                 *)
LEMMA StartedExposure ==
    ASSUME PmTypeOK, ExposureInv, NEW id, Started(id)
    PROVE  ExposureInv'
<1>1. /\ SameParties
      /\ \A i \in DOMAIN policies :
            policies'[i].status \in OpenStatuses <=> policies[i].status \in OpenStatuses
      /\ UNCHANGED orgOutstanding
  BY LaterSteps DEF Started, OpenStatuses
<1>2. \A o \in Orgs : OpenUnits(o)' = OpenUnits(o)
  BY <1>1 DEF OpenUnits, OpenPolicies, SameParties
<1> QED  BY <1>1, <1>2 DEF ExposureInv, ExposureMatchesOpenPolicies, UnitsFinite

(* A closing takes the policy's units away, once, and releases as many.    *)
LEMMA ClosedExposure ==
    ASSUME PmTypeOK, ExposureInv, NEW id, NEW status, Closed(id, status)
    PROVE  ExposureInv'
<1>1. id \in DOMAIN policies /\ policies[id].status \in OpenStatuses
  BY DEF Closed
<1>2. PICK org \in Orgs, sum \in Nat : org = policies[id].org /\ sum = policies[id].sum_insured
  BY <1>1 DEF PmTypeOK, BookTypeOK, Policy
<1>3. /\ orgOutstanding \in [Orgs -> Nat]
      /\ \A o \in Orgs : IsFiniteSet(OpenUnits(o)) /\ orgOutstanding[o] = Cardinality(OpenUnits(o))
  BY DEF PmTypeOK, BookTypeOK, ExposureInv, ExposureMatchesOpenPolicies, UnitsFinite
<1>4. /\ SameParties
      /\ policies'[id].status \notin OpenStatuses
      /\ \A i \in DOMAIN policies : i # id => policies'[i] = policies[i]
  BY LaterSteps DEF Closed, OpenStatuses
<1>5. orgOutstanding' =
          [orgOutstanding EXCEPT ![org] = IF @ > sum THEN @ - sum ELSE 0]
  BY <1>2 DEF Closed, release_org_exposure
<1>6. ASSUME NEW o \in Orgs
      PROVE  /\ OpenUnits(o)' = IF o = org THEN OpenUnits(o) \ PolicyUnits(id, sum)
                                ELSE OpenUnits(o)
             /\ o = org => PolicyUnits(id, sum) \subseteq OpenUnits(o)
  <2>1. ASSUME NEW u
        PROVE  u \in OpenUnits(o)' <=>
                   u \in OpenUnits(o) /\ ~(o = org /\ u \in PolicyUnits(id, sum))
    <3>1. u \in OpenUnits(o)' <=>
               \E i \in DOMAIN policies \ {id} :
                   /\ policies[i].status \in OpenStatuses
                   /\ policies[i].org = o
                   /\ u \in PolicyUnits(i, policies[i].sum_insured)
      BY <1>1, <1>4 DEF OpenUnits, OpenPolicies, PolicyUnits, SameParties
    <3>2. \A i \in DOMAIN policies \ {id} :
              u \in PolicyUnits(i, policies[i].sum_insured) => u \notin PolicyUnits(id, sum)
      BY UnitsApart
    <3> QED  BY <1>1, <1>2, <3>1, <3>2, UnitsMember
  <2>2. o = org => PolicyUnits(id, sum) \subseteq OpenUnits(o)
    BY <1>1, <1>2, UnitsMember
  <2> QED  BY <2>1, <2>2
<1>7. ASSUME NEW o \in Orgs
      PROVE  IsFiniteSet(OpenUnits(o)') /\ orgOutstanding'[o] = Cardinality(OpenUnits(o)')
  <2>1. CASE o = org
    <3>1. /\ OpenUnits(o)' = OpenUnits(o) \ PolicyUnits(id, sum)
          /\ PolicyUnits(id, sum) \subseteq OpenUnits(o)
      BY <1>6, <2>1
    <3>2. orgOutstanding'[o] = IF orgOutstanding[o] > sum THEN orgOutstanding[o] - sum ELSE 0
      BY <1>3, <1>5, <2>1
    <3>3. /\ IsFiniteSet(OpenUnits(o)')
          /\ Cardinality(OpenUnits(o)) >= sum
          /\ Cardinality(OpenUnits(o)') = Cardinality(OpenUnits(o)) - sum
      <4>1. IsFiniteSet(OpenUnits(o))
        BY <1>3
      <4>2. /\ IsFiniteSet(OpenUnits(o) \ PolicyUnits(id, sum))
            /\ Cardinality(OpenUnits(o)) >= sum
            /\ Cardinality(OpenUnits(o) \ PolicyUnits(id, sum)) = Cardinality(OpenUnits(o)) - sum
        BY <3>1, <4>1, UnitsLoss
      <4> QED  BY <3>1, <4>2
    <3>4. orgOutstanding[o] = Cardinality(OpenUnits(o)) /\ orgOutstanding[o] \in Nat
      BY <1>3
    <3> QED  BY <3>2, <3>3, <3>4
  <2>2. CASE o # org
    <3>1. OpenUnits(o)' = OpenUnits(o) /\ orgOutstanding'[o] = orgOutstanding[o]
      BY <1>3, <1>5, <1>6, <2>2
    <3> QED  BY <1>3, <3>1
  <2> QED  BY <2>1, <2>2
<1> QED  BY <1>7 DEF ExposureInv, ExposureMatchesOpenPolicies, UnitsFinite

(* No change of the book loses count.                                      *)
LEMMA ExposureStep ==
    ASSUME PmTypeOK, ExposureInv, BookChange
    PROVE  ExposureInv'
<1>1. ASSUME UNCHANGED bookVars
      PROVE  ExposureInv'
  BY <1>1 DEF bookVars, ExposureInv, ExposureMatchesOpenPolicies, UnitsFinite,
              OpenUnits, OpenPolicies
<1> QED  BY <1>1, SoldExposure, StartedExposure, ClosedExposure DEF BookChange

(* A book without policies exposes no org.                                 *)
LEMMA ExposureInitial ==
    ASSUME PmInit
    PROVE  ExposureInv
<1>1. \A o \in Orgs : OpenUnits(o) = {} /\ orgOutstanding[o] = 0
  BY DEF PmInit, OpenUnits, OpenPolicies
<1> QED  BY <1>1, FS_EmptySet DEF ExposureInv, ExposureMatchesOpenPolicies, UnitsFinite

(* org_outstanding_sum_insured is the sum over the org's PENDING and       *)
(* ACTIVE policies, for every book: what create_policy counts is released  *)
(* exactly once, and the saturation at zero never absorbs a difference.    *)
THEOREM ExposureCorrect == BookSpec => []ExposureMatchesOpenPolicies
<1>1. BookInit => ExposureInv
  BY ExposureInitial DEF BookInit
<1>2. PmTypeOK /\ ExposureInv /\ [BookNext]_bookSpecVars => ExposureInv'
  BY PmAssumption, BookChanges, ExposureStep
<1>3. ExposureInv => ExposureMatchesOpenPolicies
  BY DEF ExposureInv
<1> QED  BY <1>1, <1>2, <1>3, BookTypeCorrect, PTL DEF BookSpec

-----------------------------------------------------------------------------
(* The manager implements the abstract lifecycle.  A payment is made       *)
(* inside the window only because no policy starts in the future, which is *)
(* the invariant the refinement carries.                                   *)

StartsInThePast == \A id \in DOMAIN policies : policies[id].start_date <= now

(* What the mapping makes of one policy.                                   *)
LEMMA EntryFields ==
    ASSUME NEW p \in Policy
    PROVE  /\ LifecycleEntry(p).phase = PhaseOf[p.status]
           /\ LifecycleEntry(p).from = p.start_date
           /\ LifecycleEntry(p).until = p.end_date
BY DEF LifecycleEntry

(* The phase each status stands for.                                       *)
LEMMA PhaseFacts ==
    /\ PhaseOf["Pending"] = "Offered" /\ PhaseOf["Active"] = "InForce"
    /\ PhaseOf["Claimed"] = "Paid" /\ PhaseOf["Expired"] = "Lapsed"
    /\ PhaseOf["Cancelled"] = "Withdrawn"
BY DEF PhaseOf

(* A new status is a new phase and nothing else.                           *)
LEMMA EntryClosed ==
    ASSUME NEW p \in Policy, NEW status
    PROVE  LifecycleEntry([p EXCEPT !.status = status]) =
               [LifecycleEntry(p) EXCEPT !.phase = PhaseOf[status]]
<1> DEFINE q == [p EXCEPT !.status = status]
<1>1. /\ q.status = status /\ q.farmer = p.farmer /\ q.org = p.org
      /\ q.lat_e6 = p.lat_e6 /\ q.lon_e6 = p.lon_e6 /\ q.sum_insured = p.sum_insured
      /\ q.start_date = p.start_date /\ q.end_date = p.end_date
      /\ q.coverage_type = p.coverage_type /\ q.created_at = p.created_at
  BY DEF Policy
<1> HIDE DEF q
<1>2. LifecycleEntry(q) = [LifecycleEntry(p) EXCEPT !.phase = PhaseOf[status]]
  BY <1>1 DEF LifecycleEntry
<1> QED  BY <1>2 DEF q

(* An entry with three fields rewritten keeps the fourth.                  *)
LEMMA EntryRewritten ==
    ASSUME NEW e, e = [f \in {"phase", "from", "until", "terms"} |-> e[f]],
           NEW x, NEW y, NEW z,
           NEW g, g = [e EXCEPT !.phase = x, !.from = y, !.until = z]
    PROVE  g = [phase |-> x, from |-> y, until |-> z, terms |-> e.terms]
OBVIOUS

(* An activation restarts the window at its length.                        *)
LEMMA EntryStarted ==
    ASSUME NEW p \in Policy
    PROVE  LifecycleEntry(Activated(p)) =
               [LifecycleEntry(p) EXCEPT !.phase = "InForce", !.from = now,
                    !.until = now + (p.end_date - p.start_date)]
<1> DEFINE q == Activated(p)
<1>1. /\ q.status = "Active" /\ q.farmer = p.farmer /\ q.org = p.org
      /\ q.lat_e6 = p.lat_e6 /\ q.lon_e6 = p.lon_e6 /\ q.sum_insured = p.sum_insured
      /\ q.start_date = now /\ q.end_date = now + (p.end_date - p.start_date)
      /\ q.coverage_type = p.coverage_type /\ q.created_at = p.created_at
  BY DEF Policy, Activated
<1> HIDE DEF q
<1>2. PICK terms : terms = <<p.farmer, p.org, p.lat_e6, p.lon_e6, p.sum_insured,
                             p.coverage_type, p.created_at>>
  OBVIOUS
<1>3. PICK end : end = now + (p.end_date - p.start_date)
  OBVIOUS
<1>4. /\ LifecycleEntry(p) = [phase |-> PhaseOf[p.status], from |-> p.start_date,
                              until |-> p.end_date, terms |-> terms]
      /\ LifecycleEntry(q) = [phase |-> "InForce", from |-> now,
                              until |-> end, terms |-> terms]
  BY <1>1, <1>2, <1>3, PhaseFacts DEF LifecycleEntry
<1>5. LifecycleEntry(q) =
          [LifecycleEntry(p) EXCEPT !.phase = "InForce", !.from = now, !.until = end]
  <2>1. PICK e : e = LifecycleEntry(p)
    OBVIOUS
  <2>2. PICK g : g = [e EXCEPT !.phase = "InForce", !.from = now, !.until = end]
    OBVIOUS
  <2>3. e = [f \in {"phase", "from", "until", "terms"} |-> e[f]] /\ e.terms = terms
    BY <1>4, <2>1
  <2>4. g = [phase |-> "InForce", from |-> now, until |-> end, terms |-> e.terms]
    BY <2>2, <2>3, EntryRewritten
  <2> QED  BY <1>4, <2>1, <2>2, <2>3, <2>4
<1> QED  BY <1>3, <1>5 DEF q

(* What the mapping makes of the book.                                     *)
LEMMA MappedBook ==
    ASSUME BookTypeOK
    PROVE  /\ DOMAIN LifecycleOfPolicies = DOMAIN policies
           /\ \A i \in DOMAIN policies :
                  /\ policies[i] \in Policy
                  /\ LifecycleOfPolicies[i] = LifecycleEntry(policies[i])
BY DEF BookTypeOK, LifecycleOfPolicies

(* Rewriting one policy rewrites its entry.                                *)
LEMMA MapUpdated ==
    ASSUME NEW id \in DOMAIN policies, NEW p, policies' = [policies EXCEPT ![id] = p]
    PROVE  LifecycleOfPolicies' = [LifecycleOfPolicies EXCEPT ![id] = LifecycleEntry(p)]
BY DEF LifecycleOfPolicies

(* create_policy offers.                                                   *)
LEMMA SoldRefines ==
    ASSUME PmTypeOK, PmTypeOK', now' = now, NEW id, Sold(id)
    PROVE  Lifecycle!Next
<1>1. /\ id \notin DOMAIN policies /\ id \in DOMAIN policies'
      /\ DOMAIN policies' = DOMAIN policies \cup {id}
      /\ \A i \in DOMAIN policies : policies'[i] = policies[i]
      /\ policies'[id] \in Policy
      /\ policies'[id].status = "Pending" /\ policies'[id].start_date = now
      /\ policies'[id].end_date > now
  BY DEF Sold, PmTypeOK, BookTypeOK
<1>2. /\ DOMAIN LifecycleOfPolicies = DOMAIN policies
      /\ \A i \in DOMAIN policies : LifecycleOfPolicies[i] = LifecycleEntry(policies[i])
      /\ DOMAIN LifecycleOfPolicies' = DOMAIN policies'
      /\ \A i \in DOMAIN policies' : LifecycleOfPolicies'[i] = LifecycleEntry(policies'[i])
  BY DEF LifecycleOfPolicies, LifecycleEntry
<1>3. PICK new : new = policies'[id]
  OBVIOUS
<1>4. new \in Policy /\ LifecycleOfPolicies'[id] = LifecycleEntry(new)
  BY <1>1, <1>2, <1>3
<1>5. /\ LifecycleOfPolicies'[id].phase = "Offered"
      /\ LifecycleOfPolicies'[id].from = now
      /\ LifecycleOfPolicies'[id].until > now
  BY <1>1, <1>3, <1>4, EntryFields, PhaseFacts
<1>6. /\ id \notin DOMAIN LifecycleOfPolicies
      /\ DOMAIN LifecycleOfPolicies' = DOMAIN LifecycleOfPolicies \cup {id}
      /\ \A i \in DOMAIN LifecycleOfPolicies : LifecycleOfPolicies'[i] = LifecycleOfPolicies[i]
  BY <1>1, <1>2
<1>7. Lifecycle!Offer(id) /\ id \in DOMAIN LifecycleOfPolicies'
  BY <1>5, <1>6 DEF Lifecycle!Offer
<1> QED  BY <1>7 DEF Lifecycle!Next

(* activate_policy starts what was offered, while the offer stands.        *)
LEMMA StartedRefines ==
    ASSUME PmTypeOK, now' = now, NEW id, Started(id)
    PROVE  Lifecycle!Next
<1>1. PICK p \in Policy :
          /\ p = policies[id] /\ id \in DOMAIN policies
          /\ p.status = "Pending" /\ now <= p.end_date
          /\ policies' = [policies EXCEPT ![id] = Activated(p)]
  BY DEF Started, PmTypeOK, BookTypeOK
<1>2. PICK e : e = LifecycleEntry(p)
  OBVIOUS
<1>3. /\ id \in DOMAIN LifecycleOfPolicies
      /\ LifecycleOfPolicies[id] = e
  BY <1>1, <1>2, MappedBook DEF PmTypeOK
<1>4. e.phase = "Offered" /\ e.from = p.start_date /\ e.until = p.end_date
  BY <1>1, <1>2, EntryFields, PhaseFacts
<1>5. LifecycleOfPolicies' =
          [LifecycleOfPolicies EXCEPT ![id] = LifecycleEntry(Activated(p))]
  BY <1>1, MapUpdated
<1>6. LifecycleEntry(Activated(p)) =
          [e EXCEPT !.phase = "InForce", !.from = now, !.until = now + (e.until - e.from)]
  BY <1>2, <1>4, EntryStarted
<1>7. Lifecycle!Start(id)
  BY <1>1, <1>3, <1>4, <1>5, <1>6 DEF Lifecycle!Start
<1> QED  BY <1>3, <1>7 DEF Lifecycle!Next

(* A closing pays, lapses or withdraws.                                    *)
LEMMA ClosedRefines ==
    ASSUME PmTypeOK, StartsInThePast, now' = now, NEW id, NEW status, Closed(id, status)
    PROVE  Lifecycle!Next
<1>1. PICK p \in Policy :
          /\ p = policies[id] /\ id \in DOMAIN policies
          /\ p.status \in OpenStatuses /\ p.start_date <= now
          /\ policies' = [policies EXCEPT ![id] = [p EXCEPT !.status = status]]
          /\ \/ status = "Claimed" /\ p.status = "Active" /\ now <= p.end_date
             \/ status = "Expired" /\ now > p.end_date
             \/ status = "Cancelled"
  BY DEF Closed, StartsInThePast, PmTypeOK, BookTypeOK
<1>2. PICK e : e = LifecycleEntry(p)
  OBVIOUS
<1>3. id \in DOMAIN LifecycleOfPolicies /\ LifecycleOfPolicies[id] = e
  BY <1>1, <1>2, MappedBook DEF PmTypeOK
<1>4. e.phase = PhaseOf[p.status] /\ e.from = p.start_date /\ e.until = p.end_date
  BY <1>1, <1>2, EntryFields
<1>5. LifecycleOfPolicies' =
          [LifecycleOfPolicies EXCEPT ![id] = [e EXCEPT !.phase = PhaseOf[status]]]
  <2>1. LifecycleOfPolicies' =
            [LifecycleOfPolicies EXCEPT ![id] = LifecycleEntry([p EXCEPT !.status = status])]
    BY <1>1, MapUpdated
  <2> QED  BY <1>2, <2>1, EntryClosed
<1>6. e.phase \in {"Offered", "InForce"}
  BY <1>1, <1>4, PhaseFacts DEF OpenStatuses
<1>7. CASE status = "Claimed" /\ p.status = "Active" /\ now <= p.end_date
  <2>1. Lifecycle!Pay(id)
    BY <1>1, <1>3, <1>4, <1>5, <1>7, PhaseFacts DEF Lifecycle!Pay
  <2> QED  BY <1>3, <2>1 DEF Lifecycle!Next
<1>8. CASE status = "Expired" /\ now > p.end_date
  <2>1. Lifecycle!Lapse(id)
    BY <1>3, <1>4, <1>5, <1>6, <1>8, PhaseFacts DEF Lifecycle!Lapse, Lifecycle!OpenPhases
  <2> QED  BY <1>3, <2>1 DEF Lifecycle!Next
<1>9. CASE status = "Cancelled"
  <2>1. Lifecycle!Withdraw(id)
    BY <1>3, <1>5, <1>6, <1>9, PhaseFacts DEF Lifecycle!Withdraw, Lifecycle!OpenPhases
  <2> QED  BY <1>3, <2>1 DEF Lifecycle!Next
<1> QED  BY <1>1, <1>7, <1>8, <1>9

(* No step starts cover in the future.                                     *)
LEMMA PastStep ==
    ASSUME PmTypeOK, StartsInThePast, [BookNext]_bookSpecVars
    PROVE  StartsInThePast'
<1>1. now \in Nat /\ \A i \in DOMAIN policies : policies[i] \in Policy
  BY DEF PmTypeOK, BookTypeOK
<1>2. CASE now' \in {now, now + 1} /\ UNCHANGED bookVars
  <2>1. now' \in Nat /\ now <= now' /\ UNCHANGED policies
    BY <1>1, <1>2 DEF bookVars
  <2>2. \A i \in DOMAIN policies : policies[i].start_date \in Nat
    BY <1>1 DEF Policy
  <2> QED  BY <1>1, <2>1, <2>2 DEF StartsInThePast
<1>3. ASSUME now' = now, NEW id, Sold(id)
      PROVE  StartsInThePast'
  BY <1>1, <1>3 DEF StartsInThePast, Sold
<1>4. ASSUME now' = now, NEW id, Started(id)
      PROVE  StartsInThePast'
  <2>1. /\ id \in DOMAIN policies /\ policies[id] \in Policy
        /\ policies' = [policies EXCEPT ![id] = Activated(policies[id])]
    BY <1>1, <1>4 DEF Started
  <2>2. Activated(policies[id]).start_date = now
    BY <2>1 DEF Activated, Policy
  <2> QED  BY <1>1, <1>4, <2>1, <2>2 DEF StartsInThePast
<1>5. ASSUME now' = now, NEW id, NEW status, Closed(id, status)
      PROVE  StartsInThePast'
  <2>1. /\ id \in DOMAIN policies /\ policies[id] \in Policy
        /\ policies' = [policies EXCEPT ![id] = [policies[id] EXCEPT !.status = status]]
    BY <1>1, <1>5 DEF Closed
  <2>2. [policies[id] EXCEPT !.status = status].start_date = policies[id].start_date
    BY <2>1 DEF Policy
  <2> QED  BY <1>5, <2>1, <2>2 DEF StartsInThePast
<1> QED  BY PmAssumption, BookStepKinds, <1>2, <1>3, <1>4, <1>5 DEF BookStep

(* A change of the book, or the passing of time, is a step of the abstract *)
(* book or leaves it alone.                                                *)
LEMMA ChangeRefines ==
    ASSUME PmTypeOK, PmTypeOK', StartsInThePast, BookChange,
           now' \in {now, now + 1}, now' # now => UNCHANGED bookVars
    PROVE  [Lifecycle!Next]_<<now, LifecycleOfPolicies>>
<1>1. CASE UNCHANGED bookVars
  <2>1. UNCHANGED LifecycleOfPolicies
    BY <1>1 DEF bookVars, LifecycleOfPolicies, LifecycleEntry
  <2>2. now' = now \/ now' > now
    BY DEF PmTypeOK, BookTypeOK
  <2> QED  BY <2>1, <2>2 DEF Lifecycle!Next, Lifecycle!TimePasses
<1>2. CASE now' = now /\ \E id : Sold(id) \/ Started(id) \/ \E status : Closed(id, status)
  BY <1>2, SoldRefines, StartedRefines, ClosedRefines
<1> QED  BY <1>1, <1>2 DEF BookChange

(* The empty book is the abstract one.                                     *)
LEMMA LifecycleInitial ==
    ASSUME now = 0, PmInit
    PROVE  Lifecycle!Init /\ StartsInThePast
<1>1. DOMAIN policies = {}
  BY DEF PmInit
<1>2. LifecycleOfPolicies = [id \in {} |-> 0]
  BY <1>1 DEF LifecycleOfPolicies
<1> QED  BY <1>1, <1>2 DEF Lifecycle!Init, StartsInThePast

(* Whatever the roles, counters and certificates do, seen from outside the *)
(* manager keeps one book of policies: terms never change after the sale,  *)
(* a policy closes once, is paid only inside its window and lapses only    *)
(* after it, and an activation restarts the window at its length.          *)
THEOREM LifecycleRefinement == BookSpec => ImplementsLifecycle
<1>1. BookInit => Lifecycle!Init /\ StartsInThePast
  BY LifecycleInitial DEF BookInit
<1>2. PmTypeOK /\ StartsInThePast /\ [BookNext]_bookSpecVars => StartsInThePast'
  BY PastStep
<1>3. PmTypeOK /\ StartsInThePast /\ [BookNext]_bookSpecVars =>
          [Lifecycle!Next]_<<now, LifecycleOfPolicies>>
  <2> SUFFICES ASSUME PmTypeOK, StartsInThePast, [BookNext]_bookSpecVars
               PROVE  [Lifecycle!Next]_<<now, LifecycleOfPolicies>>
    OBVIOUS
  <2>1. PmTypeOK'
    BY PmAssumption, BookNextType
  <2>2. BookChange /\ now' \in {now, now + 1} /\ (now' # now => UNCHANGED bookVars)
    BY PmAssumption, BookStepKinds, BookChanges
  <2> QED  BY <2>1, <2>2, ChangeRefines
<1> QED
  BY <1>1, <1>2, <1>3, BookTypeCorrect, PTL
     DEF BookSpec, ImplementsLifecycle, Lifecycle!Spec

-----------------------------------------------------------------------------
(* What the deployment must be for some of the theorems; the code leaves   *)
(* each to the administrators.                                             *)

(* set_policy_manager is never given an account.                           *)
NoAccountManages == Managers \cap Accounts = {}

(* set_policy_nft is given at most one contract that holds certificates.   *)
OneCertificateContract == \A m, n \in NftAddrs \cap Nfts : m = n

(* Every certificate contract is wired to the manager and stays so.        *)
ManagerWired == NftWiring.manager = PM /\ Managers \subseteq {PM}

(* No account mints with a Minter role of its own.                         *)
OnlyManagerMints == MintRequests = {}

-----------------------------------------------------------------------------
(* A step of the book together with its call to the certificates.          *)

CertificateFor(p, distributor) ==
    [farmer |-> p.farmer, distributor |-> distributor, sum_insured |-> p.sum_insured,
     start_date |-> p.start_date, end_date |-> p.end_date, is_active |-> TRUE]

Sale(id) == Sold(id) /\ UNCHANGED <<nftVars, policyNft>>

Activation(id) ==
    /\ Started(id)
    /\ policyNft \in Nfts
    /\ UNCHANGED policyNft
    /\ \E d \in Distributors :
          Minted(policyNft, id, CertificateFor(Activated(policies[id]), d),
                 Activated(policies[id]).farmer)

(* A certificate is left alone only if the policy had none yet, or the     *)
(* manager may not update it.                                              *)
Ending(id) ==
    /\ \E status : Closed(id, status)
    /\ UNCHANGED policyNft
    /\ \/ /\ policyNft \in Nfts
          /\ id \in DOMAIN certificates[policyNft]
          /\ FlagSet(policyNft, id, FALSE)
       \/ /\ UNCHANGED nftVars
          /\ \/ policies[id].status = "Pending"
             \/ policyNft = None
             \/ policyNft \in Nfts /\ ~MayUpdateStatus(policyNft, PM, id)

CertificateStep ==
    \/ MintStep /\ MintRequests # {}
    \/ FlagStep /\ ~NoAccountManages
    \/ TransferStep
    \/ Rewired

Elsewhere ==
    /\ UNCHANGED bookVars
    /\ policyNft' \in NftAddrs \cup {policyNft}
    /\ UNCHANGED nftVars \/ CertificateStep

CoverStep == Elsewhere \/ \E id : Sale(id) \/ Activation(id) \/ Ending(id)

(* activate_policy mints the certificate of the cover it starts.           *)
LEMMA ActivateMints ==
    ASSUME PmTypeOK, NftTypeOK, NEW caller, NEW id \in DOMAIN policies,
           NEW d \in Distributors, activate_policy(caller, id, d)
    PROVE  Activation(id)
<1>1. PICK p : p = Activated(policies[id])
  OBVIOUS
<1>2. id \in Nat
  BY DEF PmTypeOK, BookTypeOK
<1>3. /\ policyNft \in Nfts
      /\ mint_policy(policyNft, PM, p.farmer, id, d, p.sum_insured, p.start_date, p.end_date)
      /\ UNCHANGED policyNft
  BY <1>1 DEF activate_policy
<1>4. Minted(policyNft, id, [farmer |-> p.farmer, distributor |-> d,
                             sum_insured |-> p.sum_insured, start_date |-> p.start_date,
                             end_date |-> p.end_date, is_active |-> TRUE], p.farmer)
  BY <1>2, <1>3, MintEffect
<1>5. Started(id)
  BY DEF activate_policy, Started
<1> QED  BY <1>1, <1>3, <1>4, <1>5 DEF Activation, CertificateFor

(* deactivate_policy_nft clears one flag, or may not.                      *)
LEMMA DeactivateEffect ==
    ASSUME NftTypeOK, NEW id, deactivate_policy_nft(id)
    PROVE  \/ /\ policyNft \in Nfts
              /\ id \in DOMAIN certificates[policyNft]
              /\ FlagSet(policyNft, id, FALSE)
           \/ /\ UNCHANGED nftVars
              /\ \/ policyNft = None
                 \/ policyNft \in Nfts /\ ~MayUpdateStatus(policyNft, PM, id)
<1>1. CASE policyNft # None /\ MayUpdateStatus(policyNft, PM, id)
  <2>1. policyNft \in Nfts /\ update_policy_status(policyNft, PM, id, FALSE)
    BY <1>1 DEF deactivate_policy_nft
  <2>2. FlagSet(policyNft, id, FALSE)
    BY <2>1, FlagEffect
  <2> QED  BY <1>1, <2>1, <2>2 DEF MayUpdateStatus, policy_nft_exists
<1>2. CASE ~(policyNft # None /\ MayUpdateStatus(policyNft, PM, id))
  BY <1>2 DEF deactivate_policy_nft
<1> QED  BY <1>1, <1>2

(* mark_as_claimed, cancel_policy and expire_policy end cover.             *)
LEMMA CloseEnds ==
    ASSUME PmTypeOK, NftTypeOK, NEW caller, NEW id \in DOMAIN policies,
           mark_as_claimed(caller, id) \/ cancel_policy(caller, id) \/ expire_policy(id)
    PROVE  Ending(id)
<1>1. /\ \E status : Closed(id, status)
      /\ UNCHANGED policyNft
  <2>1. CASE mark_as_claimed(caller, id)
    <3>1. Closed(id, "Claimed")
      BY <2>1 DEF mark_as_claimed, is_policy_active, Closed, OpenStatuses
    <3> QED  BY <2>1, <3>1 DEF mark_as_claimed
  <2>2. CASE cancel_policy(caller, id)
    <3>1. Closed(id, "Cancelled")
      BY <2>2 DEF cancel_policy, Close, Closed, OpenStatuses
    <3> QED  BY <2>2, <3>1 DEF cancel_policy, Close
  <2>3. CASE expire_policy(id)
    <3>1. Closed(id, "Expired")
      BY <2>3 DEF expire_policy, Close, Closed, OpenStatuses
    <3> QED  BY <2>3, <3>1 DEF expire_policy, Close
  <2> QED  BY <2>1, <2>2, <2>3
<1>2. deactivate_policy_nft(id) \/ (policies[id].status = "Pending" /\ UNCHANGED nftVars)
  BY DEF mark_as_claimed, cancel_policy, expire_policy, Close
<1> QED  BY <1>1, <1>2, DeactivateEffect DEF Ending

(* Every step of the book and the certificates is one of the four.         *)
LEMMA CoverSteps ==
    ASSUME HostAssumption, NftAssumption, PmAssumption, PmTypeOK, NftTypeOK,
           [BookNext]_bookSpecVars
    PROVE  CoverStep
<1> SUFFICES Elsewhere \/ \E id : Sale(id) \/ Activation(id) \/ Ending(id)
  BY DEF CoverStep
<1>1. CASE UNCHANGED <<pmVars, nftVars>>
  BY <1>1 DEF pmVars, Elsewhere
<1>2. CASE NftStep /\ UNCHANGED pmVars
  <2>1. CertificateStep
    BY <1>2, AccountSteps DEF CertificateStep, NoAccountManages
  <2> QED  BY <1>2, <2>1 DEF pmVars, Elsewhere
<1>3. CASE PmStep /\ UNCHANGED now
  <2>1. PICK caller \in Accounts :
            \/ \E r \in SaleRequests : create_policy(caller, r)
            \/ \E id \in DOMAIN policies :
                  \/ \E d \in Distributors : activate_policy(caller, id, d)
                  \/ mark_as_claimed(caller, id) \/ cancel_policy(caller, id) \/ expire_policy(id)
            \/ UNCHANGED <<bookVars, nftVars>> /\ policyNft' \in NftAddrs \cup {policyNft}
    BY <1>3 DEF PmStep, set_policy_nft, pm_grant_role, pm_revoke_role
  <2>2. ASSUME NEW r \in SaleRequests, create_policy(caller, r)
        PROVE  Sale(policyCounter + 1)
    <3>1. PmTypeOK'
      BY BookNextType
    <3>2. Sold(policyCounter + 1)
      BY <2>2, <3>1, CreateSells
    <3> QED  BY <2>2, <3>2 DEF Sale, create_policy
  <2>3. CASE UNCHANGED <<bookVars, nftVars>> /\ policyNft' \in NftAddrs \cup {policyNft}
    BY <2>3 DEF Elsewhere
  <2> QED  BY <2>1, <2>2, <2>3, ActivateMints, CloseEnds
<1> QED  BY <1>1, <1>2, <1>3 DEF BookNext, bookSpecVars

-----------------------------------------------------------------------------
(* The certificates under the manager's calls.                             *)

(* Seen by the certificate contracts, the manager is one more caller.      *)
LEMMA CertificateKinds ==
    ASSUME CoverStep
    PROVE  UNCHANGED nftVars \/ MintStep \/ FlagStep \/ TransferStep \/ Rewired
<1>1. ASSUME NEW id, Activation(id)
      PROVE  MintStep
  BY <1>1 DEF Activation, MintStep
<1>2. ASSUME NEW id, Ending(id)
      PROVE  FlagStep \/ UNCHANGED nftVars
  BY <1>2 DEF Ending, FlagStep
<1> QED  BY <1>1, <1>2 DEF CoverStep, Elsewhere, CertificateStep, Sale

(* So they keep the certificate contracts' invariant.                      *)
LEMMA CertificatesStep ==
    ASSUME NftInv, CoverStep
    PROVE  NftInv'
<1>1. UNCHANGED nftVars \/ MintStep \/ FlagStep \/ TransferStep \/ Rewired
  BY CertificateKinds
<1> QED  BY <1>1, StepInv, SameInv

(* The manager's mints and updates keep what CertificatesCorrect says of   *)
(* the certificate contracts alone: owners beside certificates, and exact  *)
(* distributor indexes.                                                    *)
THEOREM ManagedCertificatesCorrect == BookSpec => []NftInv
<1>1. BookInit => NftInv
  BY NftAssumption, NftInitial DEF BookInit
<1>2. PmTypeOK /\ NftInv /\ [BookNext]_bookSpecVars => NftInv'
  <2> SUFFICES ASSUME PmTypeOK, NftInv, [BookNext]_bookSpecVars PROVE NftInv'
    OBVIOUS
  <2>1. CoverStep
    BY HostAssumption, NftAssumption, PmAssumption, CoverSteps DEF NftInv
  <2> QED  BY <2>1, CertificatesStep
<1> QED  BY <1>1, <1>2, BookTypeCorrect, PTL DEF BookSpec

(* No step of the manager or of an account moves an active certificate,    *)
(* rewrites a certificate's terms or removes one.                          *)
THEOREM ManagedSoulbound == BookSpec => [][SoulboundStep]_bookSpecVars
<1>1. PmTypeOK /\ NftInv /\ [BookNext]_bookSpecVars => [SoulboundStep]_bookSpecVars
  <2> SUFFICES ASSUME PmTypeOK, NftInv, [BookNext]_bookSpecVars PROVE SoulboundStep
    OBVIOUS
  <2>1. UNCHANGED nftVars \/ MintStep \/ FlagStep \/ TransferStep \/ Rewired
    BY HostAssumption, NftAssumption, PmAssumption, CoverSteps, CertificateKinds DEF NftInv
  <2>2. CASE UNCHANGED nftVars
    BY <2>2, StepSoulbound DEF Rewired, NftInv, NftTypeOK, nftVars, certificateVars
  <2> QED  BY <2>1, <2>2, StepSoulbound DEF NftInv
<1> QED  BY <1>1, BookTypeCorrect, ManagedCertificatesCorrect, PTL DEF BookSpec

-----------------------------------------------------------------------------
(* Cover in force is certified.                                            *)

(* A policy and a certificate a step does not touch stay matched.          *)
LEMMA StaysCertified ==
    ASSUME NEW n, NEW id, CertifiedBy(n, id),
           policies'[id] = policies[id],
           id \in DOMAIN certificates'[n],
           certificates'[n][id] = certificates[n][id],
           owners'[n][id] = owners[n][id]
    PROVE  CertifiedBy(n, id)'
BY DEF CertifiedBy, policy_nft_exists

(* A mint, a transfer and a rewiring touch no active certificate.          *)
LEMMA ActiveUntouched ==
    ASSUME NftTypeOK, NEW n \in Nfts, NEW id \in DOMAIN certificates[n],
           certificates[n][id].is_active, MintStep \/ TransferStep \/ Rewired \/ UNCHANGED nftVars
    PROVE  /\ id \in DOMAIN certificates'[n]
           /\ certificates'[n][id] = certificates[n][id]
           /\ owners'[n][id] = owners[n][id]
<1>1. id \in DOMAIN owners[n]
  BY DEF NftTypeOK
<1>2. ASSUME NEW m \in Nfts, NEW i, NEW c, NEW owner, Minted(m, i, c, owner)
      PROVE  /\ id \in DOMAIN certificates'[n]
             /\ certificates'[n][id] = certificates[n][id]
             /\ owners'[n][id] = owners[n][id]
  <2>1. CASE m # n
    BY <1>2, <2>1 DEF Minted
  <2>2. CASE m = n
    BY <1>1, <1>2, <2>2 DEF Minted
  <2> QED  BY <2>1, <2>2
<1>3. ASSUME NEW m \in Nfts, NEW i, NEW to, Transferred(m, i, to)
      PROVE  UNCHANGED certificates /\ owners'[n][id] = owners[n][id]
  BY <1>1, <1>3 DEF Transferred
<1>4. CASE Rewired \/ UNCHANGED nftVars
  BY <1>4 DEF Rewired, nftVars, certificateVars
<1>5. CASE MintStep
  BY <1>2, <1>5 DEF MintStep
<1>6. CASE TransferStep
  BY <1>3, <1>6 DEF TransferStep
<1> QED  BY <1>4, <1>5, <1>6

(* The certificate a mint makes matches the policy it is made for.         *)
LEMMA StartCertifies ==
    ASSUME PmTypeOK, NftTypeOK, NEW id, Activation(id)
    PROVE  CertifiedBy(policyNft, id)'
<1>1. PICK p, d : /\ p = Activated(policies[id])
                  /\ Minted(policyNft, id, CertificateFor(p, d), p.farmer)
  BY DEF Activation
<1>2. /\ id \in DOMAIN policies
      /\ policies' = [policies EXCEPT ![id] = p]
      /\ policyNft' = policyNft
  BY <1>1 DEF Activation, Started
<1>3. policies'[id] = p
  BY <1>2
<1>4. PICK c : c = CertificateFor(p, d)
  OBVIOUS
<1>5. /\ c.is_active = TRUE /\ c.farmer = p.farmer /\ c.sum_insured = p.sum_insured
      /\ c.start_date = p.start_date /\ c.end_date = p.end_date
  BY <1>4 DEF CertificateFor
<1>6. /\ id \in DOMAIN certificates'[policyNft]
      /\ certificates'[policyNft][id] = c
      /\ owners'[policyNft][id] = p.farmer
  BY <1>1, <1>4 DEF Minted
<1> QED  BY <1>2, <1>3, <1>5, <1>6 DEF CertifiedBy, policy_nft_exists

(* No step leaves active cover without its certificate.                    *)
LEMMA CertifiedStep ==
    ASSUME NftAssumption, NoAccountManages, PmTypeOK, NftTypeOK, ActiveCoverIsCertified,
           CoverStep
    PROVE  ActiveCoverIsCertified'
<1> SUFFICES ASSUME NEW id \in DOMAIN policies', policies'[id].status = "Active"
             PROVE  \E n \in Nfts : CertifiedBy(n, id)'
  BY DEF ActiveCoverIsCertified
<1>1. ASSUME NEW n \in Nfts, CertifiedBy(n, id), policies'[id] = policies[id],
             MintStep \/ TransferStep \/ Rewired \/ UNCHANGED nftVars
      PROVE  CertifiedBy(n, id)'
  <2>1. id \in DOMAIN certificates[n] /\ certificates[n][id].is_active
    BY <1>1 DEF CertifiedBy, policy_nft_exists
  <2>2. /\ id \in DOMAIN certificates'[n]
        /\ certificates'[n][id] = certificates[n][id]
        /\ owners'[n][id] = owners[n][id]
    BY <1>1, <2>1, ActiveUntouched
  <2> QED  BY <1>1, <2>2, StaysCertified
<1>2. ASSUME id \in DOMAIN policies, policies[id].status = "Active",
             policies'[id] = policies[id],
             MintStep \/ TransferStep \/ Rewired \/ UNCHANGED nftVars
      PROVE  \E n \in Nfts : CertifiedBy(n, id)'
  BY <1>1, <1>2 DEF ActiveCoverIsCertified
<1>3. CASE Elsewhere
  <2>1. UNCHANGED policies
    BY <1>3 DEF Elsewhere, bookVars
  <2>2. MintStep \/ TransferStep \/ Rewired \/ UNCHANGED nftVars
    BY <1>3, NoAccountManages DEF Elsewhere, CertificateStep
  <2> QED  BY <1>2, <2>1, <2>2
<1>4. ASSUME NEW sold, Sale(sold)
      PROVE  \E n \in Nfts : CertifiedBy(n, id)'
  <2>1. id # sold /\ id \in DOMAIN policies /\ policies'[id] = policies[id]
    BY <1>4 DEF Sale, Sold
  <2> QED  BY <1>2, <1>4, <2>1 DEF Sale
<1>5. ASSUME NEW started, Activation(started)
      PROVE  \E n \in Nfts : CertifiedBy(n, id)'
  <2>1. CASE id = started
    BY <1>5, <2>1, StartCertifies DEF Activation
  <2>2. CASE id # started
    <3>1. id \in DOMAIN policies /\ policies'[id] = policies[id]
      BY <1>5, <2>2 DEF Activation, Started
    <3>2. MintStep
      BY <1>5 DEF Activation, MintStep
    <3> QED  BY <1>2, <3>1, <3>2
  <2> QED  BY <2>1, <2>2
<1>6. ASSUME NEW closed, Ending(closed)
      PROVE  \E n \in Nfts : CertifiedBy(n, id)'
  <2>1. PICK status : Closed(closed, status)
    BY <1>6 DEF Ending
  <2>2. /\ id # closed /\ id \in DOMAIN policies
        /\ policies'[id] = policies[id]
    <3>1. /\ DOMAIN policies' = DOMAIN policies
          /\ \A i \in DOMAIN policies : i # closed => policies'[i] = policies[i]
          /\ policies'[closed].status = status
      BY <2>1, LaterSteps DEF SameParties
    <3>2. status # "Active"
      BY <2>1 DEF Closed
    <3> QED  BY <3>1, <3>2
  <2>3. CASE UNCHANGED nftVars
    BY <1>2, <2>2, <2>3
  <2>4. CASE FlagSet(policyNft, closed, FALSE)
    <3>1. PICK n \in Nfts : CertifiedBy(n, id)
      BY <2>2 DEF ActiveCoverIsCertified
    <3>2. id \in DOMAIN certificates[n]
      BY <3>1 DEF CertifiedBy, policy_nft_exists
    <3>3. /\ id \in DOMAIN certificates'[n]
          /\ certificates'[n][id] = certificates[n][id]
          /\ owners'[n][id] = owners[n][id]
      BY <2>2, <2>4, <3>2 DEF FlagSet
    <3> QED  BY <2>2, <3>1, <3>3, StaysCertified
  <2> QED  BY <1>6, <2>3, <2>4 DEF Ending
<1> QED  BY <1>3, <1>4, <1>5, <1>6 DEF CoverStep

(* While no account is wired as a manager, cover in force is documented,   *)
(* whatever contracts set_policy_nft names meanwhile: some contract holds  *)
(* an active certificate of the policy's terms, held by its farmer.        *)
THEOREM CoverCertified ==
    ASSUME NoAccountManages
    PROVE  BookSpec => []ActiveCoverIsCertified
<1>1. BookInit => ActiveCoverIsCertified
  BY DEF BookInit, PmInit, ActiveCoverIsCertified
<1>2. PmTypeOK /\ NftTypeOK /\ ActiveCoverIsCertified /\ [BookNext]_bookSpecVars
          => ActiveCoverIsCertified'
  BY NoAccountManages, HostAssumption, NftAssumption, PmAssumption, CoverSteps, CertifiedStep
<1>3. NftInv => NftTypeOK
  BY DEF NftInv
<1> QED
  BY <1>1, <1>2, <1>3, BookTypeCorrect, ManagedCertificatesCorrect, PTL DEF BookSpec

-----------------------------------------------------------------------------
(* The certificates mirror the book.  The invariant needs to know where    *)
(* certificates can be (only at a contract the manager was pointed at, and *)
(* it is never unset again) and that this contract takes the manager's     *)
(* updates.                                                                *)

Wired == \A n \in Nfts : nftPolicyManager[n] = PM

CertificatesReachable ==
    \A n \in Nfts : DOMAIN certificates[n] # {} => n \in NftAddrs /\ policyNft \in NftAddrs

MirrorInv == CertificateMirrorsPolicy /\ Wired /\ CertificatesReachable

(* One certificate and its policy.                                         *)
Mirrors(n, id) ==
    /\ policy_exists(id)
    /\ certificates[n][id].is_active <=> policies[id].status = "Active"

(* A step that changes neither flag nor status keeps the mirror.           *)
LEMMA StaysMirrored ==
    ASSUME NEW n, NEW id, Mirrors(n, id),
           id \in DOMAIN policies', policies'[id].status = policies[id].status,
           certificates'[n][id] = certificates[n][id]
    PROVE  Mirrors(n, id)'
BY DEF Mirrors, policy_exists

(* A sale, and what happens to the certificates alone, without mints or    *)
(* flags.                                                                  *)
LEMMA QuietMirror ==
    ASSUME MirrorInv, UNCHANGED certificates,
           \A id \in DOMAIN policies :
               id \in DOMAIN policies' /\ policies'[id].status = policies[id].status,
           policyNft' \in NftAddrs \cup {policyNft},
           Wired'
    PROVE  MirrorInv'
<1>1. ASSUME NEW n \in Nfts, NEW id \in DOMAIN certificates[n]
      PROVE  Mirrors(n, id)'
  <2>1. Mirrors(n, id)
    BY DEF MirrorInv, CertificateMirrorsPolicy, Mirrors
  <2>2. id \in DOMAIN policies' /\ policies'[id].status = policies[id].status
    BY <2>1 DEF Mirrors, policy_exists
  <2> QED  BY <2>1, <2>2, StaysMirrored
<1>2. CertificateMirrorsPolicy'
  BY <1>1 DEF CertificateMirrorsPolicy, Mirrors
<1>3. CertificatesReachable'
  BY DEF MirrorInv, CertificatesReachable
<1> QED  BY <1>2, <1>3 DEF MirrorInv

(* activate_policy: the cover starts and its certificate is minted active. *)
LEMMA ActivationMirror ==
    ASSUME PmTypeOK, NftTypeOK, MirrorInv, OneCertificateContract, NEW id, Activation(id)
    PROVE  MirrorInv'
<1>1. /\ id \in DOMAIN policies
      /\ DOMAIN policies' = DOMAIN policies
      /\ policies'[id].status = "Active"
      /\ \A i \in DOMAIN policies : i # id => policies'[i] = policies[i]
      /\ policyNft \in Nfts /\ policyNft' = policyNft
  BY LaterSteps DEF Activation, SameParties
<1>2. PICK c, owner : Minted(policyNft, id, c, owner)
  BY DEF Activation
<1>3. /\ id \notin DOMAIN certificates[policyNft]
      /\ c.is_active = TRUE
      /\ \A n \in Nfts : n # policyNft => certificates'[n] = certificates[n]
      /\ DOMAIN certificates'[policyNft] = DOMAIN certificates[policyNft] \cup {id}
      /\ certificates'[policyNft][id] = c
      /\ \A i \in DOMAIN certificates[policyNft] :
            certificates'[policyNft][i] = certificates[policyNft][i]
      /\ UNCHANGED nftPolicyManager
  BY <1>2 DEF Minted
<1>4. policyNft \in NftAddrs
  <2>1. None \notin Nfts
    BY NftAssumption DEF NftAssumption
  <2> QED  BY <1>1, <2>1 DEF PmTypeOK, BookTypeOK
<1>5. \A n \in Nfts : n # policyNft => DOMAIN certificates[n] = {}
  BY <1>1, <1>4 DEF MirrorInv, CertificatesReachable, OneCertificateContract
<1>6. ASSUME NEW n \in Nfts, NEW i \in DOMAIN certificates'[n]
      PROVE  Mirrors(n, i)'
  <2>1. n = policyNft
    BY <1>3, <1>5
  <2>2. CASE i = id
    BY <1>1, <1>3, <2>1, <2>2 DEF Mirrors, policy_exists
  <2>3. CASE i # id
    <3>1. i \in DOMAIN certificates[n] /\ certificates'[n][i] = certificates[n][i]
      BY <1>3, <2>1, <2>3
    <3>2. Mirrors(n, i)
      BY <3>1 DEF MirrorInv, CertificateMirrorsPolicy, Mirrors
    <3>3. i \in DOMAIN policies' /\ policies'[i].status = policies[i].status
      BY <1>1, <2>3, <3>2 DEF Mirrors, policy_exists
    <3> QED  BY <3>1, <3>2, <3>3, StaysMirrored
  <2> QED  BY <2>2, <2>3
<1>7. CertificateMirrorsPolicy'
  BY <1>6 DEF CertificateMirrorsPolicy, Mirrors
<1>8. Wired'
  BY <1>3 DEF MirrorInv, Wired
<1>9. CertificatesReachable'
  BY <1>1, <1>3, <1>4, <1>5 DEF CertificatesReachable
<1> QED  BY <1>7, <1>8, <1>9 DEF MirrorInv

(* mark_as_claimed, cancel_policy, expire_policy: the best-effort update   *)
(* is skipped only when there is nothing to update.                        *)
LEMMA EndingMirror ==
    ASSUME PmTypeOK, NftTypeOK, MirrorInv, OneCertificateContract, NEW id, Ending(id)
    PROVE  MirrorInv'
<1>1. PICK status : Closed(id, status)
  BY DEF Ending
<1>2. /\ id \in DOMAIN policies
      /\ DOMAIN policies' = DOMAIN policies
      /\ policies'[id].status # "Active"
      /\ \A i \in DOMAIN policies : i # id => policies'[i] = policies[i]
      /\ policyNft' = policyNft
  <2>1. status # "Active"
    BY <1>1 DEF Closed
  <2> QED  BY <1>1, <2>1, LaterSteps DEF Ending, SameParties
<1>3. /\ DOMAIN certificates' = Nfts
      /\ \A n \in Nfts :
            /\ DOMAIN certificates'[n] = DOMAIN certificates[n]
            /\ \A i \in DOMAIN certificates[n] :
                  i # id => certificates'[n][i] = certificates[n][i]
      /\ UNCHANGED nftPolicyManager
  BY DEF Ending, FlagSet, nftVars, NftTypeOK
<1>4. ASSUME NEW n \in Nfts, id \in DOMAIN certificates[n]
      PROVE  certificates'[n][id].is_active = FALSE
  <2>1. Mirrors(n, id) /\ n \in NftAddrs /\ policyNft \in NftAddrs /\ policyNft # None
    BY <1>4, PmAssumption
       DEF MirrorInv, CertificateMirrorsPolicy, Mirrors, CertificatesReachable, PmAssumption
  <2>2. CASE /\ policyNft \in Nfts
             /\ FlagSet(policyNft, id, FALSE)
    <3>1. n = policyNft
      BY <2>1, <2>2 DEF OneCertificateContract
    <3>2. certificates'[n][id] = [certificates[n][id] EXCEPT !.is_active = FALSE]
      BY <2>2, <3>1 DEF FlagSet
    <3>3. certificates[n][id] = [f \in CertificateFields |-> certificates[n][id][f]]
      BY <1>4 DEF NftTypeOK, CertificateOK
    <3> QED  BY <3>2, <3>3 DEF CertificateFields
  <2>3. CASE UNCHANGED nftVars /\ policies[id].status = "Pending"
    <3>1. certificates[n][id].is_active \in BOOLEAN
      BY <1>4 DEF NftTypeOK, CertificateOK
    <3>2. certificates[n][id].is_active = FALSE
      BY <2>1, <2>3, <3>1 DEF Mirrors
    <3> QED  BY <2>3, <3>2 DEF nftVars
  <2>4. CASE policyNft \in Nfts /\ ~MayUpdateStatus(policyNft, PM, id)
    <3>1. n = policyNft
      BY <2>1, <2>4 DEF OneCertificateContract
    <3> QED  BY <1>4, <2>4, <3>1 DEF MayUpdateStatus, policy_nft_exists, MirrorInv, Wired
  <2> QED  BY <2>1, <2>2, <2>3, <2>4 DEF Ending
<1>5. ASSUME NEW n \in Nfts, NEW i \in DOMAIN certificates'[n]
      PROVE  Mirrors(n, i)'
  <2>1. i \in DOMAIN certificates[n]
    BY <1>3
  <2>2. Mirrors(n, i)
    BY <2>1 DEF MirrorInv, CertificateMirrorsPolicy, Mirrors
  <2>3. CASE i = id
    BY <1>2, <1>4, <2>1, <2>3 DEF Mirrors, policy_exists
  <2>4. CASE i # id
    <3>1. i \in DOMAIN policies' /\ policies'[i].status = policies[i].status
      BY <1>2, <2>2, <2>4 DEF Mirrors, policy_exists
    <3> QED  BY <1>3, <2>1, <2>2, <2>4, <3>1, StaysMirrored
  <2> QED  BY <2>3, <2>4
<1>6. CertificateMirrorsPolicy'
  BY <1>5 DEF CertificateMirrorsPolicy, Mirrors
<1>7. Wired' /\ CertificatesReachable'
  BY <1>2, <1>3 DEF MirrorInv, Wired, CertificatesReachable
<1> QED  BY <1>6, <1>7 DEF MirrorInv

(* Every step keeps the mirror.                                            *)
LEMMA MirrorStep ==
    ASSUME NftAssumption, PmAssumption, OneCertificateContract, ManagerWired, OnlyManagerMints,
           PmTypeOK, NftTypeOK, MirrorInv, CoverStep
    PROVE  MirrorInv'
<1>1. CASE Elsewhere
  <2>1. TransferStep \/ Rewired \/ UNCHANGED nftVars
    <3>1. NoAccountManages
      BY ManagerWired, NftAssumption DEF ManagerWired, NoAccountManages, NftAssumption
    <3> QED  BY <1>1, <3>1, OnlyManagerMints DEF Elsewhere, CertificateStep, OnlyManagerMints
  <2>2. UNCHANGED certificates /\ Wired'
    BY <2>1, ManagerWired DEF TransferStep, Transferred, Rewired, certificateVars, nftVars,
                              MirrorInv, Wired, ManagerWired
  <2> QED  BY <1>1, <2>2, QuietMirror DEF Elsewhere, bookVars
<1>2. ASSUME NEW id, Sale(id)
      PROVE  MirrorInv'
  <2>1. UNCHANGED certificates /\ Wired' /\ policyNft' = policyNft
    BY <1>2 DEF Sale, nftVars, MirrorInv, Wired
  <2>2. \A i \in DOMAIN policies : i \in DOMAIN policies' /\ policies'[i] = policies[i]
    BY <1>2 DEF Sale, Sold
  <2> QED  BY <2>1, <2>2, QuietMirror
<1>3. ASSUME NEW id, Activation(id)
      PROVE  MirrorInv'
  BY <1>3, OneCertificateContract, ActivationMirror
<1>4. ASSUME NEW id, Ending(id)
      PROVE  MirrorInv'
  BY <1>4, OneCertificateContract, EndingMirror
<1> QED  BY <1>1, <1>2, <1>3, <1>4 DEF CoverStep

(* While set_policy_nft names one certificate contract, wired to the       *)
(* manager for good, and nobody else mints, a certificate is active        *)
(* exactly while its cover is: the swallowed refusals of                   *)
(* try_update_policy_status never leave a closed policy certified.         *)
THEOREM MirrorCorrect ==
    ASSUME OneCertificateContract, ManagerWired, OnlyManagerMints
    PROVE  BookSpec => []CertificateMirrorsPolicy
<1>1. BookInit => MirrorInv
  <2> SUFFICES ASSUME BookInit PROVE MirrorInv
    OBVIOUS
  <2>1. ASSUME NEW n \in Nfts
        PROVE  DOMAIN certificates[n] = {} /\ nftPolicyManager[n] = PM
    BY ManagerWired DEF BookInit, NftInit, ManagerWired
  <2> QED  BY <2>1 DEF MirrorInv, CertificateMirrorsPolicy, Wired, CertificatesReachable
<1>2. PmTypeOK /\ NftTypeOK /\ MirrorInv /\ [BookNext]_bookSpecVars => MirrorInv'
  BY OneCertificateContract, ManagerWired, OnlyManagerMints, HostAssumption, NftAssumption,
     PmAssumption, CoverSteps, MirrorStep
<1>3. (NftInv => NftTypeOK) /\ (MirrorInv => CertificateMirrorsPolicy)
  BY DEF NftInv, MirrorInv
<1> QED
  BY <1>1, <1>2, <1>3, BookTypeCorrect, ManagedCertificatesCorrect, PTL DEF BookSpec
=============================================================================
