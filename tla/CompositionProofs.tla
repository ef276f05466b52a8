-------------------------- MODULE CompositionProofs --------------------------
(***************************************************************************)
(* What each contract keeps on its own it keeps in the composed system of  *)
(* PayoutReceiver, where settlements close policies, clear certificates    *)
(* and record obligations in one transaction; and the cover the manager    *)
(* sells can always be paid.                                               *)
(***************************************************************************)
EXTENDS PayoutReceiverProofs

-----------------------------------------------------------------------------
(* The book.                                                               *)

(* A step of the system is a change of the manager's book, and only time   *)
(* passing alone moves the clock.                                          *)
LEMMA SystemBookSteps ==
    ASSUME PrAssumption, PmAssumption, SaAssumption, HostAssumption, SystemInv, [Next]_vars
    PROVE  /\ BookChange
           /\ now' \in {now, now + 1}
           /\ now' # now => UNCHANGED bookVars
<1>1. PmTypeOK
  BY DEF SystemInv, SystemTypeOK
<1>2. CASE now' = now /\ SettlementStep
  <2>1. \E id : Closed(id, "Claimed")
    BY <1>2 DEF SettlementStep, Settled
  <2> QED  BY <1>2, <2>1 DEF BookChange
<1>3. CASE OtherStep
  <2>1. [BookNext]_bookSpecVars
    BY <1>3 DEF OtherStep
  <2> QED  BY <1>1, <2>1, BookStepKinds, BookChanges
<1> QED  BY <1>2, <1>3, SystemInductive

(* The slot counters follow a settlement too: it closes one policy as an   *)
(* account's mark_as_claimed would.                                        *)
LEMMA SystemCounters ==
    ASSUME PrAssumption, PmAssumption, SaAssumption, HostAssumption,
           SystemInv, CountersMatchPolicies, [Next]_vars
    PROVE  CountersMatchPolicies'
<1>1. PmTypeOK /\ BookTypeOK
  BY DEF SystemInv, SystemTypeOK, PmTypeOK
<1>2. CASE SettlementStep
  <2>1. PICK r \in Receivers, id \in DOMAIN policies : mark_as_claimed(r, id)
    <3>1. PICK r, a, report, digest, oid :
              /\ r \in Receivers /\ a \in Adapters
              /\ Settled(r, a, report, digest, oid)
      BY <1>2 DEF SettlementStep
    <3>2. mark_as_claimed(r, report.policy_id) /\ report.policy_id \in DOMAIN policies
      BY <3>1 DEF Settled, Closed
    <3> QED  BY <3>1, <3>2
  <2> QED  BY <1>1, <2>1, ClaimCounters
<1>3. CASE OtherStep
  BY <1>1, <1>3, BookNextCounters DEF OtherStep
<1> QED  BY <1>2, <1>3, SystemInductive

BookExact == CountersMatchPolicies /\ ExposureInv /\ FarmerIndexExact

(* The storage LegacyInit inherits counts its one policy right.            *)
LEMMA LegacyExact ==
    ASSUME PrAssumption, LegacyInit
    PROVE  BookExact
<1>1. /\ LegacyPolicy \in Policy
      /\ LegacyPolicy.status = "Pending"
      /\ LegacyPolicy.farmer \in Farmers /\ LegacyPolicy.org \in Orgs
      /\ LegacyPolicy.sum_insured \in Nat
  BY DEF PrAssumption, Policy
<1>2. PICK f \in Farmers, o \in Orgs, sum \in Nat :
          f = LegacyPolicy.farmer /\ o = LegacyPolicy.org /\ sum = LegacyPolicy.sum_insured
  BY <1>1
<1>3. /\ DOMAIN policies = {1}
      /\ policies[1].status = "Pending"
      /\ policies[1].farmer = f /\ policies[1].org = o /\ policies[1].sum_insured = sum
  BY <1>1, <1>2 DEF LegacyInit
<1>4. /\ farmerPolicies = [x \in Farmers |-> IF x = f THEN <<1>> ELSE << >>]
      /\ farmerActiveCount = [x \in Farmers |-> 0]
      /\ farmerPendingCount = [x \in Farmers |-> IF x = f THEN 1 ELSE 0]
      /\ pendingCounted = {1}
      /\ orgOutstanding = [x \in Orgs |-> IF x = o THEN sum ELSE 0]
  BY <1>2 DEF LegacyInit
<1>5. CountersMatchPolicies
  <2>1. \A x \in Farmers : /\ PoliciesOf(x, "Active") = {}
                           /\ PoliciesOf(x, "Pending") = IF x = f THEN {1} ELSE {}
    BY <1>3 DEF PoliciesOf
  <2>2. Cardinality({}) = 0 /\ Cardinality({1}) = 1
    BY FS_EmptySet, FS_Singleton
  <2> QED  BY <1>3, <1>4, <2>1, <2>2 DEF CountersMatchPolicies
<1>6. ExposureInv
  <2>1. OpenPolicies = {1}
    BY <1>3 DEF OpenPolicies, OpenStatuses
  <2>2. \A x \in Orgs : OpenUnits(x) = IF x = o THEN PolicyUnits(1, sum) ELSE {}
    BY <1>3, <2>1 DEF OpenUnits, PolicyUnits
  <2>3. /\ IsFiniteSet(PolicyUnits(1, sum)) /\ Cardinality(PolicyUnits(1, sum)) = sum
        /\ IsFiniteSet({}) /\ Cardinality({}) = 0
    BY PolicyUnitsCount, FS_EmptySet
  <2> QED  BY <1>4, <2>2, <2>3 DEF ExposureInv, ExposureMatchesOpenPolicies, UnitsFinite
<1>7. FarmerIndexExact
  <2> SUFFICES ASSUME NEW x \in Farmers
               PROVE  Elements(farmerPolicies[x]) = IsFarmers(x) /\ InOrder(farmerPolicies[x])
    BY DEF FarmerIndexExact, IsFarmers, InOrder
  <2>1. IsFarmers(x) = IF x = f THEN {1} ELSE {}
    BY <1>3 DEF IsFarmers
  <2>2. /\ Elements(<<1>>) = {1} /\ Elements(<< >>) = {}
        /\ InOrder(<<1>>) /\ InOrder(<< >>)
    BY DEF Elements, InOrder
  <2> QED  BY <1>4, <2>1, <2>2
<1> QED  BY <1>5, <1>6, <1>7 DEF BookExact

(* Under settlements as under accounts, from an empty book as from an      *)
(* earlier build's: the slot counters, the orgs' exposure and the farmers' *)
(* index agree with the policies.                                          *)
THEOREM SystemBookCorrect == Spec \/ LegacySpec => []BookExact
<1>1. Init \/ LegacyInit => BookExact
  BY PrAssumption, LegacyExact, InitialCounters, ExposureInitial, IndexInitial
     DEF Init, BookExact
<1>2. SystemInv /\ BookExact /\ [Next]_vars => BookExact'
  <2> SUFFICES ASSUME SystemInv, BookExact, [Next]_vars PROVE BookExact'
    OBVIOUS
  <2>1. PmTypeOK /\ BookChange
    BY PrAssumption, PmAssumption, SaAssumption, HostAssumption, SystemBookSteps
       DEF SystemInv, SystemTypeOK
  <2>2. CountersMatchPolicies'
    BY PrAssumption, PmAssumption, SaAssumption, HostAssumption, SystemCounters DEF BookExact
  <2> QED  BY <2>1, <2>2, ExposureStep, IndexStep DEF BookExact
<1> QED  BY <1>1, <1>2, SystemCorrect, PTL DEF Spec, LegacySpec

(* The composed system implements the abstract lifecycle: a settlement is  *)
(* the abstract payment.                                                   *)
THEOREM SystemLifecycle == Spec => ImplementsLifecycle
<1>1. Init => Lifecycle!Init
  BY LifecycleInitial DEF Init
<1>2. SystemInv /\ SystemInv' /\ [Next]_vars => [Lifecycle!Next]_<<now, LifecycleOfPolicies>>
  <2> SUFFICES ASSUME SystemInv, SystemInv', [Next]_vars
               PROVE  [Lifecycle!Next]_<<now, LifecycleOfPolicies>>
    OBVIOUS
  <2>1. PmTypeOK /\ PmTypeOK' /\ StartsInThePast
    BY DEF SystemInv, SystemTypeOK
  <2>2. BookChange /\ now' \in {now, now + 1} /\ (now' # now => UNCHANGED bookVars)
    BY PrAssumption, PmAssumption, SaAssumption, HostAssumption, SystemBookSteps
  <2> QED  BY <2>1, <2>2, ChangeRefines
<1> QED  BY <1>1, <1>2, SystemCorrect, PTL DEF Spec, ImplementsLifecycle, Lifecycle!Spec

-----------------------------------------------------------------------------
(* The register.                                                           *)

(* The adapters of the composed system implement the abstract ledger: what *)
(* settlements record is never rewritten and attested once.                *)
THEOREM SystemLedger == Spec \/ LegacySpec => ImplementsLedger
<1>1. Init \/ LegacyInit => Ledger!Init
  <2> SUFFICES ASSUME Init \/ LegacyInit PROVE Ledger!Init
    OBVIOUS
  <2>1. \A a \in Adapters : DOMAIN obligationOf[a] = {}
    BY DEF Init, LegacyInit, SaInit
  <2>2. AllClaims = {}
    BY <2>1 DEF AllClaims
  <2> QED  BY <2>2 DEF Ledger!Init, LedgerOfObligations
<1>2. SystemInv /\ [Next]_vars => [Ledger!Next]_LedgerOfObligations
  <2> SUFFICES ASSUME SystemInv, [Next]_vars PROVE [Ledger!Next]_LedgerOfObligations
    OBVIOUS
  <2>1. RegisterInv
    BY DEF SystemInv, SystemTypeOK
  <2>2. SettlementStep \/ Quiet \/ MarkStep
    BY PrAssumption, PmAssumption, SaAssumption, HostAssumption, SystemInductive DEF OtherStep
  <2>3. CASE SettlementStep
    <3>1. PICK a, r, pid, org, amount, digest, oid :
              /\ a \in Adapters
              /\ Recorded(a, r, pid, org, amount, digest, oid)
      BY <2>3 DEF SettlementStep, Settled
    <3> QED  BY <2>1, <3>1, RecordRefines
  <2>4. CASE Quiet
    BY <2>4 DEF Quiet, recordVars, LedgerOfObligations, AllClaims, LedgerEntry, Attestation
  <2>5. CASE MarkStep
    BY <2>1, <2>5, HostAssumption, MarkRefines DEF MarkStep
  <2> QED  BY <2>2, <2>3, <2>4, <2>5
<1> QED  BY <1>1, <1>2, SystemCorrect, PTL DEF Spec, LegacySpec, ImplementsLedger, Ledger!Spec

-----------------------------------------------------------------------------
(* The certificates.                                                       *)

(* A settlement ends cover, like an account's closing.                     *)
LEMMA SystemCoverSteps ==
    ASSUME PrAssumption, PmAssumption, SaAssumption, HostAssumption, NftAssumption,
           SystemInv, NftTypeOK, [Next]_vars
    PROVE  CoverStep
<1>1. PmTypeOK
  BY DEF SystemInv, SystemTypeOK
<1>2. CASE SettlementStep
  <2>1. PICK r, a, report, digest, oid :
            /\ r \in Receivers /\ a \in Adapters
            /\ Settled(r, a, report, digest, oid)
    BY <1>2 DEF SettlementStep
  <2>2. mark_as_claimed(r, report.policy_id) /\ report.policy_id \in DOMAIN policies
    BY <2>1 DEF Settled, Closed
  <2>3. Ending(report.policy_id)
    BY <1>1, <2>2, CloseEnds
  <2> QED  BY <2>3 DEF CoverStep
<1>3. CASE OtherStep
  BY <1>1, <1>3, CoverSteps DEF OtherStep
<1> QED  BY <1>2, <1>3, SystemInductive

(* The certificate contracts keep their invariant under settlements.       *)
THEOREM SystemCertificates == Spec \/ LegacySpec => []NftInv
<1>1. Init \/ LegacyInit => NftInv
  BY NftAssumption, NftInitial DEF Init, LegacyInit
<1>2. SystemInv /\ NftInv /\ [Next]_vars => NftInv'
  <2> SUFFICES ASSUME SystemInv, NftInv, [Next]_vars PROVE NftInv'
    OBVIOUS
  <2>1. CoverStep
    BY PrAssumption, PmAssumption, SaAssumption, HostAssumption, NftAssumption,
       SystemCoverSteps DEF NftInv
  <2> QED  BY <2>1, CertificatesStep
<1> QED  BY <1>1, <1>2, SystemCorrect, PTL DEF Spec, LegacySpec

(* In the composed system no step moves an active certificate, rewrites a  *)
(* certificate's terms or removes one.                                     *)
THEOREM SystemSoulbound == Spec \/ LegacySpec => [][SoulboundStep]_vars
<1>1. SystemInv /\ NftInv /\ [Next]_vars => [SoulboundStep]_vars
  <2> SUFFICES ASSUME SystemInv, NftInv, [Next]_vars PROVE SoulboundStep
    OBVIOUS
  <2>1. CoverStep
    BY PrAssumption, PmAssumption, SaAssumption, HostAssumption, NftAssumption,
       SystemCoverSteps DEF NftInv
  <2>2. CASE UNCHANGED nftVars
    BY <2>2, StepSoulbound DEF Rewired, NftInv, NftTypeOK, nftVars, certificateVars
  <2> QED  BY <2>1, <2>2, CertificateKinds, StepSoulbound DEF NftInv
<1> QED  BY <1>1, SystemCorrect, SystemCertificates, PTL DEF Spec, LegacySpec

(* In the composed system too, cover in force is certified, as long as no  *)
(* account is wired as a manager of certificates.                          *)
THEOREM SystemCertified ==
    ASSUME NoAccountManages
    PROVE  Spec \/ LegacySpec => []ActiveCoverIsCertified
<1>1. Init \/ LegacyInit => ActiveCoverIsCertified
  <2> SUFFICES ASSUME Init \/ LegacyInit, NEW id \in DOMAIN policies
               PROVE  policies[id].status # "Active"
    BY DEF ActiveCoverIsCertified
  <2> QED  BY PrAssumption DEF Init, LegacyInit, PmInit, PrAssumption
<1>2. SystemInv /\ NftInv /\ ActiveCoverIsCertified /\ [Next]_vars => ActiveCoverIsCertified'
  <2> SUFFICES ASSUME SystemInv, NftInv, ActiveCoverIsCertified, [Next]_vars
               PROVE  ActiveCoverIsCertified'
    OBVIOUS
  <2>1. PmTypeOK /\ NftTypeOK
    BY DEF SystemInv, SystemTypeOK, NftInv
  <2>2. CoverStep
    BY <2>1, PrAssumption, PmAssumption, SaAssumption, HostAssumption, NftAssumption,
       SystemCoverSteps
  <2> QED  BY <2>1, <2>2, NoAccountManages, NftAssumption, CertifiedStep
<1> QED  BY <1>1, <1>2, SystemCorrect, SystemCertificates, PTL DEF Spec, LegacySpec

(* And a certificate is active exactly while its cover is, settled cover   *)
(* included, in a deployment with one certificate contract, wired to the   *)
(* manager for good, in which nobody else mints.                           *)
THEOREM SystemMirror ==
    ASSUME OneCertificateContract, ManagerWired, OnlyManagerMints
    PROVE  Spec \/ LegacySpec => []CertificateMirrorsPolicy
<1>1. Init \/ LegacyInit => MirrorInv
  <2> SUFFICES ASSUME Init \/ LegacyInit PROVE MirrorInv
    OBVIOUS
  <2>1. ASSUME NEW n \in Nfts
        PROVE  DOMAIN certificates[n] = {} /\ nftPolicyManager[n] = PM
    BY ManagerWired DEF Init, LegacyInit, NftInit, ManagerWired
  <2> QED  BY <2>1 DEF MirrorInv, CertificateMirrorsPolicy, Wired, CertificatesReachable
<1>2. SystemInv /\ NftInv /\ MirrorInv /\ [Next]_vars => MirrorInv'
  <2> SUFFICES ASSUME SystemInv, NftInv, MirrorInv, [Next]_vars
               PROVE  MirrorInv'
    OBVIOUS
  <2>1. PmTypeOK /\ NftTypeOK
    BY DEF SystemInv, SystemTypeOK, NftInv
  <2>2. CoverStep
    BY <2>1, PrAssumption, PmAssumption, SaAssumption, HostAssumption, NftAssumption,
       SystemCoverSteps
  <2> QED  BY <2>1, <2>2, OneCertificateContract, ManagerWired, OnlyManagerMints,
              NftAssumption, PmAssumption, MirrorStep
<1>3. MirrorInv => CertificateMirrorsPolicy
  BY DEF MirrorInv
<1> QED  BY <1>1, <1>2, <1>3, SystemCorrect, SystemCertificates, PTL DEF Spec, LegacySpec

-----------------------------------------------------------------------------
(* The list of claim times.                                                *)

(* The positions of the times in P.                                        *)
At(times, P) == {i \in DOMAIN times : times[i] \in P}

(* How many times increment_claim_count drops when it adds one.            *)
Dropped(times) ==
    IF Len(times) + 1 > MAX_CLAIMS_PER_FARMER_PER_YEAR
    THEN Len(times) + 1 - MAX_CLAIMS_PER_FARMER_PER_YEAR
    ELSE 0

(* The list after a claim at t: what is kept moves to the front.           *)
ShiftedList(times, t, new) ==
    LET n == Len(times)
        d == Dropped(times)
    IN
    /\ DOMAIN new = 1 .. n + 1 - d
    /\ \A i \in DOMAIN new : /\ i + d = n + 1 => new[i] = t
                             /\ i + d # n + 1 => new[i] = times[i + d]

(* What exceeds a limit of one or more is never more than what was there   *)
(* before the last one came.                                               *)
LEMMA Excess ==
    ASSUME NEW n \in Nat, NEW m \in Nat \ {0}
    PROVE  (IF n + 1 > m THEN n + 1 - m ELSE 0) \in 0 .. n
OBVIOUS

(* LatestClaims keeps the latest.                                          *)
LEMMA LatestClaimsList ==
    ASSUME PmAssumption, NEW times \in Seq(Nat), NEW t \in Nat,
           NEW new, new = LatestClaims(Append(times, t))
    PROVE  /\ Len(times) \in Nat /\ Dropped(times) \in 0 .. Len(times)
           /\ DOMAIN times = 1 .. Len(times)
           /\ new \in Seq(Nat)
           /\ ShiftedList(times, t, new)
<1> DEFINE n == Len(times)
           d == Dropped(times)
           longer == Append(times, t)
<1>1. /\ n \in Nat /\ DOMAIN times = 1 .. n
      /\ longer \in Seq(Nat) /\ Len(longer) = n + 1
      /\ longer[n + 1] = t /\ \A i \in 1 .. n : longer[i] = times[i]
  BY LenProperties, AppendProperties
<1>2. d \in 0 .. n /\ MAX_CLAIMS_PER_FARMER_PER_YEAR \in Nat \ {0}
  <2>1. MAX_CLAIMS_PER_FARMER_PER_YEAR \in Nat \ {0}
    BY DEF PmAssumption
  <2>2. Len(times) \in Nat
    BY <1>1
  <2> QED  BY <2>1, <2>2, Excess DEF Dropped
<1>3. new = SubSeq(longer, d + 1, n + 1)
  BY <1>1, <1>2 DEF LatestClaims, Dropped
<1> HIDE DEF longer, n, d
<1>4. \A i \in d + 1 .. n + 1 : longer[i] \in Nat
  BY <1>1, <1>2, ElementOfSeq
<1>5. d + 1 \in Int /\ n + 1 \in Int /\ d + 1 <= n + 1
  BY <1>1, <1>2
<1>6. /\ new \in Seq(Nat)
      /\ Len(new) = (n + 1) - (d + 1) + 1
      /\ \A i \in 1 .. (n + 1) - (d + 1) + 1 : new[i] = longer[(d + 1) + i - 1]
  BY <1>3, <1>4, <1>5, SubSeqProperties
<1>7. (n + 1) - (d + 1) + 1 = n + 1 - d
  BY <1>1, <1>2
<1>8. DOMAIN new = 1 .. n + 1 - d
  BY <1>6, <1>7, LenProperties
<1>9. ASSUME NEW i \in 1 .. n + 1 - d
      PROVE  /\ i + d = n + 1 => new[i] = t
             /\ i + d # n + 1 => new[i] = times[i + d]
  <2>1. new[i] = longer[i + d]
    <3>1. (d + 1) + i - 1 = i + d
      BY <1>1, <1>2
    <3> QED  BY <1>6, <1>7, <3>1
  <2>2. CASE i + d = n + 1
    BY <1>1, <2>1, <2>2
  <2>3. CASE i + d # n + 1
    <3>1. i + d \in 1 .. n
      BY <1>1, <1>2, <2>3
    <3> QED  BY <1>1, <2>1, <2>3, <3>1
  <2> QED  BY <2>2, <2>3
<1>10. ShiftedList(times, t, new)
  BY <1>8, <1>9 DEF ShiftedList, n, d
<1> QED  BY <1>1, <1>2, <1>6, <1>10 DEF n, d

(* A claim adds at most one time to any period; exactly one to a period it *)
(* falls into and none of whose times is dropped.                          *)
LEMMA LatestClaimsCount ==
    ASSUME PmAssumption, NEW times \in Seq(Nat), NEW t \in Nat, NEW P,
           NEW new, new = LatestClaims(Append(times, t))
    PROVE  /\ IsFiniteSet(At(times, P)) /\ IsFiniteSet(At(new, P))
           /\ Cardinality(At(new, P)) <= Cardinality(At(times, P)) + 1
           /\ t \in P /\ (\A i \in 1 .. Dropped(times) : times[i] \notin P) =>
                  Cardinality(At(new, P)) >= Cardinality(At(times, P)) + 1
<1>0. /\ Len(times) \in Nat /\ Dropped(times) \in 0 .. Len(times)
      /\ DOMAIN times = 1 .. Len(times)
      /\ new \in Seq(Nat)
      /\ ShiftedList(times, t, new)
  BY LatestClaimsList
<1> DEFINE n == Len(times)
           d == Dropped(times)
           A == At(times, P)
           B == At(new, P)
<1>1. /\ n \in Nat /\ d \in 0 .. n
      /\ DOMAIN times = 1 .. n
      /\ DOMAIN new = 1 .. n + 1 - d
      /\ \A i \in 1 .. n + 1 - d : /\ i + d = n + 1 => new[i] = t
                                   /\ i + d # n + 1 => new[i] = times[i + d]
  BY <1>0 DEF ShiftedList
<1>2. A \subseteq 1 .. n /\ B \subseteq 1 .. n + 1 - d
  BY <1>1 DEF At
<1>3. IsFiniteSet(A) /\ IsFiniteSet(B)
  <2>1. IsFiniteSet(1 .. n) /\ IsFiniteSet(1 .. n + 1 - d)
    BY <1>1, FS_Interval
  <2> QED  BY <1>2, <2>1, FS_Subset
<1>4. /\ IsFiniteSet(A \cup {n + 1})
      /\ Cardinality(A \cup {n + 1}) = Cardinality(A) + 1
  <2>1. n + 1 \notin A
    BY <1>1, <1>2
  <2> QED  BY <1>3, <2>1, FS_AddElement
<1> HIDE DEF n, d, A, B
<1>5. Cardinality(B) <= Cardinality(A) + 1
  <2> DEFINE f == [i \in B |-> i + d]
  <2>1. ASSUME NEW i \in B
        PROVE  i + d \in A \cup {n + 1}
    <3>1. i \in 1 .. n + 1 - d /\ new[i] \in P
      BY <1>1 DEF B, At
    <3>2. CASE i + d # n + 1
      <4>1. i + d \in 1 .. n /\ new[i] = times[i + d]
        <5>1. i + d \in 1 .. n
          BY <1>1, <3>1, <3>2
        <5> QED  BY <1>1, <3>1, <3>2, <5>1
      <4> QED  BY <1>1, <3>1, <4>1 DEF A, At
    <3> QED  BY <3>2
  <2>2. \A i, j \in B : i + d = j + d => i = j
    BY <1>1, <1>2
  <2>3. f \in Injection(B, A \cup {n + 1})
    BY <2>1, <2>2 DEF Injection, IsInjective
  <2>4. Cardinality(B) <= Cardinality(A \cup {n + 1})
    BY <1>4, <2>3, FS_Injection
  <2> QED  BY <1>4, <2>4
<1>6. ASSUME t \in P, \A i \in 1 .. d : times[i] \notin P
      PROVE  Cardinality(B) >= Cardinality(A) + 1
  <2> DEFINE f == [i \in A \cup {n + 1} |-> i - d]
  <2>1. ASSUME NEW i \in A \cup {n + 1}
        PROVE  i - d \in B
    <3>1. i \in d + 1 .. n + 1
      <4>1. CASE i \in A
        <5>1. i \in 1 .. n /\ times[i] \in P
          BY <1>1, <4>1 DEF A, At
        <5>2. i \notin 1 .. d
          BY <1>6, <5>1
        <5> QED  BY <1>1, <5>1, <5>2
      <4>2. CASE i = n + 1
        BY <1>1, <4>2
      <4> QED  BY <4>1, <4>2
    <3>2. i - d \in 1 .. n + 1 - d /\ (i - d) + d = i
      BY <1>1, <3>1
    <3>3. /\ i = n + 1 => new[i - d] = t
          /\ i # n + 1 => new[i - d] = times[i]
      BY <1>1, <3>2
    <3>4. new[i - d] \in P
      <4>1. CASE i \in A /\ i # n + 1
        BY <3>3, <4>1 DEF A, At
      <4> QED  BY <1>6, <3>3, <4>1
    <3> QED  BY <1>1, <3>2, <3>4 DEF B, At
  <2>2. \A i, j \in A \cup {n + 1} : i - d = j - d => i = j
    BY <1>1, <1>2
  <2>3. f \in Injection(A \cup {n + 1}, B)
    BY <2>1, <2>2 DEF Injection, IsInjective
  <2>4. Cardinality(A \cup {n + 1}) <= Cardinality(B)
    BY <1>3, <2>3, FS_Injection
  <2>5. Cardinality(A) \in Nat /\ Cardinality(B) \in Nat
    BY <1>3, FS_CardinalityType
  <2> QED  BY <1>4, <2>4, <2>5
<1> QED  BY <1>3, <1>5, <1>6 DEF A, B, d

(* The times that count against the cap now.                               *)
Fresh == {t \in Nat : now < t + CLAIM_WINDOW_SECS}

LEMMA FreshClaims ==
    ASSUME PmTypeOK, NEW f \in Farmers
    PROVE  /\ claims_in_window(f) = Cardinality(At(farmerClaimTimes[f], Fresh))
           /\ IsFiniteSet(At(farmerClaimTimes[f], Fresh))
           /\ claims_in_window(f) \in Nat
<1>1. farmerClaimTimes[f] \in Seq(Nat)
  BY DEF PmTypeOK
<1>2. PICK times \in Seq(Nat) : times = farmerClaimTimes[f]
  BY <1>1
<1>3. DOMAIN times = 1 .. Len(times) /\ Len(times) \in Nat
  BY LenProperties
<1>4. \A i \in DOMAIN times : times[i] \in Nat
  BY <1>3, ElementOfSeq
<1>5. At(times, Fresh) = {i \in DOMAIN times : now < times[i] + CLAIM_WINDOW_SECS}
  BY <1>4 DEF At, Fresh
<1>6. IsFiniteSet(At(times, Fresh))
  <2>1. IsFiniteSet(1 .. Len(times)) /\ At(times, Fresh) \subseteq 1 .. Len(times)
    BY <1>3, FS_Interval DEF At
  <2> QED  BY <2>1, FS_Subset
<1> QED  BY <1>2, <1>5, <1>6, FS_CardinalityType DEF claims_in_window

-----------------------------------------------------------------------------
(* Sold cover can pay (audit finding 3).                                   *)

(* The two caps of policy-manager/src/lib.rs:69 and :71 are both 3.        *)
CapsAgree == MAX_ACTIVE_POLICIES_PER_FARMER \in 1 .. MAX_CLAIMS_PER_FARMER_PER_YEAR

Committed(f) == OpenCount(f) + claims_in_window(f)

WithinCap == \A f \in Farmers : Committed(f) <= MAX_ACTIVE_POLICIES_PER_FARMER

(* The numbers a farmer's commitment adds up.                              *)
LEMMA CommittedType ==
    ASSUME PmTypeOK, NEW f \in Farmers
    PROVE  /\ farmerActiveCount[f] \in Nat /\ farmerPendingCount[f] \in Nat
           /\ OpenCount(f) \in Nat /\ claims_in_window(f) \in Nat
<1>1. farmerActiveCount[f] \in Nat /\ farmerPendingCount[f] \in Nat
  BY DEF PmTypeOK, BookTypeOK
<1> QED  BY <1>1, FreshClaims DEF OpenCount

(* An open policy holds a slot, so releasing it frees one.                 *)
LEMMA HeldSlot ==
    ASSUME PmTypeOK, CountersMatchPolicies, NEW id \in DOMAIN policies,
           NEW f \in Farmers, f = policies[id].farmer
    PROVE  /\ policies[id].status = "Active" => farmerActiveCount[f] > 0
           /\ policies[id].status = "Pending" =>
                  farmerPendingCount[f] > 0 /\ id \in pendingCounted
<1>1. ASSUME NEW s, policies[id].status = s
      PROVE  Cardinality(PoliciesOf(f, s)) > 0
  <2>1. id \in PoliciesOf(f, s)
    BY <1>1 DEF PoliciesOf
  <2>2. IsFiniteSet(PoliciesOf(f, s)) /\ Cardinality(PoliciesOf(f, s)) \in Nat
    BY PoliciesOfFinite DEF PmTypeOK
  <2>3. Cardinality(PoliciesOf(f, s)) # 0
    BY <2>1, <2>2, FS_EmptySet
  <2> QED  BY <2>2, <2>3
<1> QED  BY <1>1 DEF CountersMatchPolicies

(* What a step of an account does to a farmer's slots: a sale takes one,   *)
(* if there is one to take; no other step does.                            *)
LEMMA AccountSlots ==
    ASSUME PmAssumption, PmTypeOK, CountersMatchPolicies, ~AccountOracle,
           [BookNext]_bookSpecVars, NEW f \in Farmers
    PROVE  /\ UNCHANGED farmerClaimTimes
           /\ \/ OpenCount(f)' <= OpenCount(f)
              \/ /\ now' = now
                 /\ OpenCount(f)' = OpenCount(f) + 1
                 /\ Committed(f) < MAX_ACTIVE_POLICIES_PER_FARMER
<1>0. /\ farmerActiveCount \in [Farmers -> Nat]
      /\ farmerPendingCount \in [Farmers -> Nat]
      /\ \A id \in DOMAIN policies : policies[id] \in Policy /\ policies[id].farmer \in Farmers
  BY DEF PmTypeOK, BookTypeOK, Policy
<1>1. CASE UNCHANGED <<farmerActiveCount, farmerPendingCount, farmerClaimTimes>>
  <2>1. OpenCount(f)' = OpenCount(f) /\ OpenCount(f) \in Nat
    BY <1>1, CommittedType DEF OpenCount
  <2> QED  BY <1>1, <2>1
<1>2. ASSUME NEW caller, NEW r \in SaleRequests, create_policy(caller, r), now' = now
      PROVE  /\ UNCHANGED farmerClaimTimes
             /\ \/ OpenCount(f)' <= OpenCount(f)
                \/ /\ now' = now
                   /\ OpenCount(f)' = OpenCount(f) + 1
                   /\ Committed(f) < MAX_ACTIVE_POLICIES_PER_FARMER
  <2>1. /\ OpenCount(r.farmer) + claims_in_window(r.farmer) < MAX_ACTIVE_POLICIES_PER_FARMER
        /\ farmerPendingCount' = [farmerPendingCount EXCEPT ![r.farmer] = @ + 1]
        /\ UNCHANGED <<farmerActiveCount, farmerClaimTimes>>
    BY <1>2 DEF create_policy
  <2>2. CASE f = r.farmer
    BY <1>0, <1>2, <2>1, <2>2 DEF OpenCount, Committed
  <2>3. CASE f # r.farmer
    BY <1>0, <2>1, <2>3 DEF OpenCount
  <2> QED  BY <2>2, <2>3
<1>3. ASSUME NEW caller, NEW d, NEW id \in DOMAIN policies, activate_policy(caller, id, d)
      PROVE  UNCHANGED farmerClaimTimes /\ OpenCount(f)' <= OpenCount(f)
  <2>1. PICK g \in Farmers : g = policies[id].farmer
    BY <1>0
  <2>2. Activated(policies[id]).farmer = g
    BY <1>0, <2>1 DEF Activated, Policy
  <2>3. /\ policies[id].status = "Pending"
        /\ farmerActiveCount' = [farmerActiveCount EXCEPT ![g] = @ + 1]
        /\ release_pending_slot(id, g)
        /\ UNCHANGED farmerClaimTimes
    BY <1>3, <2>2 DEF activate_policy
  <2>4. farmerPendingCount[g] > 0 /\ id \in pendingCounted
    BY <2>1, <2>3, HeldSlot
  <2>5. farmerPendingCount' = [farmerPendingCount EXCEPT ![g] = @ - 1]
    BY <2>3, <2>4 DEF release_pending_slot
  <2>6. farmerPendingCount[f] \in Nat /\ farmerActiveCount[f] \in Nat
    BY <1>0
  <2>7. farmerPendingCount'[f] = IF f = g THEN farmerPendingCount[f] - 1 ELSE farmerPendingCount[f]
    BY <1>0, <2>5
  <2>8. farmerActiveCount'[f] = IF f = g THEN farmerActiveCount[f] + 1 ELSE farmerActiveCount[f]
    BY <1>0, <2>3
  <2> QED  BY <2>3, <2>6, <2>7, <2>8 DEF OpenCount
<1>4. ASSUME NEW id \in DOMAIN policies, NEW status, Close(id, status)
      PROVE  UNCHANGED farmerClaimTimes /\ OpenCount(f)' <= OpenCount(f)
  <2>1. PICK g \in Farmers : g = policies[id].farmer
    BY <1>0
  <2>2. /\ decrement_active(g) \/ UNCHANGED farmerActiveCount
        /\ release_pending_slot(id, g) \/ UNCHANGED farmerPendingCount
        /\ UNCHANGED farmerClaimTimes
    BY <1>4, <2>1 DEF Close
  <2>3. farmerActiveCount'[f] <= farmerActiveCount[f] /\ farmerActiveCount'[f] \in Nat
    BY <1>0, <2>2 DEF decrement_active
  <2>4. farmerPendingCount'[f] <= farmerPendingCount[f] /\ farmerPendingCount'[f] \in Nat
    BY <1>0, <2>2 DEF release_pending_slot
  <2>5. farmerPendingCount[f] \in Nat /\ farmerActiveCount[f] \in Nat
    BY <1>0
  <2> QED  BY <2>2, <2>3, <2>4, <2>5 DEF OpenCount
<1>5. CASE PmStep /\ UNCHANGED now
  <2>1. PICK caller \in Accounts :
            \/ \E r \in SaleRequests : create_policy(caller, r)
            \/ \E id \in DOMAIN policies :
                  \/ \E d \in Distributors : activate_policy(caller, id, d)
                  \/ mark_as_claimed(caller, id)
                  \/ cancel_policy(caller, id)
                  \/ expire_policy(id)
            \/ \E g \in Farmers : increment_claim_count(caller, g)
            \/ UNCHANGED <<bookVars, farmerClaimTimes>>
    BY <1>5 DEF PmStep, set_policy_nft, pm_grant_role, pm_revoke_role
  <2>2. \A id : ~mark_as_claimed(caller, id)
    BY DEF mark_as_claimed, AccountOracle
  <2>3. \A g : ~increment_claim_count(caller, g)
    BY DEF increment_claim_count, AccountOracle
  <2>4. UNCHANGED <<bookVars, farmerClaimTimes>> =>
            UNCHANGED <<farmerActiveCount, farmerPendingCount, farmerClaimTimes>>
    BY DEF bookVars
  <2> QED  BY <1>1, <1>2, <1>3, <1>4, <1>5, <2>1, <2>2, <2>3, <2>4 DEF cancel_policy, expire_policy
<1>6. CASE UNCHANGED pmVars
  BY <1>1, <1>6 DEF pmVars, bookVars
<1> QED  BY <1>5, <1>6 DEF BookNext, bookSpecVars

(* Time only takes claims out of the window.                               *)
LEMMA ClaimsAge ==
    ASSUME PmTypeOK, PmTypeOK', now <= now', UNCHANGED farmerClaimTimes,
           CLAIM_WINDOW_SECS \in Nat, NEW f \in Farmers
    PROVE  claims_in_window(f)' \in Nat /\ claims_in_window(f)' <= claims_in_window(f)
<1>1. PICK times \in Seq(Nat) : times = farmerClaimTimes[f]
  BY DEF PmTypeOK
<1>2. DOMAIN times = 1 .. Len(times) /\ Len(times) \in Nat
  BY LenProperties
<1>3. \A i \in DOMAIN times : times[i] \in Nat
  BY <1>2, ElementOfSeq
<1>4. now \in Nat /\ now' \in Nat
  BY DEF PmTypeOK, BookTypeOK
<1> DEFINE A == {i \in DOMAIN times : now < times[i] + CLAIM_WINDOW_SECS}
           B == {i \in DOMAIN times : now' < times[i] + CLAIM_WINDOW_SECS}
<1>5. B \subseteq A
  BY <1>3, <1>4
<1>6. IsFiniteSet(A)
  <2>1. IsFiniteSet(1 .. Len(times))
    BY <1>2, FS_Interval
  <2> QED  BY <1>2, <2>1, FS_Subset
<1>7. Cardinality(B) \in Nat /\ Cardinality(B) <= Cardinality(A)
  BY <1>5, <1>6, FS_Subset, FS_CardinalityType
<1> QED  BY <1>1, <1>7 DEF claims_in_window

(* increment_claim_count adds at most one claim to the window.             *)
LEMMA ClaimsGrow ==
    ASSUME PmAssumption, PmTypeOK, now' = now, NEW caller, NEW g \in Farmers,
           increment_claim_count(caller, g), NEW f \in Farmers
    PROVE  /\ claims_in_window(f)' \in Nat
           /\ claims_in_window(f)' <= claims_in_window(f) + (IF f = g THEN 1 ELSE 0)
<1>1. /\ farmerClaimTimes \in [Farmers -> Seq(Nat)] /\ now \in Nat
      /\ farmerClaimTimes' =
             [farmerClaimTimes EXCEPT ![g] = LatestClaims(Append(farmerClaimTimes[g], now))]
  BY DEF PmTypeOK, BookTypeOK, increment_claim_count
<1>2. PICK times, new : /\ times \in Seq(Nat) /\ times = farmerClaimTimes[f]
                        /\ new = farmerClaimTimes'[f]
  BY <1>1
<1>3. CASE f # g
  <2>1. farmerClaimTimes'[f] = farmerClaimTimes[f]
    BY <1>1, <1>3
  <2>2. claims_in_window(f)' = claims_in_window(f)
    BY <2>1 DEF claims_in_window
  <2> QED  BY <1>3, <2>2, FreshClaims
<1>4. CASE f = g
  <2>1. new = LatestClaims(Append(times, now))
    BY <1>1, <1>2, <1>4
  <2>2. /\ Cardinality(At(new, Fresh)) \in Nat
        /\ Cardinality(At(new, Fresh)) <= Cardinality(At(times, Fresh)) + 1
    BY <1>1, <1>2, <2>1, LatestClaimsCount, FS_CardinalityType
  <2>3. new \in Seq(Nat)
    BY <1>1, <1>2, <2>1, LatestClaimsList
  <2>4. At(new, Fresh) = {i \in DOMAIN new : now < new[i] + CLAIM_WINDOW_SECS}
    <3>1. \A i \in DOMAIN new : new[i] \in Nat
      BY <2>3, ElementOfSeq, LenProperties
    <3> QED  BY <3>1 DEF At, Fresh
  <2>5. claims_in_window(f)' = Cardinality(At(new, Fresh))
    BY <1>2, <2>4 DEF claims_in_window
  <2>6. claims_in_window(f) = Cardinality(At(times, Fresh))
    BY <1>2, FreshClaims
  <2> QED  BY <1>4, <2>2, <2>5, <2>6
<1> QED  BY <1>3, <1>4

(* A settlement turns a held slot into a claim.                            *)
LEMMA SettledSlots ==
    ASSUME PmAssumption, PmTypeOK, CountersMatchPolicies, SettlementStep, now' = now,
           NEW f \in Farmers
    PROVE  Committed(f)' \in Int /\ Committed(f)' <= Committed(f)
<1>1. PICK r \in Receivers, id \in DOMAIN policies :
          mark_as_claimed(r, id) /\ increment_claim_count(r, policies[id].farmer)
  <2>1. PICK r, a, report, digest, oid :
            /\ r \in Receivers /\ a \in Adapters
            /\ Settled(r, a, report, digest, oid)
    BY DEF SettlementStep
  <2>2. /\ mark_as_claimed(r, report.policy_id)
        /\ increment_claim_count(r, policies[report.policy_id].farmer)
        /\ report.policy_id \in DOMAIN policies
    BY <2>1 DEF Settled, Closed
  <2> QED  BY <2>1, <2>2
<1>2. PICK g \in Farmers : g = policies[id].farmer
  BY DEF PmTypeOK, BookTypeOK, Policy
<1>3. /\ decrement_active(g)
      /\ UNCHANGED farmerPendingCount
      /\ policies[id].status = "Active"
      /\ increment_claim_count(r, g)
  BY <1>1, <1>2 DEF mark_as_claimed, is_policy_active
<1>4. farmerActiveCount[g] > 0 /\ farmerActiveCount \in [Farmers -> Nat]
  BY <1>2, <1>3, HeldSlot DEF PmTypeOK, BookTypeOK
<1>5. farmerActiveCount'[f] = IF f = g THEN farmerActiveCount[f] - 1 ELSE farmerActiveCount[f]
  BY <1>3, <1>4 DEF decrement_active
<1>6. /\ claims_in_window(f)' \in Nat
      /\ claims_in_window(f)' <= claims_in_window(f) + (IF f = g THEN 1 ELSE 0)
  BY <1>3, ClaimsGrow
<1>7. /\ farmerActiveCount[f] \in Nat /\ farmerPendingCount[f] \in Nat
      /\ claims_in_window(f) \in Nat
  BY CommittedType
<1>8. farmerPendingCount'[f] = farmerPendingCount[f]
  BY <1>3
<1> QED  BY <1>5, <1>6, <1>7, <1>8 DEF Committed, OpenCount

(* A farmer's open policies and the claims still in the window never       *)
(* exceed the cap, so whoever paid a premium can still be paid: the claim  *)
(* limit turns away no policy that was sold (create_policy, can_farmer_    *)
(* claim), as long as only contracts report claims.                        *)
THEOREM SoldCoverPays ==
    ASSUME OnlyContractsAreOracles, CapsAgree
    PROVE  Spec \/ LegacySpec => []SoldCoverCanPay
<1>1. Init \/ LegacyInit => WithinCap
  <2> SUFFICES ASSUME Init \/ LegacyInit, NEW f \in Farmers
               PROVE  Committed(f) <= MAX_ACTIVE_POLICIES_PER_FARMER
    BY DEF WithinCap
  <2>1. farmerActiveCount[f] = 0 /\ farmerPendingCount[f] \in {0, 1}
    BY DEF Init, LegacyInit, PmInit
  <2>2. farmerClaimTimes[f] = << >>
    BY DEF Init, LegacyInit, PmInit
  <2>3. claims_in_window(f) = 0
    BY <2>2, FS_EmptySet DEF claims_in_window
  <2> QED  BY <2>1, <2>3, CapsAgree, PmAssumption DEF Committed, OpenCount, CapsAgree, PmAssumption
<1>2. /\ SystemInv /\ SystemInv' /\ CountersMatchPolicies /\ ~AccountOracle
      /\ WithinCap /\ [Next]_vars
      => WithinCap'
  <2> SUFFICES ASSUME SystemInv, SystemInv', CountersMatchPolicies, ~AccountOracle,
                      WithinCap, [Next]_vars, NEW f \in Farmers
               PROVE  Committed(f)' <= MAX_ACTIVE_POLICIES_PER_FARMER
    BY DEF WithinCap
  <2>1. PmTypeOK /\ PmTypeOK'
    BY DEF SystemInv, SystemTypeOK
  <2>2. Committed(f) <= MAX_ACTIVE_POLICIES_PER_FARMER /\ MAX_ACTIVE_POLICIES_PER_FARMER \in Nat
    BY PmAssumption DEF WithinCap, PmAssumption
  <2>3. OpenCount(f) \in Nat /\ claims_in_window(f) \in Nat
    BY <2>1, CommittedType
  <2>4. OpenCount(f)' \in Nat
    BY <2>1 DEF OpenCount, PmTypeOK, BookTypeOK
  <2>5. CASE now' = now /\ SettlementStep
    <3>1. Committed(f)' \in Int /\ Committed(f)' <= Committed(f)
      BY <2>1, <2>5, PmAssumption, SettledSlots
    <3> QED  BY <2>2, <2>3, <3>1 DEF Committed
  <2>6. CASE OtherStep
    <3>1. [BookNext]_bookSpecVars /\ now <= now'
      BY <2>1, <2>6 DEF OtherStep, PmTypeOK, BookTypeOK
    <3>2. /\ UNCHANGED farmerClaimTimes
          /\ \/ OpenCount(f)' <= OpenCount(f)
             \/ /\ now' = now
                /\ OpenCount(f)' = OpenCount(f) + 1
                /\ Committed(f) < MAX_ACTIVE_POLICIES_PER_FARMER
      BY <2>1, <3>1, PmAssumption, AccountSlots
    <3>3. CLAIM_WINDOW_SECS \in Nat
      BY PmAssumption DEF PmAssumption
    <3>4. claims_in_window(f)' \in Nat /\ claims_in_window(f)' <= claims_in_window(f)
      BY <2>1, <3>1, <3>2, <3>3, ClaimsAge
    <3> QED  BY <2>2, <2>3, <2>4, <3>2, <3>4 DEF Committed
  <2> QED
    BY <2>5, <2>6, PrAssumption, PmAssumption, SaAssumption, HostAssumption, SystemInductive
<1>3. SystemInv /\ WithinCap => SoldCoverCanPay
  <2> SUFFICES ASSUME SystemInv, WithinCap, NEW f \in Farmers
               PROVE  /\ OpenCount(f) + claims_in_window(f) <= MAX_ACTIVE_POLICIES_PER_FARMER
                      /\ OpenCount(f) > 0 => can_farmer_claim(f)
    BY DEF SoldCoverCanPay, OpenCount
  <2>1. OpenCount(f) + claims_in_window(f) <= MAX_ACTIVE_POLICIES_PER_FARMER
    BY DEF WithinCap, Committed
  <2>2. OpenCount(f) \in Nat /\ claims_in_window(f) \in Nat
    BY CommittedType DEF SystemInv, SystemTypeOK
  <2> QED  BY <2>1, <2>2, CapsAgree, PmAssumption DEF CapsAgree, PmAssumption, can_farmer_claim
<1>4. BookExact => CountersMatchPolicies
  BY DEF BookExact
<1> QED
  BY <1>1, <1>2, <1>3, <1>4, SystemCorrect, SystemBookCorrect, NoAccountOracle, PTL
     DEF Spec, LegacySpec

-----------------------------------------------------------------------------
(* The rolling cap: the list of claim times is short, yet no farmer is     *)
(* owed for more than the cap in any window.                               *)

From(t) == {u \in Nat : u >= t}

(* A list of claim times is in order and ends no later than t.             *)
Chronicle(times, t) ==
    /\ \A i \in DOMAIN times : times[i] <= t
    /\ \A i, j \in DOMAIN times : i <= j => times[i] <= times[j]

(* It stays one when a claim is added now.                                 *)
LEMMA ChronicleGrows ==
    ASSUME PmAssumption, NEW times \in Seq(Nat), NEW t \in Nat, Chronicle(times, t),
           NEW new, new = LatestClaims(Append(times, t))
    PROVE  Chronicle(new, t)
<1>1. /\ Len(times) \in Nat /\ Dropped(times) \in 0 .. Len(times)
      /\ DOMAIN times = 1 .. Len(times)
      /\ ShiftedList(times, t, new)
  BY LatestClaimsList
<1> DEFINE n == Len(times)
           d == Dropped(times)
<1>2. /\ DOMAIN new = 1 .. n + 1 - d
      /\ \A i \in 1 .. n + 1 - d : /\ i + d = n + 1 => new[i] = t
                                   /\ i + d # n + 1 => new[i] = times[i + d]
  BY <1>1 DEF ShiftedList
<1>3. n \in Nat /\ d \in 0 .. n /\ DOMAIN times = 1 .. n
  BY <1>1
<1> HIDE DEF n, d
<1>4. ASSUME NEW i \in 1 .. n + 1 - d
      PROVE  /\ i + d \in 1 .. n + 1
             /\ i + d # n + 1 => i + d \in DOMAIN times
  BY <1>3
<1>5. \A i \in 1 .. n + 1 - d : new[i] <= t
  BY <1>2, <1>4 DEF Chronicle
<1>6. ASSUME NEW i \in 1 .. n + 1 - d, NEW j \in 1 .. n + 1 - d, i <= j
      PROVE  new[i] <= new[j]
  <2>1. CASE j + d = n + 1
    BY <1>2, <1>5, <2>1
  <2>2. CASE j + d # n + 1
    <3>1. i + d # n + 1 /\ i + d <= j + d
      BY <1>3, <1>4, <1>6, <2>2
    <3>2. /\ new[i] = times[i + d] /\ new[j] = times[j + d]
          /\ i + d \in DOMAIN times /\ j + d \in DOMAIN times
      BY <1>2, <1>4, <2>2, <3>1
    <3> QED  BY <3>1, <3>2 DEF Chronicle
  <2> QED  BY <2>1, <2>2
<1> QED  BY <1>2, <1>5, <1>6 DEF Chronicle

(* What is later than a time still in the window is in the window.         *)
LEMMA LaterInWindow ==
    ASSUME NEW n \in Nat, NEW i \in Nat, NEW j \in Nat, NEW w \in Nat, n < i + w, i <= j
    PROVE  n < j + w
OBVIOUS

(* While the farmer may claim, what a claim drops is out of the window: a  *)
(* time still in it would put every later one in it as well, and those     *)
(* alone are as many as the cap.                                           *)
LEMMA DroppedAreOld ==
    ASSUME PmAssumption, now \in Nat, NEW times \in Seq(Nat), NEW t, Chronicle(times, t),
           IsFiniteSet(At(times, Fresh)),
           Cardinality(At(times, Fresh)) < MAX_CLAIMS_PER_FARMER_PER_YEAR,
           NEW i \in 1 .. Dropped(times)
    PROVE  times[i] \notin Fresh
<1> SUFFICES ASSUME times[i] \in Fresh PROVE FALSE
  OBVIOUS
<1> DEFINE n == Len(times)
<1>1. /\ n \in Nat /\ DOMAIN times = 1 .. n
      /\ \A j \in 1 .. n : times[j] \in Nat
  BY LenProperties, ElementOfSeq
<1>2. /\ MAX_CLAIMS_PER_FARMER_PER_YEAR \in Nat \ {0} /\ CLAIM_WINDOW_SECS \in Nat
  BY DEF PmAssumption
<1>3. Dropped(times) = IF n + 1 > MAX_CLAIMS_PER_FARMER_PER_YEAR
                       THEN n + 1 - MAX_CLAIMS_PER_FARMER_PER_YEAR
                       ELSE 0
  BY DEF Dropped
<1> HIDE DEF n
<1>4. i \in 1 .. n /\ i <= n + 1 - MAX_CLAIMS_PER_FARMER_PER_YEAR
  BY <1>1, <1>2, <1>3
<1>5. i .. n \subseteq At(times, Fresh)
  <2> SUFFICES ASSUME NEW j \in i .. n PROVE j \in At(times, Fresh)
    OBVIOUS
  <2>1. j \in 1 .. n /\ i <= j
    BY <1>1, <1>4
  <2>2. times[i] <= times[j] /\ times[i] \in Nat /\ times[j] \in Nat
    BY <1>1, <1>4, <2>1 DEF Chronicle
  <2>3. now < times[i] + CLAIM_WINDOW_SECS
    BY DEF Fresh
  <2>4. now < times[j] + CLAIM_WINDOW_SECS
    BY <1>2, <2>2, <2>3, LaterInWindow
  <2> QED  BY <1>1, <2>1, <2>2, <2>4 DEF At, Fresh
<1>6. /\ IsFiniteSet(i .. n) /\ Cardinality(i .. n) = n - i + 1
      /\ Cardinality(i .. n) <= Cardinality(At(times, Fresh))
      /\ Cardinality(At(times, Fresh)) \in Nat
  <2>1. IsFiniteSet(i .. n) /\ Cardinality(i .. n) = IF i > n THEN 0 ELSE n - i + 1
    BY <1>1, <1>4, FS_Interval
  <2>2. Cardinality(i .. n) <= Cardinality(At(times, Fresh))
    BY <1>5, FS_Subset
  <2> QED  BY <1>1, <1>4, <2>1, <2>2, FS_CardinalityType
<1> QED  BY <1>1, <1>2, <1>4, <1>6

(* What a claim of g leaves in the lists, of the times from t on.          *)
LEMMA ListAfterClaim ==
    ASSUME PmAssumption, PmTypeOK, NEW g \in Farmers, NEW caller,
           increment_claim_count(caller, g), Chronicle(farmerClaimTimes[g], now),
           NEW f \in Farmers, NEW t \in Nat
    PROVE  /\ Chronicle(farmerClaimTimes[f], now) => Chronicle(farmerClaimTimes'[f], now)
           /\ Cardinality(At(farmerClaimTimes[f], From(t))) \in Nat
           /\ Cardinality(At(farmerClaimTimes'[f], From(t))) \in Nat
           /\ f # g => farmerClaimTimes'[f] = farmerClaimTimes[f]
           /\ f = g /\ t <= now /\ t + CLAIM_WINDOW_SECS > now
                  => Cardinality(At(farmerClaimTimes'[f], From(t)))
                         >= Cardinality(At(farmerClaimTimes[f], From(t))) + 1
<1>1. /\ farmerClaimTimes \in [Farmers -> Seq(Nat)] /\ now \in Nat
      /\ farmerClaimTimes' =
             [farmerClaimTimes EXCEPT ![g] = LatestClaims(Append(farmerClaimTimes[g], now))]
      /\ claims_in_window(g) < MAX_CLAIMS_PER_FARMER_PER_YEAR
  BY DEF PmTypeOK, BookTypeOK, increment_claim_count, can_farmer_claim
<1>2. \A times \in Seq(Nat) : Cardinality(At(times, From(t))) \in Nat
  BY <1>1, LatestClaimsCount, FS_CardinalityType
<1>3. CASE f # g
  <2>1. farmerClaimTimes'[f] = farmerClaimTimes[f]
    BY <1>1, <1>3
  <2> QED  BY <1>1, <1>2, <1>3, <2>1
<1>4. CASE f = g
  <2>1. PICK times, new : /\ times \in Seq(Nat) /\ times = farmerClaimTimes[f]
                          /\ new = farmerClaimTimes'[f]
    BY <1>1
  <2>2. new = LatestClaims(Append(times, now)) /\ Chronicle(times, now)
    BY <1>1, <1>4, <2>1
  <2>3. Chronicle(new, now) /\ new \in Seq(Nat)
    BY <1>1, <2>1, <2>2, ChronicleGrows, LatestClaimsList
  <2>4. ASSUME t <= now, t + CLAIM_WINDOW_SECS > now
        PROVE  Cardinality(At(new, From(t))) >= Cardinality(At(times, From(t))) + 1
    <3>1. /\ IsFiniteSet(At(times, Fresh))
          /\ Cardinality(At(times, Fresh)) < MAX_CLAIMS_PER_FARMER_PER_YEAR
      BY <1>1, <1>4, <2>1, FreshClaims
    <3>2. \A i \in 1 .. Dropped(times) : times[i] \notin Fresh
      BY <1>1, <2>1, <2>2, <3>1, DroppedAreOld
    <3>3. From(t) \subseteq Fresh /\ now \in From(t)
      BY <1>1, <2>4, PmAssumption DEF From, Fresh, PmAssumption
    <3> QED  BY <1>1, <2>1, <2>2, <3>2, <3>3, LatestClaimsCount
  <2> QED  BY <1>2, <1>4, <2>1, <2>3, <2>4
<1> QED  BY <1>3, <1>4

(* The times from t on count against the cap while t is in the window.     *)
LEMMA ListInWindow ==
    ASSUME PmAssumption, PmTypeOK, NEW f \in Farmers, NEW t \in Nat, t + CLAIM_WINDOW_SECS > now
    PROVE  Cardinality(At(farmerClaimTimes[f], From(t))) <= claims_in_window(f)
<1>1. now \in Nat /\ CLAIM_WINDOW_SECS \in Nat
  BY DEF PmTypeOK, BookTypeOK, PmAssumption
<1>2. At(farmerClaimTimes[f], From(t)) \subseteq At(farmerClaimTimes[f], Fresh)
  BY <1>1 DEF At, From, Fresh
<1> QED  BY <1>2, FreshClaims, FS_Subset

(* The debts to a farmer recorded at the times in P.                       *)
DebtsOf(f, P) ==
    {x \in AllObligations : policies[Debt(x).policy_id].farmer = f /\ Debt(x).recorded_at \in P}

FiniteDebts == IsFiniteSet(AllObligations)

LEMMA DebtsCount ==
    ASSUME FiniteDebts, NEW f, NEW P
    PROVE  IsFiniteSet(DebtsOf(f, P)) /\ Cardinality(DebtsOf(f, P)) \in Nat
<1>1. DebtsOf(f, P) \subseteq AllObligations
  BY DEF DebtsOf
<1> QED  BY <1>1, FS_Subset, FS_CardinalityType DEF FiniteDebts

(* The policy of a debt, and when the debt was recorded.                   *)
LEMMA DebtParts ==
    ASSUME SystemInv, NEW x \in AllObligations
    PROVE  Debt(x).policy_id \in DOMAIN policies /\ Debt(x).recorded_at \in 0 .. now
<1>1. x[1] \in Adapters /\ x[2] \in DOMAIN obligations[x[1]]
  BY ObligationParts
<1>2. ObligationOK(Debt(x))
  BY <1>1 DEF Debt, SystemInv, SystemTypeOK, RegisterInv, SaTypeOK
<1>3. /\ Debt(x).payout_receiver \in Receivers
      /\ Debt(x).recorded_at \in 0 .. now
  BY <1>2 DEF ObligationOK
<1> QED  BY <1>3 DEF SystemInv, SystemTypeOK, PaidTypeOK, DebtsArePaid

(* No step gives a policy to another farmer.                               *)
LEMMA FarmersStay ==
    ASSUME PmTypeOK, BookChange, NEW i \in DOMAIN policies
    PROVE  policies'[i].farmer = policies[i].farmer
<1>1. ASSUME NEW id, NEW status, Started(id) \/ Closed(id, status)
      PROVE  policies'[i].farmer = policies[i].farmer
  BY <1>1, LaterSteps DEF SameParties
<1> QED  BY <1>1 DEF BookChange, Sold, bookVars

(* A settlement owes the policy's farmer one more debt, as of now.         *)
LEMMA SettledCount ==
    ASSUME SystemInv, FiniteDebts, BookChange, NEW r, NEW a \in Adapters, NEW report,
           NEW digest, NEW oid, Settled(r, a, report, digest, oid), NEW f, NEW P
    PROVE  /\ FiniteDebts'
           /\ IF policies[report.policy_id].farmer = f /\ now \in P
              THEN Cardinality(DebtsOf(f, P)') = Cardinality(DebtsOf(f, P)) + 1
              ELSE DebtsOf(f, P)' = DebtsOf(f, P)
<1>1. PICK id, y, org : id = report.policy_id /\ y = <<a, oid>> /\ org = policies[id].org
  OBVIOUS
<1>2. Recorded(a, r, id, org, report.payout_amount, digest, oid) /\ id \in DOMAIN policies
  BY <1>1 DEF Settled, Closed
<1>3. /\ AllObligations' = AllObligations \cup {y} /\ y \notin AllObligations
      /\ Debt(y)'.policy_id = id /\ Debt(y)'.recorded_at = now
      /\ \A x \in AllObligations : Debt(x)' = Debt(x)
  <2>1. /\ AllObligations' = AllObligations \cup {<<a, oid>>}
        /\ <<a, oid>> \notin AllObligations
        /\ Debt(<<a, oid>>)' = NewObligation(r, id, org, report.payout_amount, digest, now,
                                            NextOrgIndex(a, org))
        /\ \A x \in AllObligations : Debt(x)' = Debt(x)
    BY <1>2, RecordedDebts DEF SystemInv, SystemTypeOK, RegisterInv
  <2> QED  BY <1>1, <2>1 DEF NewObligation
<1>4. /\ \A x \in AllObligations :
             policies'[Debt(x).policy_id].farmer = policies[Debt(x).policy_id].farmer
      /\ policies'[id].farmer = policies[id].farmer
  BY <1>2, DebtParts, FarmersStay DEF SystemInv, SystemTypeOK
<1>5. FiniteDebts'
  BY <1>3, FS_AddElement DEF FiniteDebts
<1>6. CASE policies[id].farmer = f /\ now \in P
  <2>1. DebtsOf(f, P)' = DebtsOf(f, P) \cup {y} /\ y \notin DebtsOf(f, P)
    BY <1>3, <1>4, <1>6 DEF DebtsOf
  <2>2. IsFiniteSet(DebtsOf(f, P)) /\ Cardinality(DebtsOf(f, P)) \in Nat
    BY DebtsCount
  <2>3. Cardinality(DebtsOf(f, P)') = Cardinality(DebtsOf(f, P)) + 1
    BY <2>1, <2>2, FS_AddElement
  <2> QED  BY <1>1, <1>5, <1>6, <2>2, <2>3
<1>7. CASE ~(policies[id].farmer = f /\ now \in P)
  <2>1. DebtsOf(f, P)' = DebtsOf(f, P)
    BY <1>3, <1>4, <1>7 DEF DebtsOf
  <2> QED  BY <1>1, <1>5, <1>7, <2>1
<1> QED  BY <1>6, <1>7

(* Nothing else owes anybody anything.                                     *)
LEMMA OtherCount ==
    ASSUME SystemInv, FiniteDebts, BookChange, OtherStep, NEW f, NEW P
    PROVE  FiniteDebts' /\ DebtsOf(f, P)' = DebtsOf(f, P)
<1>1. /\ AllObligations' = AllObligations
      /\ \A x \in AllObligations : SameTerms(Debt(x)', Debt(x))
  BY KeptDebts DEF SystemInv, SystemTypeOK, RegisterInv, OtherStep
<1>2. \A x \in AllObligations : /\ Debt(x)'.policy_id = Debt(x).policy_id
                                /\ Debt(x)'.recorded_at = Debt(x).recorded_at
  BY <1>1 DEF SameTerms
<1>3. \A x \in AllObligations :
          policies'[Debt(x).policy_id].farmer = policies[Debt(x).policy_id].farmer
  BY DebtParts, FarmersStay DEF SystemInv, SystemTypeOK
<1> QED  BY <1>1, <1>2, <1>3 DEF DebtsOf, FiniteDebts

(* The lists of claim times are in order; each has, of the times still in  *)
(* the window, as many as there are debts; and no window has more debts    *)
(* than the cap.                                                           *)
DebtsListed ==
    \A f \in Farmers, t \in Nat :
        t + CLAIM_WINDOW_SECS > now =>
            Cardinality(DebtsOf(f, From(t))) <= Cardinality(At(farmerClaimTimes[f], From(t)))

WindowsCapped ==
    \A f \in Farmers, t \in Nat :
        Cardinality(DebtsOf(f, t .. t + CLAIM_WINDOW_SECS - 1)) <= MAX_CLAIMS_PER_FARMER_PER_YEAR

CapInv ==
    /\ FiniteDebts
    /\ \A f \in Farmers : Chronicle(farmerClaimTimes[f], now)
    /\ DebtsListed
    /\ WindowsCapped

(* A settlement is a claim of its policy's farmer, so its debt is listed,  *)
(* and while the farmer may claim there is room for it in every window.    *)
LEMMA SettledWithinCap ==
    ASSUME PmAssumption, SystemInv, CapInv, BookChange, now' = now, NEW r, NEW a \in Adapters,
           NEW report, NEW digest, NEW oid, Settled(r, a, report, digest, oid)
    PROVE  CapInv'
<1>1. PICK g \in Farmers : /\ g = policies[report.policy_id].farmer
                           /\ increment_claim_count(r, g)
  <2>1. /\ increment_claim_count(r, policies[report.policy_id].farmer)
        /\ report.policy_id \in DOMAIN policies
    BY DEF Settled, Closed
  <2> QED  BY <2>1 DEF SystemInv, SystemTypeOK, PmTypeOK, BookTypeOK, Policy
<1>2. /\ PmTypeOK /\ now \in Nat
      /\ CLAIM_WINDOW_SECS \in Nat /\ MAX_CLAIMS_PER_FARMER_PER_YEAR \in Nat
      /\ claims_in_window(g) < MAX_CLAIMS_PER_FARMER_PER_YEAR
  BY <1>1 DEF SystemInv, SystemTypeOK, PmTypeOK, BookTypeOK, PmAssumption,
              increment_claim_count, can_farmer_claim
<1>3. FiniteDebts'
  BY SettledCount DEF CapInv
<1>4. ASSUME NEW f \in Farmers, NEW P
      PROVE  /\ f = g /\ now \in P =>
                    Cardinality(DebtsOf(f, P)') = Cardinality(DebtsOf(f, P)) + 1
             /\ ~(f = g /\ now \in P) => DebtsOf(f, P)' = DebtsOf(f, P)
  BY <1>1, SettledCount DEF CapInv
<1>5. ASSUME NEW f \in Farmers, NEW t \in Nat
      PROVE  /\ Chronicle(farmerClaimTimes'[f], now)
             /\ Cardinality(At(farmerClaimTimes[f], From(t))) \in Nat
             /\ Cardinality(At(farmerClaimTimes'[f], From(t))) \in Nat
             /\ f # g => farmerClaimTimes'[f] = farmerClaimTimes[f]
             /\ f = g /\ t <= now /\ t + CLAIM_WINDOW_SECS > now
                    => Cardinality(At(farmerClaimTimes'[f], From(t)))
                           >= Cardinality(At(farmerClaimTimes[f], From(t))) + 1
  BY <1>1, <1>2, PmAssumption, ListAfterClaim DEF CapInv
<1>6. \A f \in Farmers : Chronicle(farmerClaimTimes'[f], now')
  BY <1>2, <1>5
<1>7. ASSUME NEW f \in Farmers, NEW t \in Nat, t + CLAIM_WINDOW_SECS > now
      PROVE  /\ Cardinality(DebtsOf(f, From(t))) \in Nat
             /\ Cardinality(DebtsOf(f, From(t))) <= Cardinality(At(farmerClaimTimes[f], From(t)))
             /\ t > now => Cardinality(DebtsOf(f, From(t))) = 0
  <2>1. ASSUME t > now PROVE DebtsOf(f, From(t)) = {}
    BY <1>2, <2>1, DebtParts DEF DebtsOf, From
  <2> QED  BY <1>7, <2>1, DebtsCount, FS_EmptySet DEF CapInv, DebtsListed
<1>8. ASSUME NEW f \in Farmers, NEW t \in Nat, t + CLAIM_WINDOW_SECS > now
      PROVE  Cardinality(DebtsOf(f, From(t))') <= Cardinality(At(farmerClaimTimes'[f], From(t)))
  <2>1. CASE f # g
    BY <1>4, <1>5, <1>7, <1>8, <2>1
  <2>2. CASE f = g /\ t <= now
    <3>1. now \in From(t)
      BY <1>2, <2>2 DEF From
    <3> QED  BY <1>4, <1>5, <1>7, <1>8, <2>2, <3>1
  <2>3. CASE f = g /\ t > now
    <3>1. now \notin From(t)
      BY <1>2, <2>3 DEF From
    <3>2. DebtsOf(f, From(t))' = DebtsOf(f, From(t))
      BY <1>4, <3>1
    <3> QED  BY <1>5, <1>7, <1>8, <2>3, <3>2
  <2> QED  BY <1>2, <2>1, <2>2, <2>3
<1>9. DebtsListed'
  BY <1>8 DEF DebtsListed
<1>10. ASSUME NEW f \in Farmers, NEW t \in Nat
       PROVE  Cardinality(DebtsOf(f, t .. t + CLAIM_WINDOW_SECS - 1)')
                  <= MAX_CLAIMS_PER_FARMER_PER_YEAR
  <2>1. PICK window : window = t .. t + CLAIM_WINDOW_SECS - 1
    OBVIOUS
  <2>2. Cardinality(DebtsOf(f, window)) <= MAX_CLAIMS_PER_FARMER_PER_YEAR
    BY <2>1 DEF CapInv, WindowsCapped
  <2>3. CASE f = g /\ now \in window
    <3>1. t + CLAIM_WINDOW_SECS > now
      BY <1>2, <2>1, <2>3
    <3>2. DebtsOf(f, window) \subseteq DebtsOf(f, From(t))
      BY <1>2, <2>1 DEF DebtsOf, From
    <3>3. /\ Cardinality(DebtsOf(f, window)) <= Cardinality(DebtsOf(f, From(t)))
          /\ Cardinality(DebtsOf(f, window)) \in Nat
      BY <3>2, DebtsCount, FS_Subset DEF CapInv
    <3>4. /\ Cardinality(At(farmerClaimTimes[f], From(t))) <= claims_in_window(g)
          /\ claims_in_window(g) \in Nat
      BY <1>2, <2>3, <3>1, PmAssumption, ListInWindow, CommittedType
    <3>5. /\ Cardinality(DebtsOf(f, From(t))) \in Nat
          /\ Cardinality(DebtsOf(f, From(t))) <= Cardinality(At(farmerClaimTimes[f], From(t)))
          /\ Cardinality(At(farmerClaimTimes[f], From(t))) \in Nat
      BY <1>5, <1>7, <3>1
    <3>6. Cardinality(DebtsOf(f, window)') = Cardinality(DebtsOf(f, window)) + 1
      BY <1>4, <2>3
    <3> QED  BY <1>2, <2>1, <3>3, <3>4, <3>5, <3>6
  <2>4. CASE ~(f = g /\ now \in window)
    BY <1>4, <2>1, <2>2, <2>4
  <2> QED  BY <2>3, <2>4
<1>11. WindowsCapped'
  BY <1>10 DEF WindowsCapped
<1> QED  BY <1>3, <1>6, <1>9, <1>11 DEF CapInv

(* Only a claim touches the lists, in a step in which no time passes.      *)
LEMMA ClaimSteps ==
    ASSUME [BookNext]_bookSpecVars
    PROVE  \/ UNCHANGED farmerClaimTimes
           \/ /\ now' = now
              /\ \E caller \in Accounts, g \in Farmers : increment_claim_count(caller, g)
<1>1. CASE PmStep /\ UNCHANGED now
  <2>1. PICK caller \in Accounts :
            \/ \E r \in SaleRequests : create_policy(caller, r)
            \/ \E id \in DOMAIN policies :
                  \/ \E d \in Distributors : activate_policy(caller, id, d)
                  \/ mark_as_claimed(caller, id) /\ UNCHANGED farmerClaimTimes
                  \/ cancel_policy(caller, id)
                  \/ expire_policy(id)
            \/ \E g \in Farmers : increment_claim_count(caller, g)
            \/ UNCHANGED farmerClaimTimes
    BY <1>1 DEF PmStep, set_policy_nft, pm_grant_role, pm_revoke_role, bookVars
  <2> QED  BY <1>1, <2>1 DEF create_policy, activate_policy, cancel_policy, expire_policy, Close
<1>2. CASE UNCHANGED pmVars
  BY <1>2 DEF pmVars, bookVars
<1> QED  BY <1>1, <1>2 DEF BookNext, bookSpecVars

(* An account that reports claims makes the lists longer, and time takes   *)
(* debts out of the window; neither adds a debt.                           *)
LEMMA OthersWithinCap ==
    ASSUME PmAssumption, SystemInv, CapInv, BookChange, OtherStep, now' \in {now, now + 1}
    PROVE  CapInv'
<1>1. /\ PmTypeOK /\ now \in Nat /\ now <= now'
      /\ CLAIM_WINDOW_SECS \in Nat /\ MAX_CLAIMS_PER_FARMER_PER_YEAR \in Nat
  BY DEF SystemInv, SystemTypeOK, PmTypeOK, BookTypeOK, PmAssumption
<1>2. FiniteDebts' /\ \A f \in Farmers, t \in Nat :
          /\ DebtsOf(f, From(t))' = DebtsOf(f, From(t))
          /\ DebtsOf(f, t .. t + CLAIM_WINDOW_SECS - 1)'
                 = DebtsOf(f, t .. t + CLAIM_WINDOW_SECS - 1)
  <2>1. ASSUME NEW f, NEW P
        PROVE  FiniteDebts' /\ DebtsOf(f, P)' = DebtsOf(f, P)
    BY OtherCount DEF CapInv
  <2> QED  BY <2>1
<1>3. WindowsCapped'
  BY <1>2 DEF CapInv, WindowsCapped
<1>4. CASE UNCHANGED farmerClaimTimes
  <2>1. \A f \in Farmers : Chronicle(farmerClaimTimes[f], now')
    <3>1. ASSUME NEW times \in Seq(Nat), Chronicle(times, now)
          PROVE  Chronicle(times, now')
      <4>1. \A i \in DOMAIN times : times[i] \in Nat
        BY ElementOfSeq, LenProperties
      <4> QED  BY <1>1, <3>1, <4>1 DEF Chronicle
    <3>2. \A f \in Farmers : farmerClaimTimes[f] \in Seq(Nat)
      BY <1>1 DEF PmTypeOK
    <3> QED  BY <3>1, <3>2 DEF CapInv
  <2>2. \A t \in Nat : t + CLAIM_WINDOW_SECS > now' => t + CLAIM_WINDOW_SECS > now
    BY <1>1
  <2>3. DebtsListed'
    BY <1>2, <1>4, <2>2 DEF CapInv, DebtsListed, At
  <2> QED  BY <1>2, <1>3, <1>4, <2>1, <2>3 DEF CapInv
<1>5. ASSUME NEW caller, NEW g \in Farmers, increment_claim_count(caller, g), now' = now
      PROVE  CapInv'
  <2>1. ASSUME NEW f \in Farmers, NEW t \in Nat
        PROVE  /\ Chronicle(farmerClaimTimes'[f], now)
               /\ Cardinality(At(farmerClaimTimes[f], From(t))) \in Nat
               /\ Cardinality(At(farmerClaimTimes'[f], From(t))) \in Nat
               /\ f # g => farmerClaimTimes'[f] = farmerClaimTimes[f]
               /\ f = g /\ t <= now /\ t + CLAIM_WINDOW_SECS > now
                      => Cardinality(At(farmerClaimTimes'[f], From(t)))
                             >= Cardinality(At(farmerClaimTimes[f], From(t))) + 1
    BY <1>1, <1>5, PmAssumption, ListAfterClaim DEF CapInv
  <2>2. ASSUME NEW f \in Farmers, NEW t \in Nat, t + CLAIM_WINDOW_SECS > now
        PROVE  Cardinality(DebtsOf(f, From(t))) <= Cardinality(At(farmerClaimTimes'[f], From(t)))
    <3>1. /\ Cardinality(DebtsOf(f, From(t))) \in Nat
          /\ Cardinality(DebtsOf(f, From(t))) <= Cardinality(At(farmerClaimTimes[f], From(t)))
      BY <2>2, DebtsCount DEF CapInv, DebtsListed
    <3>2. CASE t <= now
      BY <2>1, <2>2, <3>1, <3>2
    <3>3. CASE t > now
      <4>1. DebtsOf(f, From(t)) = {}
        BY <1>1, <3>3, DebtParts DEF DebtsOf, From
      <4> QED  BY <2>1, <4>1, FS_EmptySet
    <3> QED  BY <1>1, <3>2, <3>3
  <2>3. DebtsListed'
    <3>1. \A f \in Farmers, t \in Nat :
              t + CLAIM_WINDOW_SECS > now' =>
                  Cardinality(DebtsOf(f, From(t))')
                      <= Cardinality(At(farmerClaimTimes'[f], From(t)))
      BY <1>2, <1>5, <2>2
    <3> QED  BY <3>1 DEF DebtsListed
  <2>4. \A f \in Farmers : Chronicle(farmerClaimTimes'[f], now')
    BY <1>1, <1>5, <2>1
  <2> QED  BY <1>2, <1>3, <2>3, <2>4 DEF CapInv
<1>6. [BookNext]_bookSpecVars
  BY DEF OtherStep
<1> QED  BY <1>4, <1>5, <1>6, ClaimSteps

(* No farmer is ever owed for more losses than the cap in any window, even *)
(* though the manager keeps only the latest claim times and accounts may   *)
(* report claims too (increment_claim_count, can_farmer_claim).            *)
THEOREM CapKept == Spec \/ LegacySpec => []RollingClaimCap
<1>1. Init \/ LegacyInit => CapInv
  <2> SUFFICES ASSUME Init \/ LegacyInit PROVE CapInv
    OBVIOUS
  <2>1. AllObligations = {}
    BY PrAssumption, PmAssumption, SaAssumption, SystemInitial
  <2>2. FiniteDebts /\ \A f, P : Cardinality(DebtsOf(f, P)) = 0
    BY <2>1, FS_EmptySet DEF FiniteDebts, DebtsOf
  <2>3. \A f \in Farmers : farmerClaimTimes[f] = << >>
    BY DEF Init, LegacyInit, PmInit
  <2>4. \A f \in Farmers : Chronicle(farmerClaimTimes[f], now)
    BY <2>3 DEF Chronicle
  <2>5. \A f \in Farmers, t \in Nat : Cardinality(At(farmerClaimTimes[f], From(t))) = 0
    <3>1. \A t \in Nat : At(<< >>, From(t)) = {}
      BY DEF At
    <3> QED  BY <2>3, <3>1, FS_EmptySet
  <2>6. MAX_CLAIMS_PER_FARMER_PER_YEAR \in Nat
    BY PmAssumption DEF PmAssumption
  <2> QED  BY <2>2, <2>4, <2>5, <2>6 DEF CapInv, DebtsListed, WindowsCapped
<1>2. SystemInv /\ CapInv /\ [Next]_vars => CapInv'
  <2> SUFFICES ASSUME SystemInv, CapInv, [Next]_vars PROVE CapInv'
    OBVIOUS
  <2>1. BookChange /\ now' \in {now, now + 1}
    BY PrAssumption, PmAssumption, SaAssumption, HostAssumption, SystemBookSteps
  <2>2. (now' = now /\ SettlementStep) \/ OtherStep
    BY PrAssumption, PmAssumption, SaAssumption, HostAssumption, SystemInductive
  <2>3. CASE now' = now /\ SettlementStep
    BY <2>1, <2>3, PmAssumption, SettledWithinCap DEF SettlementStep
  <2>4. CASE OtherStep
    BY <2>1, <2>4, PmAssumption, OthersWithinCap
  <2> QED  BY <2>2, <2>3, <2>4
<1>3. SystemInv /\ CapInv => RollingClaimCap
  <2> SUFFICES ASSUME SystemInv, CapInv, NEW f \in Farmers, NEW t \in 0 .. now
               PROVE  Cardinality({x \in AllObligations :
                          /\ policies[obligations[x[1]][x[2]].policy_id].farmer = f
                          /\ obligations[x[1]][x[2]].recorded_at
                                 \in t .. t + CLAIM_WINDOW_SECS - 1})
                      <= MAX_CLAIMS_PER_FARMER_PER_YEAR
    BY DEF RollingClaimCap
  <2>1. t \in Nat
    BY DEF SystemInv, SystemTypeOK, PmTypeOK, BookTypeOK
  <2> QED  BY <2>1 DEF CapInv, WindowsCapped, DebtsOf, Debt
<1> QED  BY <1>1, <1>2, <1>3, SystemCorrect, PTL DEF Spec, LegacySpec

-----------------------------------------------------------------------------
(* No contract refuses what another one has verified.  That a settlement   *)
(* is possible is said here without ENABLED: all it checks holds, and the  *)
(* rest of it only assigns.                                                *)

(* Everything settle_verified, and what it calls in the other contracts,   *)
(* checks.                                                                 *)
SettlementAccepted(r, report) ==
    LET a == settlementAdapter[r]
        id == report.policy_id
    IN
    /\ a \in Adapters
    /\ MayRecord(a, r, report.payout_amount)
    /\ ObligationKey(r, id) \notin DOMAIN obligationOf[a]
    /\ has_role(pmRoles, "Oracle", r)
    /\ is_policy_active(id)
    /\ can_farmer_claim(policies[id].farmer)
    /\ policyNft \in Nfts \cup {None}

(* Everything it assigns: each variable gets a value the state determines. *)
SettlementWrites(r, report, digest) ==
    LET a == settlementAdapter[r]
        id == report.policy_id
        p == policies[id]
        oid == nextObligationId[a]
    IN
    /\ consumed' = [consumed EXCEPT ![r] = @ \cup {digest}]
    /\ policyPaid' = [policyPaid EXCEPT ![r] = @ \cup {id}]
    /\ reports' = [reports EXCEPT ![r] = Put(@, id, report)]
    /\ nextObligationId' = [nextObligationId EXCEPT ![a] = oid + 1]
    /\ obligations' = [obligations EXCEPT ![a] = Put(@, oid,
           NewObligation(r, id, p.org, report.payout_amount, digest, now, NextOrgIndex(a, p.org)))]
    /\ obligationOf' = [obligationOf EXCEPT ![a] = Put(@, <<r, id>>, oid)]
    /\ orgObligations' = [orgObligations EXCEPT ![a][p.org] = Append(@, oid)]
    /\ policies' = [policies EXCEPT ![id].status = "Claimed"]
    /\ decrement_active(p.farmer)
    /\ release_org_exposure(p.org, p.sum_insured)
    /\ farmerClaimTimes' =
           [farmerClaimTimes EXCEPT ![p.farmer] = LatestClaims(Append(@, now))]
    /\ IF policyNft # None /\ MayUpdateStatus(policyNft, PM, id)
       THEN /\ certificates' = [certificates EXCEPT ![policyNft][id].is_active = FALSE]
            /\ UNCHANGED <<nftRoles, nftPolicyManager, owners, distributorPolicies>>
       ELSE UNCHANGED nftVars
    /\ UNCHANGED <<saRoles, saPayoutReceiver, policyCounter, farmerPolicies, farmerPendingCount,
                   pendingCounted, pmRoles, policyNft, prRoles, settlementAdapter,
                   authorizedSigner, networkDomain, paused, methodologyEnabled>>

(* What is accepted can settle.                                            *)
LEMMA AcceptedSettles ==
    ASSUME SystemInv, NEW r, NEW report, NEW digest,
           SettlementAccepted(r, report), SettlementWrites(r, report, digest)
    PROVE  settle_verified(r, report, digest)
<1>1. PICK a, id, p, oid :
        /\ a = settlementAdapter[r] /\ id = report.policy_id
        /\ p = policies[id] /\ oid = nextObligationId[a]
  OBVIOUS
<1>2. PICK ob : ob = NewObligation(r, id, p.org, report.payout_amount, digest, now,
                                   NextOrgIndex(a, p.org))
  OBVIOUS
<1>3. /\ a \in Adapters /\ MayRecord(a, r, report.payout_amount)
      /\ <<r, id>> \notin DOMAIN obligationOf[a]
  BY <1>1 DEF SettlementAccepted, ObligationKey
<1>4. /\ nextObligationId' = [nextObligationId EXCEPT ![a] = oid + 1]
      /\ obligations' = [obligations EXCEPT ![a] = Put(@, oid, ob)]
      /\ obligationOf' = [obligationOf EXCEPT ![a] = Put(@, <<r, id>>, oid)]
      /\ orgObligations' = [orgObligations EXCEPT ![a][p.org] = Append(@, oid)]
      /\ UNCHANGED <<saRoles, saPayoutReceiver>>
  BY <1>1, <1>2 DEF SettlementWrites
<1>5. record_obligation(a, r, id, p.org, report.payout_amount, digest)
  BY <1>1, <1>2, <1>3, <1>4 DEF record_obligation, ObligationKey, NewObligation
<1>6. /\ RecordedObligation(a, r, id) = ob
      /\ ob.payout_receiver = r /\ ob.policy_id = id /\ ob.status = "Owed"
      /\ SameObligation(ob, p.org, report.payout_amount, digest)
  <2>1. DOMAIN obligations = Adapters /\ DOMAIN obligationOf = Adapters
    BY DEF SystemInv, SystemTypeOK, RegisterInv, SaTypeOK
  <2>2. obligationOf'[a][<<r, id>>] = oid /\ obligations'[a][oid] = ob
    BY <1>3, <1>4, <2>1 DEF Put
  <2>3. RecordedObligation(a, r, id) = ob
    BY <2>2 DEF RecordedObligation, ObligationKey
  <2> QED  BY <1>2, <2>3 DEF NewObligation, SameObligation
<1>7. deactivate_policy_nft(id)
  BY <1>1 DEF SettlementAccepted, SettlementWrites, deactivate_policy_nft, update_policy_status
<1>8. mark_as_claimed(r, id)
  BY <1>1, <1>7 DEF SettlementAccepted, SettlementWrites, mark_as_claimed
<1>9. increment_claim_count(r, p.farmer)
  BY <1>1 DEF SettlementAccepted, SettlementWrites, increment_claim_count
<1>10. /\ consumed' = [consumed EXCEPT ![r] = @ \cup {digest}]
       /\ MarkPaid(r, id)
       /\ reports' = [reports EXCEPT ![r] = Put(@, id, report)]
       /\ UNCHANGED <<prRoles, settlementAdapter, authorizedSigner, networkDomain,
                      paused, methodologyEnabled>>
  BY <1>1 DEF SettlementWrites, MarkPaid
<1> QED  BY <1>1, <1>3, <1>5, <1>6, <1>8, <1>9, <1>10 DEF settle_verified

(* No policy is sold for less than the minimum, so that the smallest       *)
(* payable damage pays something.                                          *)
SumsInRange == \A id \in DOMAIN policies : policies[id].sum_insured >= MIN_SUM_INSURED

(* No change of the book touches a sum insured.                            *)
LEMMA SumsKept ==
    ASSUME PmTypeOK, SumsInRange, BookChange
    PROVE  SumsInRange'
<1>1. \A i \in DOMAIN policies : policies[i] \in Policy
  BY DEF PmTypeOK, BookTypeOK
<1>2. CASE UNCHANGED bookVars
  BY <1>2 DEF bookVars, SumsInRange
<1>3. ASSUME NEW id, Sold(id)
      PROVE  SumsInRange'
  BY <1>3 DEF SumsInRange, Sold
<1>4. ASSUME NEW id, Started(id)
      PROVE  SumsInRange'
  <2>1. /\ id \in DOMAIN policies /\ policies[id] \in Policy
        /\ policies' = [policies EXCEPT ![id] = Activated(policies[id])]
    BY <1>1, <1>4 DEF Started
  <2>2. Activated(policies[id]).sum_insured = policies[id].sum_insured
    BY <2>1 DEF Activated, Policy
  <2> QED  BY <2>1, <2>2 DEF SumsInRange
<1>5. ASSUME NEW id, NEW status, Closed(id, status)
      PROVE  SumsInRange'
  <2>1. /\ id \in DOMAIN policies /\ policies[id] \in Policy
        /\ policies' = [policies EXCEPT ![id] = [policies[id] EXCEPT !.status = status]]
    BY <1>1, <1>5 DEF Closed
  <2>2. [policies[id] EXCEPT !.status = status].sum_insured = policies[id].sum_insured
    BY <2>1 DEF Policy
  <2> QED  BY <2>1, <2>2 DEF SumsInRange
<1> QED  BY <1>2, <1>3, <1>4, <1>5 DEF BookChange

(* The floor of the smallest payout is not zero.                           *)
LEMMA PayoutPositive ==
    ASSUME NEW s \in Nat, NEW bp \in Nat, NEW m \in Nat, s >= m, bp >= 3000, m * 3000 >= 10000
    PROVE  (s * bp) \div 10000 > 0
<1>1. s * (bp - 3000) \in Nat
  BY ProductNat
<1>2. s * bp = s * (bp - 3000) + s * 3000
  OBVIOUS
<1>3. PICK n \in Nat : n = s * bp /\ n >= 10000
  <2>1. s * 3000 >= 10000
    OBVIOUS
  <2> QED  BY <1>1, <1>2, <2>1
<1> QED  BY <1>3

(* What record_obligation refuses, a justified report never has.           *)
LEMMA JustifiedPays ==
    ASSUME PmAssumption, PmTypeOK, SumsInRange, NEW id \in DOMAIN policies, NEW report, NEW digest,
           Justified(policies[id], report, digest)
    PROVE  report.payout_amount > 0
<1>1. PICK s \in Nat : s = policies[id].sum_insured /\ s >= MIN_SUM_INSURED
  BY DEF PmTypeOK, BookTypeOK, Policy, SumsInRange
<1>2. PICK bp : bp = report.damage_percentage
  OBVIOUS
<1>3. bp \in Nat /\ bp >= 3000
  <2>1. bp \in MIN_DAMAGE_THRESHOLD .. MAX_DAMAGE_PERCENTAGE
    BY <1>2 DEF Justified
  <2> QED  BY <2>1 DEF MIN_DAMAGE_THRESHOLD, MAX_DAMAGE_PERCENTAGE
<1>4. MIN_SUM_INSURED \in Nat /\ MIN_SUM_INSURED * 3000 >= 10000
  BY SmallestPayout DEF PmAssumption, MIN_DAMAGE_THRESHOLD, BASIS_POINTS
<1>5. (s * bp) \div 10000 > 0
  BY <1>3, <1>1, <1>4, PayoutPositive
<1> QED  BY <1>1, <1>2, <1>5 DEF Justified, PayoutFor, BASIS_POINTS

(* A claim its receiver has not marked as paid is unknown to every         *)
(* adapter.                                                                *)
LEMMA UnpaidIsUnknown ==
    ASSUME SystemInv, NEW r, NEW id, id \notin policyPaid[r], NEW a \in Adapters
    PROVE  ObligationKey(r, id) \notin DOMAIN obligationOf[a]
<1> SUFFICES ASSUME <<r, id>> \in DOMAIN obligationOf[a] PROVE FALSE
  BY DEF ObligationKey
<1>1. PICK oid : /\ oid = obligationOf[a][<<r, id>>]
                 /\ oid \in DOMAIN obligations[a]
                 /\ <<r, id>> = <<obligations[a][oid].payout_receiver, obligations[a][oid].policy_id>>
  BY DEF SystemInv, SystemTypeOK, RegisterInv, LookupExact
<1>2. <<a, oid>> \in AllObligations
  BY <1>1, InObligations
<1>3. Debt(<<a, oid>>).payout_receiver = r /\ Debt(<<a, oid>>).policy_id = id
  BY <1>1 DEF Debt
<1> QED  BY <1>2, <1>3 DEF SystemInv, DebtsArePaid

(* The receiver and its adapter are bound to each other, the manager knows *)
(* the receiver as an oracle and is wired to a certificate contract or to  *)
(* none: what deploy.sh leaves and verify-deployment.sh checks.            *)
WiredUp(r) ==
    /\ settlementAdapter[r] \in Adapters
    /\ saPayoutReceiver[settlementAdapter[r]] = r
    /\ has_role(pmRoles, "Oracle", r)
    /\ policyNft \in Nfts \cup {None}

SiblingsAccept ==
    \A r \in Receivers, caller \in Accounts, k \in Keys :
        /\ \A d \in Determinations :
              WiredUp(r) /\ Verified(r, caller, d, k) => SettlementAccepted(r, DroughtReport(d))
        /\ \A d \in CropDeterminations :
              WiredUp(r) /\ CropVerified(r, caller, d, k) => SettlementAccepted(r, CropReport(d))

(* A receiver's checks are as strong as those of the contracts it calls.   *)
LEMMA JustifiedAccepted ==
    ASSUME PmAssumption, SystemInv, SumsInRange, NEW r, WiredUp(r), NEW report, NEW digest,
           open_policy(r, report.policy_id),
           can_farmer_claim(policies[report.policy_id].farmer),
           Justified(policies[report.policy_id], report, digest)
    PROVE  SettlementAccepted(r, report)
<1>1. PICK id : id = report.policy_id
  OBVIOUS
<1>2. is_policy_active(id) /\ id \notin policyPaid[r] /\ id \in DOMAIN policies
  BY <1>1 DEF open_policy, is_policy_active, policy_exists
<1>3. report.payout_amount > 0
  BY <1>1, <1>2, JustifiedPays DEF SystemInv, SystemTypeOK
<1>4. ObligationKey(r, id) \notin DOMAIN obligationOf[settlementAdapter[r]]
  BY <1>2, UnpaidIsUnknown DEF WiredUp
<1> QED  BY <1>1, <1>2, <1>3, <1>4 DEF WiredUp, SettlementAccepted, MayRecord

(* The policy of the earlier build insures at least today's minimum.       *)
LegacySumInRange == LegacyPolicy.sum_insured >= MIN_SUM_INSURED

(* Once a wired receiver's own checks pass, nothing that settle_verified   *)
(* calls refuses: the payout is not zero, no adapter knows the claim, the  *)
(* manager and the certificate contract go along.  With AcceptedSettles,   *)
(* this says of a wired receiver what SiblingsNeverRefuse says.            *)
THEOREM SiblingsAlwaysAccept ==
    ASSUME LegacySumInRange
    PROVE  Spec \/ LegacySpec => []SiblingsAccept
<1>1. Init \/ LegacyInit => SumsInRange
  <2> SUFFICES ASSUME Init \/ LegacyInit PROVE SumsInRange
    OBVIOUS
  <2>1. CASE Init
    BY <2>1 DEF Init, PmInit, SumsInRange
  <2>2. CASE LegacyInit
    BY <2>2 DEF LegacyInit, LegacySumInRange, SumsInRange
  <2> QED  BY <2>1, <2>2
<1>2. SystemInv /\ SumsInRange /\ [Next]_vars => SumsInRange'
  <2> SUFFICES ASSUME SystemInv, SumsInRange, [Next]_vars PROVE SumsInRange'
    OBVIOUS
  <2>1. BookChange
    BY PrAssumption, PmAssumption, SaAssumption, HostAssumption, SystemBookSteps
  <2> QED  BY <2>1, SumsKept DEF SystemInv, SystemTypeOK
<1>3. SystemInv /\ SumsInRange => SiblingsAccept
  <2> SUFFICES ASSUME SystemInv, SumsInRange, NEW r \in Receivers, WiredUp(r),
                      NEW caller \in Accounts, NEW k \in Keys
               PROVE  /\ \A d \in Determinations :
                            Verified(r, caller, d, k) => SettlementAccepted(r, DroughtReport(d))
                      /\ \A d \in CropDeterminations :
                            CropVerified(r, caller, d, k) => SettlementAccepted(r, CropReport(d))
    BY DEF SiblingsAccept
  <2>1. PmTypeOK
    BY DEF SystemInv, SystemTypeOK
  <2>2. ASSUME NEW d \in Determinations, Verified(r, caller, d, k)
        PROVE  SettlementAccepted(r, DroughtReport(d))
    <3>1. /\ open_policy(r, d.on_chain_policy_id)
          /\ Justified(policies[d.on_chain_policy_id], DroughtReport(d),
                       drought_determination_digest(r, d))
      BY <2>1, <2>2, PrAssumption, PmAssumption, DroughtJustified
    <3>2. can_farmer_claim(policies[d.on_chain_policy_id].farmer)
      BY <2>2 DEF Verified, require_fresh_and_claimable
    <3>3. DroughtReport(d).policy_id = d.on_chain_policy_id
      BY DEF DroughtReport
    <3> QED  BY <3>1, <3>2, <3>3, PmAssumption, JustifiedAccepted
  <2>3. ASSUME NEW d \in CropDeterminations, CropVerified(r, caller, d, k)
        PROVE  SettlementAccepted(r, CropReport(d))
    <3>1. /\ open_policy(r, d.on_chain_policy_id)
          /\ Justified(policies[d.on_chain_policy_id], CropReport(d),
                       determination_digest(r, d))
      BY <2>1, <2>3, PrAssumption, CropJustified
    <3>2. can_farmer_claim(policies[d.on_chain_policy_id].farmer)
      BY <2>3 DEF CropVerified, require_fresh_and_claimable
    <3>3. CropReport(d).policy_id = d.on_chain_policy_id
      BY DEF CropReport
    <3> QED  BY <3>1, <3>2, <3>3, PmAssumption, JustifiedAccepted
  <2> QED  BY <2>2, <2>3
<1> QED  BY <1>1, <1>2, <1>3, SystemCorrect, PTL DEF Spec, LegacySpec
=============================================================================
