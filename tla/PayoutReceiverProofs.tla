------------------------ MODULE PayoutReceiverProofs ------------------------
(***************************************************************************)
(* Theorems about the composed system of PayoutReceiver, for every number  *)
(* of receivers, adapters, farmers, keys and determinations: what is owed  *)
(* is earned, and it is owed once.                                         *)
(***************************************************************************)
EXTENDS PayoutReceiver, PolicyBookProofs, SettlementAdapterProofs

-----------------------------------------------------------------------------
(* The determination a settlement rests on.                                *)

(* What the checks of a submission leave known of its report.              *)
Justified(p, rep, digest) ==
    /\ rep.damage_percentage \in MIN_DAMAGE_THRESHOLD .. MAX_DAMAGE_PERCENTAGE
    /\ rep.payout_amount = PayoutFor(p, rep.damage_percentage)
    /\ now - rep.assessed_at \in 0 .. MAX_REPORT_AGE
    /\ p.coverage_type = "Drought" => now + SECONDS_PER_DAY > p.start_date + SEASON_WINDOW_SECS
    /\ Fits(digest[2], p, rep)
    /\ MeasuredFor(digest[2], rep.policy_id, p)

(* What require_plot leaves known of the coordinates.                      *)
LEMMA OnThePlot ==
    ASSUME NEW p \in Policy, NEW d, d.latitude_e6 \in Int, d.longitude_e6 \in Int,
           require_plot(p, d.latitude_e6, d.longitude_e6)
    PROVE  MeasuredFor(d, d.on_chain_policy_id, p)
<1>1. p.lat_e6 \in Int /\ p.lon_e6 \in Int
  BY DEF Policy
<1>2. /\ d.latitude_e6 - p.lat_e6 <= 1 /\ p.lat_e6 - d.latitude_e6 <= 1
      /\ d.longitude_e6 - p.lon_e6 <= 1 /\ p.lon_e6 - d.longitude_e6 <= 1
  BY DEF require_plot, Within, PLOT_COORD_TOLERANCE_E6
<1>3. d.latitude_e6 - p.lat_e6 \in -1 .. 1 /\ d.longitude_e6 - p.lon_e6 \in -1 .. 1
  BY <1>1, <1>2
<1> QED  BY <1>3 DEF MeasuredFor, PLOT_COORD_TOLERANCE_E6

(* A season that starts no earlier than the day the cover did ends less    *)
(* than a day before start_date + SEASON_WINDOW_SECS.                      *)
LEMMA WholeSeason ==
    ASSUME NEW start \in Nat, NEW day \in Nat \ {0}, NEW season \in Nat, NEW window \in Nat,
           NEW at \in Nat, NEW t \in Nat,
           season >= start - (start % day), at >= season + window, t >= at
    PROVE  t + day > start + window
<1>1. start % day \in 0 .. day - 1
  OBVIOUS
<1> QED  BY <1>1

(* A report is not from the future and not too old.                        *)
LEMMA ReportAge ==
    ASSUME NEW t \in Nat, NEW at \in Nat, NEW limit \in Nat, at <= t, t <= at + limit
    PROVE  t - at \in 0 .. limit
OBVIOUS

(* The damage a settlement may rest on is a number.                        *)
LEMMA DamageIsNat == \A bp \in MIN_DAMAGE_THRESHOLD .. MAX_DAMAGE_PERCENTAGE : bp \in Nat
BY DEF MIN_DAMAGE_THRESHOLD, MAX_DAMAGE_PERCENTAGE

(* The bounds the receiver checks are the ends of that range.              *)
LEMMA DamageRange ==
    ASSUME NEW bp \in Nat, bp >= MIN_DAMAGE_THRESHOLD, bp <= MAX_DAMAGE_PERCENTAGE
    PROVE  bp \in MIN_DAMAGE_THRESHOLD .. MAX_DAMAGE_PERCENTAGE
BY DEF MIN_DAMAGE_THRESHOLD, MAX_DAMAGE_PERCENTAGE

(* submit_drought_determination rests on a justified report.               *)
LEMMA DroughtJustified ==
    ASSUME PrAssumption, PmAssumption, PmTypeOK, NEW r, NEW caller, NEW key,
           NEW d \in Determinations, Verified(r, caller, d, key)
    PROVE  /\ open_policy(r, d.on_chain_policy_id)
           /\ Justified(policies[d.on_chain_policy_id], DroughtReport(d),
                        drought_determination_digest(r, d))
<1> DEFINE p == policies[d.on_chain_policy_id]
<1>1. d \in DroughtDetermination /\ MAX_REPORT_AGE \in Nat /\ SEASON_WINDOW_SECS \in Nat
  BY DEF PrAssumption
<1>2. /\ EvidenceAccepted(d)
      /\ open_policy(r, d.on_chain_policy_id)
      /\ p.coverage_type = "Drought"
      /\ SeasonInsideCover(p, d)
      /\ d.payout_amount = PayoutFor(p, d.damage_percent_bp)
      /\ require_plot(p, d.latitude_e6, d.longitude_e6)
      /\ d.assessed_at <= now
      /\ now <= d.assessed_at + MAX_REPORT_AGE
  BY DEF Verified, require_payout, require_fresh_and_claimable
<1>3. now \in Nat /\ p \in Policy /\ SECONDS_PER_DAY \in Nat \ {0}
  BY <1>2 DEF open_policy, is_policy_active, policy_exists, PmTypeOK, BookTypeOK, PmAssumption
<1>4. /\ d.damage_percent_bp \in Nat /\ d.assessed_at \in Nat /\ d.drought_damage \in Nat
      /\ d.season_start_epoch \in Nat /\ p.start_date \in Nat
      /\ d.latitude_e6 \in Int /\ d.longitude_e6 \in Int
  BY <1>1, <1>3 DEF DroughtDetermination, Policy
<1>5. now + SECONDS_PER_DAY > p.start_date + SEASON_WINDOW_SECS
  <2>1. /\ d.season_start_epoch >= p.start_date - (p.start_date % SECONDS_PER_DAY)
        /\ d.assessed_at >= d.season_start_epoch + SEASON_WINDOW_SECS
    BY <1>2 DEF SeasonInsideCover
  <2> HIDE DEF p
  <2> QED  BY <1>1, <1>2, <1>3, <1>4, <2>1, WholeSeason
<1>6. d.damage_percent_bp \in MIN_DAMAGE_THRESHOLD .. MAX_DAMAGE_PERCENTAGE
  <2>1. /\ d.damage_percent_bp <= MAX_DAMAGE_PERCENTAGE
        /\ d.damage_percent_bp >= MIN_DAMAGE_THRESHOLD
    BY <1>2 DEF EvidenceAccepted
  <2> QED  BY <1>4, <2>1, DamageRange
<1>7. Fits(drought_determination_digest(r, d)[2], p, DroughtReport(d))
  <2>1. PICK index : index = rdi_v1_drought_damage(d.rain_w1_e2, d.rain_ref_w1_e2,
                                                   d.rain_w2_e2, d.rain_ref_w2_e2)
    OBVIOUS
  <2>2. d.damage_percent_bp = d.drought_damage * 100 /\ d.drought_damage = index
    BY <1>2, <2>1 DEF EvidenceAccepted, DamageRecomputed
  <2>3. d.damage_percent_bp = 100 * index
    BY <1>4, <2>2
  <2> QED  BY <1>2, <2>1, <2>3 DEF Fits, drought_determination_digest, DroughtReport
<1>8. now - d.assessed_at \in 0 .. MAX_REPORT_AGE
  BY <1>1, <1>2, <1>3, <1>4, ReportAge
<1>9. /\ DroughtReport(d).payout_amount = d.payout_amount
      /\ DroughtReport(d).assessed_at = d.assessed_at
      /\ DroughtReport(d).damage_percentage = d.damage_percent_bp
      /\ DroughtReport(d).policy_id = d.on_chain_policy_id
      /\ drought_determination_digest(r, d)[2] = d
  BY DEF DroughtReport, drought_determination_digest
<1> HIDE DEF p
<1>10. MeasuredFor(d, d.on_chain_policy_id, p)
  BY <1>2, <1>3, <1>4, OnThePlot
<1>11. Justified(p, DroughtReport(d), drought_determination_digest(r, d))
  BY <1>2, <1>5, <1>6, <1>7, <1>8, <1>9, <1>10 DEF Justified
<1> QED  BY <1>2, <1>11 DEF p

(* So does submit_determination.                                           *)
LEMMA CropJustified ==
    ASSUME PrAssumption, PmTypeOK, NEW r, NEW caller, NEW key,
           NEW d \in CropDeterminations, CropVerified(r, caller, d, key)
    PROVE  /\ open_policy(r, d.on_chain_policy_id)
           /\ Justified(policies[d.on_chain_policy_id], CropReport(d),
                        determination_digest(r, d))
<1> DEFINE p == policies[d.on_chain_policy_id]
<1>1. d \in CropDetermination /\ MAX_REPORT_AGE \in Nat
  BY DEF PrAssumption
<1>2. /\ CropEvidenceAccepted(d)
      /\ open_policy(r, d.on_chain_policy_id)
      /\ p.coverage_type = "Comprehensive"
      /\ d.payout_amount = PayoutFor(p, d.damage_percent_bp)
      /\ require_plot(p, d.latitude_e6, d.longitude_e6)
      /\ d.assessed_at <= now
      /\ now <= d.assessed_at + MAX_REPORT_AGE
  BY DEF CropVerified, CropCover, require_payout, require_fresh_and_claimable
<1>3. now \in Nat /\ p \in Policy
  BY <1>2 DEF open_policy, is_policy_active, policy_exists, PmTypeOK, BookTypeOK
<1>4. /\ d.damage_percent_bp \in Nat /\ d.assessed_at \in Nat /\ d.weather_present \in Nat
      /\ d.weather_damage \in Nat /\ d.satellite_damage \in Nat
      /\ d.latitude_e6 \in Int /\ d.longitude_e6 \in Int
  BY <1>1 DEF CropDetermination
<1>5. d.damage_percent_bp \in MIN_DAMAGE_THRESHOLD .. MAX_DAMAGE_PERCENTAGE
  <2>1. /\ d.damage_percent_bp <= MAX_DAMAGE_PERCENTAGE
        /\ d.damage_percent_bp >= MIN_DAMAGE_THRESHOLD
    BY <1>2 DEF CropEvidenceAccepted
  <2> QED  BY <1>4, <2>1, DamageRange
<1>6. /\ CropReport(d).payout_amount = d.payout_amount
      /\ CropReport(d).assessed_at = d.assessed_at
      /\ CropReport(d).damage_percentage = d.damage_percent_bp
      /\ CropReport(d).weather_damage = d.weather_damage
      /\ CropReport(d).satellite_damage = d.satellite_damage
      /\ CropReport(d).policy_id = d.on_chain_policy_id
      /\ determination_digest(r, d)[2] = d
  BY DEF CropReport, determination_digest
<1>7. d.damage_percent_bp = IF d.weather_present = 1
                            THEN 60 * d.weather_damage + 40 * d.satellite_damage
                            ELSE 100 * d.satellite_damage
  BY <1>2, <1>4 DEF CropEvidenceAccepted, WeightedDamage, WEATHER_WEIGHT, SATELLITE_WEIGHT,
                    WEIGHT_DENOMINATOR
<1>8. Fits(determination_digest(r, d)[2], p, CropReport(d))
  BY <1>2, <1>6, <1>7 DEF Fits, determination_digest
<1>9. now - d.assessed_at \in 0 .. MAX_REPORT_AGE
  BY <1>1, <1>2, <1>3, <1>4, ReportAge
<1>10. p.coverage_type # "Drought"
  BY <1>2
<1> HIDE DEF p
<1>11. MeasuredFor(d, d.on_chain_policy_id, p)
  BY <1>2, <1>3, <1>4, OnThePlot
<1>12. Justified(p, CropReport(d), determination_digest(r, d))
  BY <1>2, <1>5, <1>6, <1>8, <1>9, <1>10, <1>11 DEF Justified
<1> QED  BY <1>2, <1>12 DEF p
-----------------------------------------------------------------------------
(* What a step does to the debts: a settlement adds one, and everything    *)
(* else leaves the terms of all of them alone.                             *)

Debt(x) == obligations[x[1]][x[2]]

(* Every debt is for a policy its receiver marked as paid: what makes the  *)
(* receiver's own guard enough to keep record_obligation from being a      *)
(* repeat.                                                                 *)
DebtsArePaid ==
    \A x \in AllObligations : Debt(x).policy_id \in policyPaid[Debt(x).payout_receiver]

(* The whole effect of a settlement, in all three contracts.               *)
Settled(r, a, report, digest, oid) ==
    LET id == report.policy_id IN
    /\ id \notin policyPaid[r]
    /\ Justified(policies[id], report, digest)
    /\ Closed(id, "Claimed")
    /\ mark_as_claimed(r, id)
    /\ increment_claim_count(r, policies[id].farmer)
    /\ Recorded(a, r, id, policies[id].org, report.payout_amount, digest, oid)
    /\ policyPaid' = [policyPaid EXCEPT ![r] = @ \cup {id}]
    /\ reports' = [reports EXCEPT ![r] = Put(@, id, report)]

SettlementStep ==
    \E r \in Receivers, a \in Adapters :
        \E report, digest, oid : Settled(r, a, report, digest, oid)

(* What leaves the receivers' books alone.                                 *)
OtherStep ==
    /\ [BookNext]_bookSpecVars
    /\ \/ now' \in {now, now + 1} /\ Quiet
       \/ now' = now /\ MarkStep
    /\ UNCHANGED <<policyPaid, reports>>

(* Membership in AllObligations, as the proofs use it.                     *)
LEMMA InObligations ==
    \A a, i : <<a, i>> \in AllObligations <=> a \in Adapters /\ i \in DOMAIN obligations[a]
BY DEF AllObligations

LEMMA ObligationParts ==
    \A x \in AllObligations : /\ x = <<x[1], x[2]>>
                              /\ x[1] \in Adapters /\ x[2] \in DOMAIN obligations[x[1]]
BY DEF AllObligations

(* A justified payout is a number, so it can be recorded.                  *)
LEMMA PayoutIsInt ==
    ASSUME NEW p \in Policy, NEW bp \in Nat
    PROVE  PayoutFor(p, bp) \in Int
<1>1. p.sum_insured \in Nat
  BY DEF Policy
<1>2. p.sum_insured * bp \in Nat
  BY <1>1, ProductNat
<1> QED  BY <1>2 DEF PayoutFor, BASIS_POINTS

(* settle_verified records a debt that was never recorded before: the      *)
(* receiver has not paid the policy, so no adapter knows the claim.        *)
LEMMA SettleEffect ==
    ASSUME PmTypeOK, RegisterInv, DebtsArePaid, NEW r \in Receivers, NEW report, NEW digest,
           open_policy(r, report.policy_id),
           Justified(policies[report.policy_id], report, digest),
           settle_verified(r, report, digest)
    PROVE  SettlementStep
<1>1. PICK id, a : id = report.policy_id /\ a = settlementAdapter[r]
  OBVIOUS
<1>2. /\ a \in Adapters
      /\ record_obligation(a, r, id, policies[id].org, report.payout_amount, digest)
      /\ mark_as_claimed(r, id)
      /\ increment_claim_count(r, policies[id].farmer)
      /\ policyPaid' = [policyPaid EXCEPT ![r] = @ \cup {id}]
      /\ reports' = [reports EXCEPT ![r] = Put(@, id, report)]
  BY <1>1 DEF settle_verified, MarkPaid
<1>3. id \in DOMAIN policies /\ policies[id] \in Policy /\ id \notin policyPaid[r]
  BY <1>1 DEF open_policy, is_policy_active, policy_exists, PmTypeOK, BookTypeOK
<1>4. Closed(id, "Claimed")
  BY <1>2 DEF mark_as_claimed, is_policy_active, policy_exists, Closed, OpenStatuses
<1>5. report.payout_amount \in Int
  <2>1. report.damage_percentage \in Nat
    BY DamageIsNat DEF Justified
  <2>2. report.payout_amount = PayoutFor(policies[id], report.damage_percentage)
    BY <1>1 DEF Justified
  <2> QED  BY <1>3, <2>1, <2>2, PayoutIsInt
<1>6. <<r, id>> \notin DOMAIN obligationOf[a]
  <2> SUFFICES ASSUME <<r, id>> \in DOMAIN obligationOf[a]
               PROVE  FALSE
    OBVIOUS
  <2>1. PICK oid : /\ oid \in DOMAIN obligations[a]
                   /\ <<r, id>> = <<obligations[a][oid].payout_receiver,
                                    obligations[a][oid].policy_id>>
    BY <1>2 DEF RegisterInv, LookupExact
  <2>2. <<a, oid>> \in AllObligations
    BY <1>2, <2>1, InObligations
  <2>3. Debt(<<a, oid>>).policy_id = id /\ Debt(<<a, oid>>).payout_receiver = r
    BY <2>1 DEF Debt
  <2>4. id \in policyPaid[r]
    BY <2>2, <2>3 DEF DebtsArePaid
  <2> QED  BY <1>3, <2>4
<1>7. PICK oid : Recorded(a, r, id, policies[id].org, report.payout_amount, digest, oid)
  BY <1>2, <1>5, <1>6, RecordEffect DEF RegisterInv
<1>8. Settled(r, a, report, digest, oid)
  BY <1>1, <1>2, <1>3, <1>4, <1>7 DEF Settled
<1> QED  BY <1>2, <1>8 DEF SettlementStep

(* Every step of the system is a settlement or leaves the books alone.     *)
LEMMA SystemSteps ==
    ASSUME PrAssumption, PmAssumption, SaAssumption, HostAssumption,
           PmTypeOK, RegisterInv, DebtsArePaid, [Next]_vars
    PROVE  \/ now' = now /\ SettlementStep
           \/ OtherStep
<1>0. now \in Nat /\ saPayoutReceiver \in [Adapters -> Receivers \cup {None}]
  BY DEF RegisterInv, SaTypeOK
<1>1. CASE UNCHANGED vars
  BY <1>0, <1>1 DEF vars, saVars, recordVars, prVars, settledVars, bookSpecVars, OtherStep, Quiet
<1>2. CASE Settlement /\ UNCHANGED now
  <2>1. PICK r \in Receivers, caller \in Accounts, k \in Keys :
            \/ \E d \in Determinations : submit_drought_determination(r, caller, d, k)
            \/ \E d \in CropDeterminations : submit_determination(r, caller, d, k)
    BY <1>2 DEF Settlement
  <2>2. ASSUME NEW d \in Determinations, submit_drought_determination(r, caller, d, k)
        PROVE  SettlementStep
    <3>1. /\ Verified(r, caller, d, k)
          /\ settle_verified(r, DroughtReport(d), drought_determination_digest(r, d))
          /\ DroughtReport(d).policy_id = d.on_chain_policy_id
      BY <2>2 DEF submit_drought_determination, DroughtReport
    <3>2. /\ open_policy(r, DroughtReport(d).policy_id)
          /\ Justified(policies[DroughtReport(d).policy_id], DroughtReport(d),
                       drought_determination_digest(r, d))
      BY <3>1, DroughtJustified
    <3> QED  BY <3>1, <3>2, SettleEffect
  <2>3. ASSUME NEW d \in CropDeterminations, submit_determination(r, caller, d, k)
        PROVE  SettlementStep
    <3>1. /\ CropVerified(r, caller, d, k)
          /\ settle_verified(r, CropReport(d), determination_digest(r, d))
          /\ CropReport(d).policy_id = d.on_chain_policy_id
      BY <2>3 DEF submit_determination, CropReport
    <3>2. /\ open_policy(r, CropReport(d).policy_id)
          /\ Justified(policies[CropReport(d).policy_id], CropReport(d),
                       determination_digest(r, d))
      BY <3>1, CropJustified
    <3> QED  BY <3>1, <3>2, SettleEffect
  <2> QED  BY <1>2, <2>1, <2>2, <2>3
<1>3. CASE /\ \/ \E r \in Receivers, caller \in Accounts : PrAdminStep(r, caller)
              \/ \E r \in Receivers : \E digest \in consumed[r] : EvictConsumed(r, digest)
           /\ UNCHANGED <<now, nftVars, pmVars, saVars>>
  <2>1. UNCHANGED <<policyPaid, reports>>
    BY <1>3 DEF PrAdminStep, EvictConsumed, set_settlement_adapter, set_authorized_signer,
                set_network_domain, pause, unpause, SetPaused, set_methodology_enabled,
                pr_grant_role, pr_revoke_role, SetRoles, settledVars
  <2> QED  BY <1>0, <1>3, <2>1 DEF saVars, recordVars, bookSpecVars, OtherStep, Quiet
<1>4. CASE PmStep /\ UNCHANGED <<now, saVars, prVars>>
  BY <1>0, <1>4 DEF saVars, recordVars, prVars, settledVars, BookNext, OtherStep, Quiet
<1>5. CASE NftStep /\ UNCHANGED <<now, pmVars, saVars, prVars>>
  BY <1>0, <1>5 DEF saVars, recordVars, prVars, settledVars, BookNext, OtherStep, Quiet
<1>6. CASE SaStep /\ UNCHANGED <<now, nftVars, pmVars, prVars>>
  <2>1. Quiet \/ MarkStep
    BY <1>6, AccountCalls DEF RegisterInv
  <2> QED  BY <1>6, <2>1 DEF prVars, settledVars, bookSpecVars, OtherStep
<1>7. CASE Tick /\ UNCHANGED <<nftVars, pmVars, saVars, prVars>>
  BY <1>0, <1>7 DEF Tick, saVars, recordVars, prVars, settledVars, BookNext, OtherStep, Quiet
<1> QED  BY <1>1, <1>2, <1>3, <1>4, <1>5, <1>6, <1>7 DEF Next

(* A recorded obligation is a debt that was not there before.              *)
LEMMA RecordedDebts ==
    ASSUME SaTypeOK, NEW a \in Adapters, NEW r, NEW pid, NEW org, NEW amount, NEW digest,
           NEW oid, Recorded(a, r, pid, org, amount, digest, oid)
    PROVE  /\ AllObligations' = AllObligations \cup {<<a, oid>>}
           /\ <<a, oid>> \notin AllObligations
           /\ Debt(<<a, oid>>)' = NewObligation(r, pid, org, amount, digest, now,
                                               NextOrgIndex(a, org))
           /\ \A x \in AllObligations : Debt(x)' = Debt(x)
<1>1. /\ \A b \in Adapters : b # a => DOMAIN obligations'[b] = DOMAIN obligations[b]
      /\ DOMAIN obligations'[a] = DOMAIN obligations[a] \cup {oid}
  BY DEF Recorded
<1>2. oid \notin DOMAIN obligations[a]
  BY DEF SaTypeOK, Recorded
<1>3. AllObligations' = AllObligations \cup {<<a, oid>>}
  BY <1>1 DEF AllObligations
<1>4. <<a, oid>> \notin AllObligations
  BY <1>2, InObligations
<1>5. Debt(<<a, oid>>)' = NewObligation(r, pid, org, amount, digest, now, NextOrgIndex(a, org))
  BY DEF Debt, Recorded
<1>6. ASSUME NEW x \in AllObligations
      PROVE  Debt(x)' = Debt(x)
  <2>1. x[1] \in Adapters /\ x[2] \in DOMAIN obligations[x[1]]
    BY <1>6, ObligationParts
  <2> QED  BY <2>1 DEF Debt, Recorded
<1> QED  BY <1>3, <1>4, <1>5, <1>6

(* Nothing else adds a debt or touches the terms of one.                   *)
LEMMA KeptDebts ==
    ASSUME SaTypeOK, Quiet \/ MarkStep
    PROVE  /\ AllObligations' = AllObligations
           /\ \A x \in AllObligations : SameTerms(Debt(x)', Debt(x))
<1>1. CASE Quiet
  <2>1. obligations' = obligations
    BY <1>1 DEF Quiet, recordVars
  <2> QED  BY <2>1 DEF AllObligations, Debt, SameTerms
<1>2. CASE MarkStep
  <2>1. PICK a \in Adapters, caller \in Accounts : \E id \in DOMAIN obligations[a] :
            Marked(a, caller, id)
    BY <1>2 DEF MarkStep
  <2>2. PICK id \in DOMAIN obligations[a] : Marked(a, caller, id)
    BY <2>1
  <2>3. \A b \in Adapters : DOMAIN obligations'[b] = DOMAIN obligations[b]
    BY <2>2 DEF Marked
  <2>4. AllObligations' = AllObligations
    BY <2>3 DEF AllObligations
  <2>5. ASSUME NEW x \in AllObligations
        PROVE  SameTerms(Debt(x)', Debt(x))
    <3>1. x[1] \in Adapters /\ x[2] \in DOMAIN obligations[x[1]]
      BY <2>5, ObligationParts
    <3>2. CASE x[1] = a /\ x[2] = id
      BY <2>2, <3>2 DEF Marked, Debt
    <3>3. CASE x[1] # a \/ x[2] # id
      <4>1. obligations'[x[1]][x[2]] = obligations[x[1]][x[2]]
        BY <2>2, <3>1, <3>3 DEF Marked
      <4> QED  BY <4>1 DEF Debt, SameTerms
    <3> QED  BY <3>2, <3>3
  <2> QED  BY <2>4, <2>5
<1> QED  BY <1>1, <1>2

(* What a settlement does to the policies.                                 *)
LEMMA SettledPolicy ==
    ASSUME PmTypeOK, NEW r, NEW a, NEW report, NEW digest, NEW oid,
           Settled(r, a, report, digest, oid), NEW id, id = report.policy_id
    PROVE  /\ id \in DOMAIN policies /\ policies[id] \in Policy
           /\ policies[id].status = "Active" /\ now <= policies[id].end_date
           /\ DOMAIN policies' = DOMAIN policies
           /\ policies'[id] = [policies[id] EXCEPT !.status = "Claimed"]
           /\ \A i \in DOMAIN policies : i # id => policies'[i] = policies[i]
<1>1. /\ id \in DOMAIN policies
      /\ policies[id].status = "Active" /\ now <= policies[id].end_date
      /\ policies' = [policies EXCEPT ![id] = [policies[id] EXCEPT !.status = "Claimed"]]
  BY DEF Settled, Closed
<1>2. policies[id] \in Policy
  BY <1>1 DEF PmTypeOK, BookTypeOK
<1> QED  BY <1>1, <1>2

(* Once closed, a policy never changes again.                              *)
LEMMA ClosedStays ==
    ASSUME PmAssumption, PmTypeOK, [BookNext]_bookSpecVars, NEW i \in DOMAIN policies
    PROVE  /\ i \in DOMAIN policies'
           /\ policies[i].status \notin OpenStatuses => policies'[i] = policies[i]
<1>1. ASSUME NEW id, Sold(id)
      PROVE  i \in DOMAIN policies' /\ policies'[i] = policies[i]
  BY <1>1 DEF Sold
<1>2. ASSUME NEW id, NEW status, Started(id) \/ Closed(id, status)
      PROVE  /\ i \in DOMAIN policies'
             /\ policies[i].status \notin OpenStatuses => policies'[i] = policies[i]
  <2>0. SameParties /\ (i # id => policies'[i] = policies[i])
    BY <1>2, LaterSteps
  <2>1. /\ DOMAIN policies' = DOMAIN policies
        /\ i # id => policies'[i] = policies[i]
    BY <2>0 DEF SameParties
  <2>2. policies[id].status \in OpenStatuses
    BY <1>2 DEF Started, Closed, OpenStatuses
  <2> QED  BY <2>1, <2>2
<1>3. BookStep \/ UNCHANGED bookVars
  BY BookStepKinds
<1> QED  BY <1>1, <1>2, <1>3 DEF BookStep, bookVars

-----------------------------------------------------------------------------
(* The storage of the composed system.                                     *)

(* What only the receivers' administration writes.                         *)
AdminTypeOK ==
    /\ settlementAdapter \in [Receivers -> Adapters \cup {None}]
    /\ authorizedSigner \in [Receivers -> Keys \cup {None}]
    /\ networkDomain \in [Receivers -> Domains \cup {None}]
    /\ paused \in [Receivers -> BOOLEAN]
    /\ methodologyEnabled \in [Receivers -> SUBSET Methodologies]

(* The receivers' books, which only settlements write.                     *)
PaidTypeOK ==
    /\ policyPaid \in [Receivers -> SUBSET DOMAIN policies]
    /\ DOMAIN reports = Receivers
    /\ \A r \in Receivers : DOMAIN reports[r] = policyPaid[r]

SystemTypeOK ==
    /\ PmTypeOK
    /\ RegisterInv
    /\ AdminTypeOK
    /\ PaidTypeOK
    /\ StartsInThePast

(* Each setter writes a value of its type.                                 *)
LEMMA AdminStep ==
    ASSUME AdminTypeOK, [Next]_vars
    PROVE  AdminTypeOK'
<1> DEFINE admin == <<settlementAdapter, authorizedSigner, networkDomain, paused,
                      methodologyEnabled>>
<1>1. ASSUME NEW r \in Receivers, NEW caller, PrAdminStep(r, caller)
      PROVE  AdminTypeOK'
  <2>1. ASSUME NEW a \in Adapters, set_settlement_adapter(r, caller, a)
        PROVE  AdminTypeOK'
    BY <2>1 DEF set_settlement_adapter, AdminTypeOK
  <2>2. ASSUME NEW k \in Keys, set_authorized_signer(r, caller, k)
        PROVE  AdminTypeOK'
    BY <2>2 DEF set_authorized_signer, AdminTypeOK
  <2>3. ASSUME NEW d \in Domains, set_network_domain(r, caller, d)
        PROVE  AdminTypeOK'
    BY <2>3 DEF set_network_domain, AdminTypeOK
  <2>4. ASSUME pause(r, caller) \/ unpause(r, caller)
        PROVE  AdminTypeOK'
    BY <2>4 DEF pause, unpause, SetPaused, AdminTypeOK
  <2>5. ASSUME NEW k \in Methodologies, NEW e \in BOOLEAN,
               set_methodology_enabled(r, caller, k, e)
        PROVE  AdminTypeOK'
    BY <2>5 DEF set_methodology_enabled, AdminTypeOK
  <2>6. ASSUME NEW role, NEW who,
               pr_grant_role(r, caller, role, who) \/ pr_revoke_role(r, caller, role, who)
        PROVE  AdminTypeOK'
    BY <2>6 DEF pr_grant_role, pr_revoke_role, SetRoles, AdminTypeOK
  <2> QED  BY <1>1, <2>1, <2>2, <2>3, <2>4, <2>5, <2>6 DEF PrAdminStep
<1>2. Settlement => UNCHANGED admin
  BY DEF Settlement, submit_drought_determination, submit_determination, settle_verified
<1>3. ASSUME NEW r, NEW digest, EvictConsumed(r, digest)
      PROVE  UNCHANGED admin
  BY <1>3 DEF EvictConsumed
<1>4. UNCHANGED admin => AdminTypeOK'
  BY DEF AdminTypeOK
<1> QED  BY <1>1, <1>2, <1>3, <1>4 DEF Next, vars, prVars

(* A settlement keeps the types of everything it writes.                   *)
LEMMA SettledTypes ==
    ASSUME PmAssumption, SystemTypeOK, now' = now, NEW r \in Receivers, NEW a \in Adapters,
           NEW report, NEW digest, NEW oid, Settled(r, a, report, digest, oid)
    PROVE  PmTypeOK' /\ RegisterInv' /\ PaidTypeOK' /\ StartsInThePast'
<1>1. PICK id : id = report.policy_id
  OBVIOUS
<1>2. PICK p \in Policy : p = policies[id]
  BY <1>1, SettledPolicy DEF SystemTypeOK
<1>3. /\ id \in DOMAIN policies
      /\ DOMAIN policies' = DOMAIN policies
      /\ policies'[id] = [p EXCEPT !.status = "Claimed"]
      /\ \A i \in DOMAIN policies : i # id => policies'[i] = policies[i]
  BY <1>1, <1>2, SettledPolicy DEF SystemTypeOK
<1>4. /\ mark_as_claimed(r, id)
      /\ increment_claim_count(r, p.farmer)
      /\ Recorded(a, r, id, p.org, report.payout_amount, digest, oid)
      /\ policyPaid' = [policyPaid EXCEPT ![r] = @ \cup {id}]
      /\ reports' = [reports EXCEPT ![r] = Put(@, id, report)]
  BY <1>1, <1>2 DEF Settled
<1>5. p.farmer \in Farmers /\ p.org \in Orgs
  BY DEF Policy
<1>6. PmTypeOK'
  <2>1. BookTypeOK'
    BY <1>3, <1>4, ClaimType DEF SystemTypeOK, PmTypeOK
  <2>2. now \in Nat /\ farmerClaimTimes \in [Farmers -> Seq(Nat)]
    BY DEF SystemTypeOK, PmTypeOK, BookTypeOK
  <2>3. LatestClaims(Append(farmerClaimTimes[p.farmer], now)) \in Seq(Nat)
    BY <1>5, <2>2, AppendProperties, LatestClaimsType
  <2>4. farmerClaimTimes' = [farmerClaimTimes EXCEPT ![p.farmer] =
                                LatestClaims(Append(farmerClaimTimes[p.farmer], now))]
    BY <1>4 DEF increment_claim_count
  <2>5. farmerClaimTimes' \in [Farmers -> Seq(Nat)]
    BY <2>2, <2>3, <2>4
  <2> QED  BY <2>1, <2>5 DEF PmTypeOK
<1>7. RegisterInv'
  BY <1>4, <1>5, RecordType, RecordLookup, RecordOrgIndex DEF SystemTypeOK, RegisterInv
<1>8. PaidTypeOK'
  <2>1. /\ policyPaid \in [Receivers -> SUBSET DOMAIN policies]
        /\ DOMAIN reports = Receivers
        /\ \A q \in Receivers : DOMAIN reports[q] = policyPaid[q]
    BY DEF SystemTypeOK, PaidTypeOK
  <2>2. policyPaid' \in [Receivers -> SUBSET DOMAIN policies']
    BY <1>3, <1>4, <2>1
  <2>3. DOMAIN reports'[r] = DOMAIN reports[r] \cup {id} /\ DOMAIN reports' = Receivers
    BY <1>4, <2>1 DEF Put
  <2>4. \A q \in Receivers : DOMAIN reports'[q] = policyPaid'[q]
    BY <1>4, <2>1, <2>3
  <2> QED  BY <2>2, <2>3, <2>4 DEF PaidTypeOK
<1>9. StartsInThePast'
  <2>1. policies'[id].start_date = policies[id].start_date
    BY <1>2, <1>3 DEF Policy
  <2> QED  BY <1>3, <2>1 DEF SystemTypeOK, StartsInThePast
<1> QED  BY <1>6, <1>7, <1>8, <1>9

(* A mark keeps the register's invariant.                                  *)
LEMMA MarkInv ==
    ASSUME HostAssumption, RegisterInv, now' = now, MarkStep
    PROVE  RegisterInv'
<1>1. PICK a \in Adapters, caller \in Accounts : \E id \in DOMAIN obligations[a] :
          Marked(a, caller, id)
  BY DEF MarkStep
<1>2. PICK id \in DOMAIN obligations[a] : Marked(a, caller, id)
  BY <1>1
<1>3. SaTypeOK'
  BY <1>2, MarkType DEF RegisterInv
<1>4. LookupExact' /\ OrgIndexExact'
  BY <1>2, MarkLookup, MarkOrgIndex DEF RegisterInv
<1> QED  BY <1>3, <1>4 DEF RegisterInv

(* So does everything else.                                                *)
LEMMA OtherTypes ==
    ASSUME PmAssumption, HostAssumption, SystemTypeOK, OtherStep
    PROVE  PmTypeOK' /\ RegisterInv' /\ PaidTypeOK' /\ StartsInThePast'
<1>1. PmTypeOK' /\ StartsInThePast'
  BY BookNextType, PastStep DEF SystemTypeOK, OtherStep
<1>2. RegisterInv'
  BY QuietInv, MarkInv DEF SystemTypeOK, OtherStep
<1>3. DOMAIN policies \subseteq DOMAIN policies'
  BY ClosedStays DEF SystemTypeOK, OtherStep
<1>4. PaidTypeOK'
  BY <1>3 DEF SystemTypeOK, PaidTypeOK, OtherStep
<1> QED  BY <1>1, <1>2, <1>4

(* A settlement pays its own debt; the others keep their policies paid.    *)
LEMMA DebtsStayPaid ==
    ASSUME SystemTypeOK, DebtsArePaid, SettlementStep \/ OtherStep
    PROVE  DebtsArePaid'
<1>0. policyPaid \in [Receivers -> SUBSET DOMAIN policies] /\ SaTypeOK
  BY DEF SystemTypeOK, PaidTypeOK, RegisterInv
<1>1. ASSUME NEW r \in Receivers, NEW a \in Adapters, NEW report, NEW digest, NEW oid,
             Settled(r, a, report, digest, oid)
      PROVE  DebtsArePaid'
  <2>1. PICK id, org : id = report.policy_id /\ org = policies[id].org
    OBVIOUS
  <2>2. /\ Recorded(a, r, id, org, report.payout_amount, digest, oid)
        /\ policyPaid' = [policyPaid EXCEPT ![r] = @ \cup {id}]
    BY <1>1, <2>1 DEF Settled
  <2>3. /\ Debt(<<a, oid>>)'.policy_id = id /\ Debt(<<a, oid>>)'.payout_receiver = r
        /\ AllObligations' = AllObligations \cup {<<a, oid>>}
        /\ \A x \in AllObligations : Debt(x)' = Debt(x)
    <3>1. /\ AllObligations' = AllObligations \cup {<<a, oid>>}
          /\ Debt(<<a, oid>>)' = NewObligation(r, id, org, report.payout_amount, digest, now,
                                              NextOrgIndex(a, org))
          /\ \A x \in AllObligations : Debt(x)' = Debt(x)
      BY <1>0, <2>2, RecordedDebts
    <3> QED  BY <3>1 DEF NewObligation
  <2>4. \A q \in Receivers : policyPaid[q] \subseteq policyPaid'[q]
    BY <1>0, <2>2
  <2>5. id \in policyPaid'[r]
    BY <1>0, <2>2
  <2>6. \A x \in AllObligations : Debt(x).payout_receiver \in Receivers
    BY <1>0, ObligationParts DEF Debt, SaTypeOK, ObligationOK
  <2> QED  BY <2>3, <2>4, <2>5, <2>6 DEF DebtsArePaid
<1>2. CASE OtherStep
  <2>1. /\ AllObligations' = AllObligations
        /\ \A x \in AllObligations : SameTerms(Debt(x)', Debt(x))
    BY <1>0, <1>2, KeptDebts DEF OtherStep
  <2>2. policyPaid' = policyPaid
    BY <1>2 DEF OtherStep
  <2> QED  BY <2>1, <2>2 DEF DebtsArePaid, SameTerms
<1> QED  BY <1>1, <1>2 DEF SettlementStep

SystemInv == SystemTypeOK /\ DebtsArePaid

(* The storage of the composed system keeps its shape at every step.       *)
LEMMA SystemInductive ==
    ASSUME PrAssumption, PmAssumption, SaAssumption, HostAssumption, SystemInv, [Next]_vars
    PROVE  /\ SystemInv'
           /\ (now' = now /\ SettlementStep) \/ OtherStep
<1>1. (now' = now /\ SettlementStep) \/ OtherStep
  BY SystemSteps DEF SystemInv, SystemTypeOK
<1>2. AdminTypeOK'
  BY AdminStep DEF SystemInv, SystemTypeOK
<1>3. PmTypeOK' /\ RegisterInv' /\ PaidTypeOK' /\ StartsInThePast'
  BY <1>1, SettledTypes, OtherTypes DEF SystemInv, SettlementStep
<1>4. DebtsArePaid'
  BY <1>1, DebtsStayPaid DEF SystemInv
<1> QED  BY <1>1, <1>2, <1>3, <1>4 DEF SystemInv, SystemTypeOK

(* What the constructors and the deployment leave.                         *)
LEMMA InitialReceivers ==
    ASSUME PrAssumption, PrInit, SaInit
    PROVE  AdminTypeOK /\ PaidTypeOK /\ AllObligations = {}
<1>1. AdminTypeOK
  BY DEF PrInit, PrAssumption, AdminTypeOK
<1>2. PaidTypeOK
  BY DEF PrInit, PaidTypeOK
<1>3. AllObligations = {}
  BY DEF SaInit, AllObligations
<1> QED  BY <1>1, <1>2, <1>3

(* The earlier build's storage, read by this one.                          *)
LEMMA LegacyBook ==
    ASSUME PrAssumption, PmAssumption, LegacyInit
    PROVE  PmTypeOK /\ StartsInThePast
<1>1. /\ LegacyPolicy \in Policy
      /\ LegacyPolicy.start_date = 0
      /\ LegacyPolicy.end_date \in Nat
      /\ LegacyPolicy.farmer \in Farmers /\ LegacyPolicy.org \in Orgs
      /\ LegacyPolicy.sum_insured \in Nat
  BY DEF PrAssumption, Policy
<1>2. now = 0 /\ policyCounter = 1 /\ policies = [id \in {1} |-> LegacyPolicy]
  BY DEF LegacyInit
<1>3. 1 .. policyCounter = {1}
  BY <1>2
<1>4. /\ policies \in [1 .. policyCounter -> Policy]
      /\ \A id \in 1 .. policyCounter : policies[id].start_date <= policies[id].end_date
  BY <1>1, <1>2, <1>3
<1>5. farmerPolicies \in [Farmers -> Seq(1 .. policyCounter)]
  <2>1. << >> \in Seq({1}) /\ <<1>> \in Seq({1})
    OBVIOUS
  <2> QED  BY <1>3, <2>1 DEF LegacyInit
<1>6. farmerClaimTimes \in [Farmers -> Seq(Nat)]
  BY DEF LegacyInit
<1>7. /\ farmerActiveCount \in [Farmers -> Nat] /\ farmerPendingCount \in [Farmers -> Nat]
      /\ orgOutstanding \in [Orgs -> Nat] /\ pendingCounted = {1}
  BY <1>1 DEF LegacyInit
<1>8. policyNft \in NftAddrs \cup {None}
  BY DEF LegacyInit, PmAssumption
<1>9. PmTypeOK
  BY <1>2, <1>3, <1>4, <1>5, <1>6, <1>7, <1>8 DEF PmTypeOK, BookTypeOK
<1>10. StartsInThePast
  BY <1>1, <1>2 DEF StartsInThePast
<1> QED  BY <1>9, <1>10

(* Both ways the system may begin satisfy the invariant.                   *)
LEMMA SystemInitial ==
    ASSUME PrAssumption, PmAssumption, SaAssumption, Init \/ LegacyInit
    PROVE  SystemInv /\ AllObligations = {}
<1>1. now = 0 /\ SaInit /\ PrInit
  BY DEF Init, LegacyInit
<1>2. AdminTypeOK /\ PaidTypeOK /\ AllObligations = {}
  BY <1>1, InitialReceivers
<1>3. RegisterInv
  BY <1>1, RegisterInitial DEF LedgerInit
<1>4. PmTypeOK /\ StartsInThePast
  <2>1. CASE Init
    <3>1. PmTypeOK
      BY <2>1, InitialBook DEF Init
    <3>2. StartsInThePast
      BY <2>1 DEF Init, PmInit, StartsInThePast
    <3> QED  BY <3>1, <3>2
  <2> QED  BY <2>1, LegacyBook
<1>5. DebtsArePaid
  BY <1>2 DEF DebtsArePaid
<1> QED  BY <1>2, <1>3, <1>4, <1>5 DEF SystemInv, SystemTypeOK

(* The storage of all four contracts keeps its shape in the composed       *)
(* system, and every debt is for a policy its receiver marked as paid.     *)
THEOREM SystemCorrect == Spec \/ LegacySpec => []SystemInv
<1>1. Init \/ LegacyInit => SystemInv
  BY PrAssumption, PmAssumption, SaAssumption, SystemInitial
<1>2. SystemInv /\ [Next]_vars => SystemInv'
  BY PrAssumption, PmAssumption, SaAssumption, HostAssumption, SystemInductive
<1> QED  BY <1>1, <1>2, PTL DEF Spec, LegacySpec

(* The receivers' storage keeps its declared shape, whether the system     *)
(* starts empty or on the storage of an earlier build: in particular a     *)
(* report is kept for exactly the policies marked paid.                    *)
THEOREM PrTypeCorrect == Spec \/ LegacySpec => []PrTypeOK
<1>1. SystemInv => PrTypeOK
  BY DEF SystemInv, SystemTypeOK, AdminTypeOK, PaidTypeOK, PrTypeOK
<1> QED  BY <1>1, SystemCorrect, PTL

-----------------------------------------------------------------------------
(* What is owed is earned, and owed once.                                  *)

(* A receiver only marks what the same transaction closes as CLAIMED.      *)
PaidAreClaimed ==
    \A r \in Receivers : \A id \in policyPaid[r] : policies[id].status = "Claimed"

(* No two obligations, of any adapters, are for the same policy.           *)
OneDebtEach ==
    \A x, y \in AllObligations : Debt(x).policy_id = Debt(y).policy_id => x = y

DebtInv ==
    /\ PaidAreClaimed
    /\ OneDebtEach
    /\ ObligationsAreEarned
    /\ EvidenceFitsCover
    /\ EvidenceIsOfThePlot

(* What one debt has to be.                                                *)
Sound(ob, p, rep) ==
    /\ Earned(ob, p, rep)
    /\ Fits(ob.determination_digest[2], p, rep)
    /\ MeasuredFor(ob.determination_digest[2], ob.policy_id, p)

LEMMA EachIsSound ==
    ObligationsAreEarned /\ EvidenceFitsCover /\ EvidenceIsOfThePlot <=>
        \A x \in AllObligations :
            Sound(Debt(x), policies[Debt(x).policy_id],
                  reports[Debt(x).payout_receiver][Debt(x).policy_id])
BY DEF ObligationsAreEarned, EvidenceFitsCover, EvidenceIsOfThePlot, Sound, Debt

(* The payout is the floor of the share, and no more than the whole.       *)
LEMMA FloorShare ==
    ASSUME NEW sum \in Nat, NEW bp \in MIN_DAMAGE_THRESHOLD .. MAX_DAMAGE_PERCENTAGE,
           NEW amount, amount = (sum * bp) \div BASIS_POINTS
    PROVE  /\ amount * BASIS_POINTS <= sum * bp
           /\ (amount + 1) * BASIS_POINTS > sum * bp
           /\ amount <= sum
<1>1. bp \in Nat /\ bp <= 10000
  BY DEF MIN_DAMAGE_THRESHOLD, MAX_DAMAGE_PERCENTAGE
<1>2. PICK n \in Nat : n = sum * bp
  BY <1>1, ProductNat
<1>3. n <= sum * 10000
  BY <1>1, <1>2
<1>4. amount = n \div 10000
  BY <1>2 DEF BASIS_POINTS
<1>5. amount \in Nat /\ amount * 10000 <= n /\ (amount + 1) * 10000 > n
  BY <1>4
<1>6. amount <= sum
  BY <1>3, <1>5
<1> QED  BY <1>2, <1>5, <1>6 DEF BASIS_POINTS

(* The obligation of a justified report is sound, for the policy as the    *)
(* settlement leaves it.                                                   *)
LEMMA NewDebtSound ==
    ASSUME NEW p \in Policy, p.start_date <= now, now <= p.end_date, now \in Nat,
           NEW report, NEW digest, Justified(p, report, digest),
           NEW r, NEW pid, pid = report.policy_id, NEW index,
           NEW amount \in Nat \ {0}, amount = report.payout_amount
    PROVE  Sound(NewObligation(r, pid, p.org, amount, digest, now, index),
                 [p EXCEPT !.status = "Claimed"], report)
<1> DEFINE ob == NewObligation(r, pid, p.org, amount, digest, now, index)
           q == [p EXCEPT !.status = "Claimed"]
<1>1. /\ q.org = p.org /\ q.sum_insured = p.sum_insured /\ q.coverage_type = p.coverage_type
      /\ q.start_date = p.start_date /\ q.end_date = p.end_date
      /\ q.lat_e6 = p.lat_e6 /\ q.lon_e6 = p.lon_e6
  BY DEF Policy
<1>2. /\ ob.org = p.org /\ ob.amount = amount /\ ob.recorded_at = now
      /\ ob.determination_digest = digest /\ ob.policy_id = pid
  BY DEF NewObligation
<1>3. p.sum_insured \in Nat /\ p.start_date \in Nat /\ p.end_date \in Nat
  BY DEF Policy
<1> HIDE DEF ob, q
<1>4. /\ report.damage_percentage \in MIN_DAMAGE_THRESHOLD .. MAX_DAMAGE_PERCENTAGE
      /\ amount = (p.sum_insured * report.damage_percentage) \div BASIS_POINTS
      /\ now - report.assessed_at \in 0 .. MAX_REPORT_AGE
      /\ p.coverage_type = "Drought" =>
             now + SECONDS_PER_DAY > p.start_date + SEASON_WINDOW_SECS
      /\ Fits(digest[2], p, report)
  BY DEF Justified, PayoutFor
<1>5. /\ amount * BASIS_POINTS <= p.sum_insured * report.damage_percentage
      /\ (amount + 1) * BASIS_POINTS > p.sum_insured * report.damage_percentage
      /\ amount <= p.sum_insured
  BY <1>3, <1>4, FloorShare
<1>6. amount \in 1 .. p.sum_insured
  BY <1>3, <1>5
<1>7. now \in p.start_date .. p.end_date
  BY <1>3
<1>8. Earned(ob, q, report)
  BY <1>1, <1>2, <1>4, <1>5, <1>6, <1>7 DEF Earned
<1>9. Fits(digest[2], q, report)
  BY <1>1, <1>4 DEF Fits
<1>10. MeasuredFor(digest[2], pid, q)
  BY <1>1 DEF Justified, MeasuredFor
<1> QED  BY <1>2, <1>8, <1>9, <1>10 DEF Sound, ob, q

(* A settlement owes what its report justifies, for a policy nobody was    *)
(* owed anything for.                                                      *)
LEMMA SettledDebts ==
    ASSUME SystemInv, DebtInv, now' = now, NEW r \in Receivers, NEW a \in Adapters,
           NEW report, NEW digest, NEW oid, Settled(r, a, report, digest, oid)
    PROVE  DebtInv'
<1>1. PICK id : id = report.policy_id
  OBVIOUS
<1>2. PICK p \in Policy : p = policies[id]
  BY <1>1, SettledPolicy DEF SystemInv, SystemTypeOK
<1>3. /\ id \in DOMAIN policies /\ p.status = "Active" /\ now <= p.end_date
      /\ DOMAIN policies' = DOMAIN policies
      /\ policies'[id] = [p EXCEPT !.status = "Claimed"]
      /\ \A i \in DOMAIN policies : i # id => policies'[i] = policies[i]
  BY <1>1, <1>2, SettledPolicy DEF SystemInv, SystemTypeOK
<1>4. /\ Justified(p, report, digest)
      /\ Recorded(a, r, id, p.org, report.payout_amount, digest, oid)
      /\ policyPaid' = [policyPaid EXCEPT ![r] = @ \cup {id}]
      /\ reports' = [reports EXCEPT ![r] = Put(@, id, report)]
      /\ report.payout_amount \in Nat \ {0}
  BY <1>1, <1>2 DEF Settled, Recorded
<1>5. /\ AllObligations' = AllObligations \cup {<<a, oid>>}
      /\ Debt(<<a, oid>>)' = NewObligation(r, id, p.org, report.payout_amount, digest, now,
                                          NextOrgIndex(a, p.org))
      /\ \A x \in AllObligations : Debt(x)' = Debt(x)
  BY <1>4, RecordedDebts DEF SystemInv, SystemTypeOK, RegisterInv
<1>6. /\ policyPaid \in [Receivers -> SUBSET DOMAIN policies]
      /\ DOMAIN reports = Receivers
      /\ now \in Nat /\ p.start_date <= now
      /\ \A q \in Receivers : DOMAIN reports[q] = policyPaid[q]
  BY <1>2, <1>3 DEF SystemInv, SystemTypeOK, PaidTypeOK, PmTypeOK, BookTypeOK, StartsInThePast
<1>7. \A q \in Receivers : id \notin policyPaid[q]
  BY <1>2, <1>3 DEF DebtInv, PaidAreClaimed
<1>8. \A x \in AllObligations : /\ Debt(x).payout_receiver \in Receivers
                                /\ Debt(x).policy_id \in policyPaid[Debt(x).payout_receiver]
  BY ObligationParts
     DEF Debt, SystemInv, SystemTypeOK, RegisterInv, SaTypeOK, ObligationOK, DebtsArePaid
<1>9. /\ reports'[r][id] = report
      /\ \A q \in Receivers : \A i \in policyPaid[q] : reports'[q][i] = reports[q][i]
  BY <1>4, <1>6, <1>7 DEF Put
<1>10. PaidAreClaimed'
  <2>1. policies'[id].status = "Claimed"
    BY <1>3 DEF Policy
  <2>2. \A q \in Receivers : policyPaid'[q] \subseteq policyPaid[q] \cup {id}
    BY <1>4, <1>6
  <2>3. \A i \in DOMAIN policies : policies[i].status = "Claimed" => policies'[i].status = "Claimed"
    BY <1>3, <2>1
  <2> QED  BY <1>6, <2>1, <2>2, <2>3 DEF DebtInv, PaidAreClaimed
<1>11. Debt(<<a, oid>>)'.policy_id = id /\ Debt(<<a, oid>>)'.payout_receiver = r
  BY <1>5 DEF NewObligation
<1>12. OneDebtEach'
  <2>1. \A x \in AllObligations : Debt(x)'.policy_id = Debt(x).policy_id /\ Debt(x).policy_id # id
    BY <1>5, <1>7, <1>8
  <2> QED  BY <1>5, <1>11, <2>1 DEF DebtInv, OneDebtEach
<1>13. ASSUME NEW x \in AllObligations'
       PROVE  Sound(Debt(x)', policies'[Debt(x)'.policy_id],
                    reports'[Debt(x)'.payout_receiver][Debt(x)'.policy_id])
  <2>1. CASE x = <<a, oid>>
    <3>1. Sound(Debt(<<a, oid>>)', [p EXCEPT !.status = "Claimed"], report)
      BY <1>1, <1>3, <1>4, <1>5, <1>6, NewDebtSound
    <3> QED  BY <1>3, <1>9, <1>11, <2>1, <3>1
  <2>2. CASE x \in AllObligations
    <3>1. PICK q, i : q = Debt(x).payout_receiver /\ i = Debt(x).policy_id
      OBVIOUS
    <3>2. q \in Receivers /\ i \in policyPaid[q] /\ Debt(x)' = Debt(x)
      BY <1>5, <1>8, <2>2, <3>1
    <3>3. policies'[i] = policies[i] /\ reports'[q][i] = reports[q][i]
      BY <1>3, <1>6, <1>7, <1>9, <3>2
    <3>4. Sound(Debt(x), policies[i], reports[q][i])
      BY <2>2, <3>1, EachIsSound DEF DebtInv
    <3> QED  BY <3>1, <3>2, <3>3, <3>4
  <2> QED  BY <1>5, <1>13, <2>1, <2>2
<1>14. ObligationsAreEarned' /\ EvidenceFitsCover' /\ EvidenceIsOfThePlot'
  BY <1>13 DEF ObligationsAreEarned, EvidenceFitsCover, EvidenceIsOfThePlot, Sound, Debt
<1> QED  BY <1>10, <1>12, <1>14 DEF DebtInv

(* Soundness looks at the terms of the obligation only.                    *)
LEMMA SameSoundness ==
    ASSUME NEW new, NEW old, SameTerms(new, old), NEW p, NEW rep, Sound(old, p, rep)
    PROVE  Sound(new, p, rep)
BY DEF SameTerms, Sound, Earned

(* Every other step leaves the debts' terms, the paid policies, which are  *)
(* closed, and their reports as they are.                                  *)
LEMMA OtherDebts ==
    ASSUME PmAssumption, SystemInv, DebtInv, OtherStep
    PROVE  DebtInv'
<1>1. /\ AllObligations' = AllObligations
      /\ \A x \in AllObligations : SameTerms(Debt(x)', Debt(x))
  BY KeptDebts DEF SystemInv, SystemTypeOK, RegisterInv, OtherStep
<1>2. policyPaid' = policyPaid /\ reports' = reports
  BY DEF OtherStep
<1>3. \A q \in Receivers : \A i \in policyPaid[q] :
          policies[i].status = "Claimed" /\ policies'[i] = policies[i]
  <2>1. "Claimed" \notin OpenStatuses
    BY DEF OpenStatuses
  <2>2. \A q \in Receivers : \A i \in policyPaid[q] :
            i \in DOMAIN policies /\ policies[i].status = "Claimed"
    BY DEF SystemInv, SystemTypeOK, PaidTypeOK, DebtInv, PaidAreClaimed
  <2> QED  BY <2>1, <2>2, ClosedStays DEF SystemInv, SystemTypeOK, OtherStep
<1>4. \A x \in AllObligations : /\ Debt(x).payout_receiver \in Receivers
                                /\ Debt(x).policy_id \in policyPaid[Debt(x).payout_receiver]
  BY ObligationParts
     DEF Debt, SystemInv, SystemTypeOK, RegisterInv, SaTypeOK, ObligationOK, DebtsArePaid
<1>5. PaidAreClaimed'
  BY <1>2, <1>3 DEF PaidAreClaimed
<1>6. OneDebtEach'
  BY <1>1 DEF SameTerms, DebtInv, OneDebtEach
<1>7. ASSUME NEW x \in AllObligations'
      PROVE  Sound(Debt(x)', policies'[Debt(x)'.policy_id],
                   reports'[Debt(x)'.payout_receiver][Debt(x)'.policy_id])
  <2>1. PICK q, i : q = Debt(x).payout_receiver /\ i = Debt(x).policy_id
    OBVIOUS
  <2>2. x \in AllObligations /\ SameTerms(Debt(x)', Debt(x))
    BY <1>1, <1>7
  <2>3. policies'[i] = policies[i] /\ reports'[q][i] = reports[q][i]
    BY <1>2, <1>3, <1>4, <2>1, <2>2
  <2>4. Sound(Debt(x), policies[i], reports[q][i])
    BY <2>1, <2>2, EachIsSound DEF DebtInv
  <2>5. Sound(Debt(x)', policies[i], reports[q][i])
    BY <2>2, <2>4, SameSoundness
  <2>6. Debt(x)'.payout_receiver = q /\ Debt(x)'.policy_id = i
    BY <2>1, <2>2 DEF SameTerms
  <2> QED  BY <2>3, <2>5, <2>6
<1>8. ObligationsAreEarned' /\ EvidenceFitsCover' /\ EvidenceIsOfThePlot'
  BY <1>7 DEF ObligationsAreEarned, EvidenceFitsCover, EvidenceIsOfThePlot, Sound, Debt
<1> QED  BY <1>5, <1>6, <1>8 DEF DebtInv

(* Every debt is sound and no policy is owed for twice, however receivers  *)
(* and adapters are rotated, markers evicted and calls repeated.           *)
THEOREM DebtsCorrect == Spec \/ LegacySpec => []DebtInv
<1>1. Init \/ LegacyInit => DebtInv
  <2> SUFFICES ASSUME Init \/ LegacyInit PROVE DebtInv
    OBVIOUS
  <2>1. AllObligations = {}
    BY PrAssumption, PmAssumption, SaAssumption, SystemInitial
  <2>2. PaidAreClaimed
    BY DEF Init, LegacyInit, PrInit, PaidAreClaimed
  <2> QED  BY <2>1, <2>2 DEF DebtInv, OneDebtEach, ObligationsAreEarned, EvidenceFitsCover,
                             EvidenceIsOfThePlot
<1>2. SystemInv /\ DebtInv /\ [Next]_vars => DebtInv'
  <2> SUFFICES ASSUME SystemInv, DebtInv, [Next]_vars
               PROVE  DebtInv'
    OBVIOUS
  <2>1. (now' = now /\ SettlementStep) \/ OtherStep
    BY PrAssumption, PmAssumption, SaAssumption, HostAssumption, SystemInductive
  <2>2. CASE now' = now /\ SettlementStep
    BY <2>2, SettledDebts DEF SettlementStep
  <2>3. CASE OtherStep
    BY <2>3, PmAssumption, OtherDebts
  <2> QED  BY <2>1, <2>2, <2>3
<1> QED  BY <1>1, <1>2, SystemCorrect, PTL DEF Spec, LegacySpec

(* Every obligation is owed by the policy's own org, for the floor of the  *)
(* insured share and at most the sum insured, on the report its receiver   *)
(* keeps, inside the cover window and, for drought, after a whole season   *)
(* of cover (submit_drought_determination, submit_determination).          *)
THEOREM ObligationsEarned == Spec \/ LegacySpec => []ObligationsAreEarned
<1>1. DebtInv => ObligationsAreEarned
  BY DEF DebtInv
<1> QED  BY <1>1, DebtsCorrect, PTL

(* A cover is settled only by the methodology that measures its peril,     *)
(* whichever methodologies were enabled when, and for the damage its       *)
(* evidence gives: submit_drought_determination recomputes the index of    *)
(* the signed rain, submit_determination weighs the two sub-scores.        *)
THEOREM EvidenceFits == Spec \/ LegacySpec => []EvidenceFitsCover
<1>1. DebtInv => EvidenceFitsCover
  BY DEF DebtInv
<1> QED  BY <1>1, DebtsCorrect, PTL

(* What is owed for a policy rests on a determination made for that very   *)
(* policy, within the tolerance of its plot (require_plot).                *)
THEOREM EvidenceMeasuredAtPlot == Spec \/ LegacySpec => []EvidenceIsOfThePlot
<1>1. DebtInv => EvidenceIsOfThePlot
  BY DEF DebtInv
<1> QED  BY <1>1, DebtsCorrect, PTL

-----------------------------------------------------------------------------
(* Paid exactly once.                                                      *)

(* deploy.sh gives the Oracle role of the manager to the receiver only.    *)
(* An account that held it could mark a policy as claimed for which        *)
(* nothing is owed.                                                        *)
OnlyContractsAreOracles ==
    \A g \in PmWiring.grants \cup PmGrants : g[1] = "Oracle" => g[2] \notin Accounts

(* What is CLAIMED was paid, and is owed.                                  *)
ClaimedAreOwed ==
    \A id \in DOMAIN policies : policies[id].status = "Claimed" =>
        /\ \E r \in Receivers : id \in policyPaid[r]
        /\ \E x \in AllObligations : Debt(x).policy_id = id

ClaimInv == ClaimedAreOwed /\ ~AccountOracle

(* The manager's registry changes only by the grants the admin may make.   *)
LEMMA NoNewOracle ==
    ASSUME OnlyContractsAreOracles, ~AccountOracle, [Next]_vars
    PROVE  ~AccountOracle'
<1>1. CASE UNCHANGED pmRoles
  BY <1>1 DEF AccountOracle, has_role
<1>2. ASSUME NEW caller, NEW g \in PmGrants,
             pm_grant_role(caller, g[1], g[2]) \/ pm_revoke_role(caller, g[1], g[2])
      PROVE  ~AccountOracle'
  BY <1>2 DEF pm_grant_role, pm_revoke_role, with_role, without_role, AccountOracle, has_role,
              OnlyContractsAreOracles
<1>3. ASSUME Settlement
      PROVE  UNCHANGED pmRoles
  <2>1. \A r, report, digest : settle_verified(r, report, digest) => UNCHANGED pmRoles
    BY DEF settle_verified, mark_as_claimed
  <2>2. \E r, report, digest : settle_verified(r, report, digest)
    BY <1>3 DEF Settlement, submit_drought_determination, submit_determination
  <2> QED  BY <2>1, <2>2
<1>4. ASSUME PmStep
      PROVE  \/ UNCHANGED pmRoles
             \/ \E caller \in Accounts : \E g \in PmGrants :
                   pm_grant_role(caller, g[1], g[2]) \/ pm_revoke_role(caller, g[1], g[2])
  <2>1. /\ \A caller, request : create_policy(caller, request) => UNCHANGED pmRoles
        /\ \A caller, id, d : activate_policy(caller, id, d) => UNCHANGED pmRoles
    BY DEF create_policy, activate_policy
  <2>2. \A caller, id : /\ mark_as_claimed(caller, id) => UNCHANGED pmRoles
                        /\ cancel_policy(caller, id) => UNCHANGED pmRoles
                        /\ expire_policy(id) => UNCHANGED pmRoles
    BY DEF mark_as_claimed, cancel_policy, expire_policy, Close
  <2>3. \A caller, n : set_policy_nft(caller, n) => UNCHANGED pmRoles
    BY DEF set_policy_nft
  <2> QED  BY <1>4, <2>1, <2>2, <2>3 DEF PmStep
<1>5. Settlement \/ PmStep \/ UNCHANGED pmRoles
  BY DEF Next, vars, pmVars
<1> QED  BY <1>1, <1>2, <1>3, <1>4, <1>5

(* The deployment makes no account an oracle.                              *)
LEMMA NoInitialOracle ==
    ASSUME OnlyContractsAreOracles, Init \/ LegacyInit
    PROVE  ~AccountOracle
<1>1. pmRoles = {<<"Admin", Admin>>, <<"Upgrader", Admin>>} \cup PmWiring.grants
  BY DEF Init, LegacyInit, PmInit
<1> SUFFICES ASSUME NEW c \in Accounts, <<"Oracle", c>> \in pmRoles
             PROVE  FALSE
  BY DEF AccountOracle, has_role
<1>2. PICK g \in PmWiring.grants : g = <<"Oracle", c>>
  BY <1>1
<1>3. g[1] = "Oracle" /\ g[2] = c
  BY <1>2
<1> QED  BY <1>3 DEF OnlyContractsAreOracles

(* So none ever is.                                                        *)
LEMMA NoAccountOracle ==
    ASSUME OnlyContractsAreOracles
    PROVE  Spec \/ LegacySpec => []~AccountOracle
<1>1. Init \/ LegacyInit => ~AccountOracle
  BY OnlyContractsAreOracles, NoInitialOracle
<1>2. ~AccountOracle /\ [Next]_vars => ~AccountOracle'
  BY OnlyContractsAreOracles, NoNewOracle
<1> QED  BY <1>1, <1>2, PTL DEF Spec, LegacySpec

(* With no account an oracle, only a settlement makes a policy CLAIMED.    *)
LEMMA OthersClaimNothing ==
    ASSUME PmAssumption, PmTypeOK, ~AccountOracle, [BookNext]_bookSpecVars,
           NEW i \in DOMAIN policies', policies'[i].status = "Claimed"
    PROVE  i \in DOMAIN policies /\ policies[i].status = "Claimed"
<1>1. ASSUME NEW id, Sold(id)
      PROVE  i \in DOMAIN policies /\ policies[i].status = "Claimed"
  BY <1>1 DEF Sold
<1>2. ASSUME NEW id, Started(id)
      PROVE  i \in DOMAIN policies /\ policies[i].status = "Claimed"
  <2>1. /\ DOMAIN policies' = DOMAIN policies
        /\ i # id => policies'[i] = policies[i]
        /\ policies'[id].status = "Active"
    BY <1>2, LaterSteps DEF SameParties
  <2> QED  BY <2>1
<1>3. ASSUME NEW id, NEW status, Closed(id, status), status = "Claimed" => AccountOracle
      PROVE  i \in DOMAIN policies /\ policies[i].status = "Claimed"
  <2>1. /\ DOMAIN policies' = DOMAIN policies
        /\ i # id => policies'[i] = policies[i]
        /\ policies'[id].status = status
    BY <1>3, LaterSteps DEF SameParties
  <2> QED  BY <1>3, <2>1
<1>4. BookStep \/ UNCHANGED bookVars
  BY BookStepKinds
<1> QED  BY <1>1, <1>2, <1>3, <1>4 DEF BookStep, bookVars

(* A settlement pays what it claims; nothing else claims, and nothing      *)
(* unpays.                                                                 *)
LEMMA ClaimedStayOwed ==
    ASSUME PmAssumption, SystemInv, ClaimInv, SettlementStep \/ OtherStep
    PROVE  ClaimedAreOwed'
<1>1. policyPaid \in [Receivers -> SUBSET DOMAIN policies] /\ SaTypeOK
  BY DEF SystemInv, SystemTypeOK, PaidTypeOK, RegisterInv
<1>2. ASSUME NEW r \in Receivers, NEW a \in Adapters, NEW report, NEW digest, NEW oid,
             Settled(r, a, report, digest, oid)
      PROVE  ClaimedAreOwed'
  <2>1. PICK id, org : id = report.policy_id /\ org = policies[id].org
    OBVIOUS
  <2>2. /\ Recorded(a, r, id, org, report.payout_amount, digest, oid)
        /\ policyPaid' = [policyPaid EXCEPT ![r] = @ \cup {id}]
    BY <1>2, <2>1 DEF Settled
  <2>3. /\ AllObligations' = AllObligations \cup {<<a, oid>>}
        /\ Debt(<<a, oid>>)' = NewObligation(r, id, org, report.payout_amount, digest, now,
                                            NextOrgIndex(a, org))
        /\ \A x \in AllObligations : Debt(x)' = Debt(x)
    BY <1>1, <2>2, RecordedDebts
  <2>4. Debt(<<a, oid>>)'.policy_id = id
    BY <2>3 DEF NewObligation
  <2>5. \A q \in Receivers : policyPaid[q] \subseteq policyPaid'[q]
    BY <1>1, <2>2
  <2>6. id \in policyPaid'[r]
    BY <1>1, <2>2
  <2>7. /\ DOMAIN policies' = DOMAIN policies
        /\ \A i \in DOMAIN policies : i # id => policies'[i] = policies[i]
    <3>1. PICK q : policies' = [policies EXCEPT ![id] = q]
      BY <1>2, <2>1 DEF Settled, Closed
    <3> QED  BY <3>1
  <2>8. <<a, oid>> \in AllObligations' /\ AllObligations \subseteq AllObligations'
    BY <2>3
  <2>9. ASSUME NEW i \in DOMAIN policies', policies'[i].status = "Claimed"
        PROVE  /\ \E q \in Receivers : i \in policyPaid'[q]
               /\ \E x \in AllObligations' : Debt(x)'.policy_id = i
    <3>1. CASE i = id
      BY <2>4, <2>6, <2>8, <3>1
    <3>2. CASE i # id
      <4>1. i \in DOMAIN policies /\ policies[i].status = "Claimed"
        BY <2>7, <2>9, <3>2
      <4>2. /\ \E q \in Receivers : i \in policyPaid[q]
            /\ \E x \in AllObligations : Debt(x).policy_id = i
        BY <4>1 DEF ClaimInv, ClaimedAreOwed
      <4> QED  BY <2>3, <2>5, <2>8, <4>2
    <3> QED  BY <3>1, <3>2
  <2> QED  BY <2>9 DEF ClaimedAreOwed
<1>3. CASE OtherStep
  <2>1. /\ AllObligations' = AllObligations
        /\ \A x \in AllObligations : SameTerms(Debt(x)', Debt(x))
    BY <1>1, <1>3, KeptDebts DEF OtherStep
  <2>2. policyPaid' = policyPaid /\ PmTypeOK /\ [BookNext]_bookSpecVars
    BY <1>3 DEF OtherStep, SystemInv, SystemTypeOK
  <2>3. \A i \in DOMAIN policies' : policies'[i].status = "Claimed" =>
            i \in DOMAIN policies /\ policies[i].status = "Claimed"
    BY <2>2, OthersClaimNothing DEF ClaimInv
  <2> QED  BY <2>1, <2>2, <2>3 DEF SameTerms, ClaimInv, ClaimedAreOwed
<1> QED  BY <1>2, <1>3 DEF SettlementStep

(* The three invariants together are the property.                         *)
LEMMA OnceOverall ==
    ASSUME SystemInv, DebtInv, ClaimInv
    PROVE  PaidExactlyOnce
<1> SUFFICES ASSUME NEW id \in DOMAIN policies
             PROVE  /\ Cardinality(ObligationsFor(id)) <= 1
                    /\ policies[id].status = "Claimed" <=> ObligationsFor(id) # {}
                    /\ policies[id].status = "Claimed" <=> \E r \in Receivers : id \in policyPaid[r]
  BY DEF PaidExactlyOnce
<1>1. \A x : x \in ObligationsFor(id) <=> x \in AllObligations /\ Debt(x).policy_id = id
  BY DEF ObligationsFor, Debt
<1>2. Cardinality(ObligationsFor(id)) <= 1
  <2>1. CASE ObligationsFor(id) = {}
    BY <2>1, FS_EmptySet
  <2>2. CASE ObligationsFor(id) # {}
    <3>1. PICK x : x \in ObligationsFor(id)
      BY <2>2
    <3>2. ObligationsFor(id) = {x}
      BY <1>1, <3>1 DEF DebtInv, OneDebtEach
    <3>3. Cardinality({x}) = 1
      BY FS_Singleton
    <3> QED  BY <3>2, <3>3
  <2> QED  BY <2>1, <2>2
<1>3. \A x \in AllObligations : Debt(x).payout_receiver \in Receivers
  BY ObligationParts
     DEF Debt, SystemInv, SystemTypeOK, RegisterInv, SaTypeOK, ObligationOK
<1>4. \A x \in ObligationsFor(id) : \E r \in Receivers : id \in policyPaid[r]
  BY <1>1, <1>3 DEF SystemInv, DebtsArePaid
<1>5. (\E r \in Receivers : id \in policyPaid[r]) => policies[id].status = "Claimed"
  BY DEF DebtInv, PaidAreClaimed
<1>6. policies[id].status = "Claimed" =>
          ObligationsFor(id) # {} /\ \E r \in Receivers : id \in policyPaid[r]
  BY <1>1 DEF ClaimInv, ClaimedAreOwed
<1> QED  BY <1>2, <1>4, <1>5, <1>6

(* Across replays, evicted digest markers, adapter swaps, receiver         *)
(* rotation and any number of receivers and adapters on one manager, a     *)
(* policy is owed for at most once, and it is CLAIMED exactly when it is   *)
(* (open_policy, MarkPaid, record_obligation, mark_as_claimed).            *)
THEOREM PaidOnce ==
    ASSUME OnlyContractsAreOracles
    PROVE  Spec \/ LegacySpec => []PaidExactlyOnce
<1>1. Init \/ LegacyInit => ClaimInv
  <2> SUFFICES ASSUME Init \/ LegacyInit PROVE ClaimInv
    OBVIOUS
  <2>1. \A id \in DOMAIN policies : policies[id].status = "Pending"
    BY PrAssumption DEF Init, LegacyInit, PmInit, PrAssumption
  <2> QED  BY <2>1, NoInitialOracle DEF ClaimInv, ClaimedAreOwed
<1>2. SystemInv /\ ClaimInv /\ [Next]_vars => ClaimInv'
  <2> SUFFICES ASSUME SystemInv, ClaimInv, [Next]_vars
               PROVE  ClaimInv'
    OBVIOUS
  <2>1. SettlementStep \/ OtherStep
    BY PrAssumption, PmAssumption, SaAssumption, HostAssumption, SystemInductive
  <2>2. ClaimedAreOwed'
    BY <2>1, PmAssumption, ClaimedStayOwed
  <2>3. ~AccountOracle'
    BY NoNewOracle DEF ClaimInv
  <2> QED  BY <2>2, <2>3 DEF ClaimInv
<1>3. SystemInv /\ DebtInv /\ ClaimInv => PaidExactlyOnce
  BY OnceOverall
<1> QED  BY <1>1, <1>2, <1>3, SystemCorrect, DebtsCorrect, PTL DEF Spec, LegacySpec

=============================================================================
