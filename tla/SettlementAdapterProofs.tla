---------------------- MODULE SettlementAdapterProofs ----------------------
(***************************************************************************)
(* Theorems about SettlementAdapter, for every set of adapters, receivers, *)
(* claims and attestations and every number of obligations: the register   *)
(* is well formed, its two indexes are exact, and it implements the        *)
(* abstract ObligationLedger.                                              *)
(***************************************************************************)
EXTENDS SettlementAdapter, SequenceTheorems, TLAPS

RegisterInv == SaTypeOK /\ LookupExact /\ OrgIndexExact

-----------------------------------------------------------------------------
(* Facts about the operators the actions are built from.                   *)

(* The obligation record_obligation stores for a claim.                    *)
NewObligation(r, pid, org, amount, digest, at, index) ==
    [payout_receiver |-> r, policy_id |-> pid, org |-> org,
     amount |-> amount, determination_digest |-> digest,
     status |-> "Owed", recorded_at |-> at, org_index |-> index,
     funded_by |-> None, funded_at |-> 0, funding_reference |-> None,
     settled_by |-> None, settled_at |-> 0, settlement_reference |-> None]

(* The first call for a claim, in terms of what every adapter then holds.  *)
Recorded(a, r, pid, org, amount, digest, id) ==
    /\ id = nextObligationId[a]
    /\ <<r, pid>> \notin DOMAIN obligationOf[a]
    /\ amount \in Nat \ {0}
    /\ nextObligationId' = [nextObligationId EXCEPT ![a] = id + 1]
    /\ DOMAIN obligations' = Adapters
    /\ DOMAIN obligationOf' = Adapters
    /\ \A b \in Adapters : b # a => /\ obligations'[b] = obligations[b]
                                    /\ obligationOf'[b] = obligationOf[b]
    /\ DOMAIN obligations'[a] = DOMAIN obligations[a] \cup {id}
    /\ obligations'[a][id] =
          NewObligation(r, pid, org, amount, digest, now, NextOrgIndex(a, org))
    /\ \A i \in DOMAIN obligations[a] : obligations'[a][i] = obligations[a][i]
    /\ DOMAIN obligationOf'[a] = DOMAIN obligationOf[a] \cup {<<r, pid>>}
    /\ obligationOf'[a][<<r, pid>>] = id
    /\ \A k \in DOMAIN obligationOf[a] : obligationOf'[a][k] = obligationOf[a][k]
    /\ orgObligations' = [orgObligations EXCEPT ![a][org] = Append(@, id)]
    /\ UNCHANGED saPayoutReceiver

(* record_obligation either repeats a recorded claim, changing nothing, or *)
(* records a new one.                                                      *)
LEMMA RecordEffect ==
    ASSUME SaTypeOK, NEW a \in Adapters, NEW r, NEW pid, NEW org,
           NEW amount \in Int, NEW digest,
           record_obligation(a, r, pid, org, amount, digest)
    PROVE  \/ /\ <<r, pid>> \in DOMAIN obligationOf[a]
              /\ UNCHANGED <<saPayoutReceiver, recordVars>>
           \/ \E id : Recorded(a, r, pid, org, amount, digest, id)
<1>01. \/ /\ <<r, pid>> \in DOMAIN obligationOf[a]
          /\ UNCHANGED <<saPayoutReceiver, recordVars>>
       \/ <<r, pid>> \notin DOMAIN obligationOf[a]
  BY DEF record_obligation, ObligationKey
<1> SUFFICES ASSUME <<r, pid>> \notin DOMAIN obligationOf[a]
             PROVE  Recorded(a, r, pid, org, amount, digest, nextObligationId[a])
  BY <1>01
<1>0. PICK id : id = nextObligationId[a]
  OBVIOUS
<1> DEFINE claim == <<r, pid>>
           ob == NewObligation(r, pid, org, amount, digest, now, NextOrgIndex(a, org))
<1>1. /\ claim \notin DOMAIN obligationOf[a]
      /\ nextObligationId' = [nextObligationId EXCEPT ![a] = id + 1]
      /\ obligations' = [obligations EXCEPT ![a] = Put(obligations[a], id, ob)]
      /\ obligationOf' = [obligationOf EXCEPT ![a] = Put(obligationOf[a], claim, id)]
      /\ orgObligations' = [orgObligations EXCEPT ![a][org] = Append(@, id)]
      /\ UNCHANGED saPayoutReceiver
  BY <1>0 DEF record_obligation, ObligationKey, recordVars, NewObligation
<1>2. amount \in Nat \ {0}
  BY DEF record_obligation, MayRecord
<1>3. id \in Nat \ {0} /\ DOMAIN obligations[a] = 1 .. id - 1
  BY <1>0 DEF SaTypeOK
<1>4. id \notin DOMAIN obligations[a]
  BY <1>3
<1>5. DOMAIN obligations = Adapters /\ DOMAIN obligationOf = Adapters
  BY DEF SaTypeOK
<1> HIDE DEF claim, ob
<1>6. /\ DOMAIN obligations' = Adapters
      /\ obligations'[a] = Put(obligations[a], id, ob)
      /\ \A b \in Adapters : b # a => obligations'[b] = obligations[b]
  BY <1>1, <1>5
<1>7. /\ DOMAIN obligationOf' = Adapters
      /\ obligationOf'[a] = Put(obligationOf[a], claim, id)
      /\ \A b \in Adapters : b # a => obligationOf'[b] = obligationOf[b]
  BY <1>1, <1>5
<1>8. /\ DOMAIN obligations'[a] = DOMAIN obligations[a] \cup {id}
      /\ obligations'[a][id] = ob
      /\ \A i \in DOMAIN obligations[a] : obligations'[a][i] = obligations[a][i]
  BY <1>4, <1>6 DEF Put
<1>9. /\ DOMAIN obligationOf'[a] = DOMAIN obligationOf[a] \cup {claim}
      /\ obligationOf'[a][claim] = id
      /\ \A k \in DOMAIN obligationOf[a] : obligationOf'[a][k] = obligationOf[a][k]
  BY <1>1, <1>7 DEF Put
<1> QED
  BY <1>0, <1>1, <1>2, <1>6, <1>7, <1>8, <1>9 DEF claim, ob, Recorded

(* The terms of an obligation, which no mark may touch.                    *)
SameTerms(new, old) ==
    /\ new.payout_receiver = old.payout_receiver
    /\ new.policy_id = old.policy_id
    /\ new.org = old.org
    /\ new.amount = old.amount
    /\ new.determination_digest = old.determination_digest
    /\ new.recorded_at = old.recorded_at
    /\ new.org_index = old.org_index

FundedBy(new, old, caller) ==
    /\ old.status = "Owed" /\ new.status = "Funded" /\ new.funded_by = caller
    /\ new.settled_by = old.settled_by
    /\ new.settled_at = old.settled_at
    /\ new.settlement_reference = old.settlement_reference

SettledBy(new, old, caller) ==
    /\ old.status \in {"Owed", "Funded"} /\ new.status = "Settled" /\ new.settled_by = caller
    /\ new.funded_by = old.funded_by
    /\ new.funded_at = old.funded_at
    /\ new.funding_reference = old.funding_reference

(* A mark: one obligation of one adapter gets one attestation.             *)
Marked(a, caller, id) ==
    /\ DOMAIN obligations' = Adapters
    /\ \A b \in Adapters : b # a => obligations'[b] = obligations[b]
    /\ DOMAIN obligations'[a] = DOMAIN obligations[a]
    /\ \A i \in DOMAIN obligations[a] : i # id => obligations'[a][i] = obligations[a][i]
    /\ DOMAIN obligations'[a][id] = ObligationFields
    /\ SameTerms(obligations'[a][id], obligations[a][id])
    /\ \/ FundedBy(obligations'[a][id], obligations[a][id], caller)
       \/ SettledBy(obligations'[a][id], obligations[a][id], caller)
    /\ UNCHANGED <<saPayoutReceiver, nextObligationId, obligationOf, orgObligations>>

(* mark_funded and mark_settled are marks.                                 *)
LEMMA MarkEffect ==
    ASSUME SaTypeOK, NEW a \in Adapters, NEW caller \in Accounts,
           NEW id \in DOMAIN obligations[a], NEW ref,
           mark_funded(a, caller, id, ref) \/ mark_settled(a, caller, id, ref)
    PROVE  Marked(a, caller, id)
<1> USE DEF Marked
<1> DEFINE ob == obligations[a][id]
<1>1. /\ DOMAIN obligations = Adapters
      /\ DOMAIN ob = ObligationFields
  BY DEF SaTypeOK, ObligationOK
<1>2. CASE mark_funded(a, caller, id, ref)
  <2> DEFINE new == [ob EXCEPT !.status = "Funded", !.funded_by = caller,
                               !.funded_at = now, !.funding_reference = ref]
  <2>1. /\ ob.status = "Owed"
        /\ obligations' = [obligations EXCEPT ![a] = [obligations[a] EXCEPT ![id] = new]]
        /\ UNCHANGED <<saPayoutReceiver, nextObligationId, obligationOf, orgObligations>>
    BY <1>2 DEF mark_funded, Fundable
  <2>2. /\ DOMAIN new = ObligationFields
        /\ SameTerms(new, ob)
        /\ FundedBy(new, ob, caller)
    BY <1>1, <2>1 DEF ObligationFields, SameTerms, FundedBy
  <2> HIDE DEF new
  <2> QED  BY <1>1, <2>1, <2>2
<1>3. CASE mark_settled(a, caller, id, ref)
  <2> DEFINE new == [ob EXCEPT !.status = "Settled", !.settled_by = caller,
                               !.settled_at = now, !.settlement_reference = ref]
  <2>1. /\ ob.status \in {"Owed", "Funded"}
        /\ obligations' = [obligations EXCEPT ![a] = [obligations[a] EXCEPT ![id] = new]]
        /\ UNCHANGED <<saPayoutReceiver, nextObligationId, obligationOf, orgObligations>>
    BY <1>3 DEF mark_settled
  <2>2. /\ DOMAIN new = ObligationFields
        /\ SameTerms(new, ob)
        /\ SettledBy(new, ob, caller)
    BY <1>1, <2>1 DEF ObligationFields, SameTerms, SettledBy
  <2> HIDE DEF new
  <2> QED  BY <1>1, <2>1, <2>2
<1> QED  BY <1>2, <1>3

-----------------------------------------------------------------------------
(* Every operation keeps the register well formed and its indexes exact.   *)

(* record_obligation keeps the type invariant.                             *)
LEMMA RecordType ==
    ASSUME SaTypeOK, now' = now, NEW a \in Adapters, NEW r \in Receivers, NEW pid,
           NEW org \in Orgs, NEW amount, NEW digest, NEW id,
           Recorded(a, r, pid, org, amount, digest, id)
    PROVE  SaTypeOK'
<1> DEFINE ob == NewObligation(r, pid, org, amount, digest, now, NextOrgIndex(a, org))
<1>1. id = nextObligationId[a] /\ amount \in Nat \ {0}
  BY DEF Recorded
<1>2. /\ id \in Nat \ {0} /\ now \in Nat
      /\ orgObligations[a][org] \in Seq(Nat)
  BY <1>1 DEF SaTypeOK
<1>3. ObligationOK(ob)
  <2>1. NextOrgIndex(a, org) \in Nat
    BY <1>2, LenProperties DEF NextOrgIndex
  <2> QED  BY <1>1, <1>2, <2>1 DEF ObligationOK, NewObligation, ObligationFields
<1>4. /\ nextObligationId' = [nextObligationId EXCEPT ![a] = id + 1]
      /\ orgObligations' = [orgObligations EXCEPT ![a][org] = Append(@, id)]
      /\ DOMAIN obligations' = Adapters /\ DOMAIN obligationOf' = Adapters
      /\ saPayoutReceiver' = saPayoutReceiver
  BY DEF Recorded
<1>5. /\ \A b \in Adapters : b # a => obligations'[b] = obligations[b]
      /\ DOMAIN obligations'[a] = DOMAIN obligations[a] \cup {id}
      /\ obligations'[a][id] = ob
      /\ \A i \in DOMAIN obligations[a] : obligations'[a][i] = obligations[a][i]
  BY DEF Recorded
<1> HIDE DEF ob
<1>6. nextObligationId' \in [Adapters -> Nat \ {0}]
  BY <1>2, <1>4 DEF SaTypeOK
<1>7. orgObligations' \in [Adapters -> [Orgs -> Seq(Nat)]]
  <2>1. Append(orgObligations[a][org], id) \in Seq(Nat)
    BY <1>2, AppendProperties
  <2> QED  BY <1>4, <2>1 DEF SaTypeOK
<1>8. ASSUME NEW b \in Adapters
      PROVE  /\ DOMAIN obligations'[b] = 1 .. nextObligationId'[b] - 1
             /\ \A i \in DOMAIN obligations'[b] : ObligationOK(obligations'[b][i])
  <2>1. CASE b # a
    BY <1>4, <1>5, <2>1 DEF SaTypeOK
  <2>2. CASE b = a
    <3>1. nextObligationId'[a] = id + 1 /\ DOMAIN obligations[a] = 1 .. id - 1
      BY <1>1, <1>4 DEF SaTypeOK
    <3>2. DOMAIN obligations'[a] = 1 .. nextObligationId'[a] - 1
      BY <1>2, <1>5, <3>1
    <3>3. \A i \in DOMAIN obligations[a] : ObligationOK(obligations[a][i])
      BY DEF SaTypeOK
    <3> QED  BY <1>3, <1>5, <2>2, <3>2, <3>3
  <2> QED  BY <2>1, <2>2
<1>9. (\A b \in Adapters : \A i \in DOMAIN obligations[b] : ObligationOK(obligations[b][i]))'
  BY <1>8 DEF ObligationOK
<1> QED  BY <1>2, <1>4, <1>6, <1>7, <1>8, <1>9 DEF SaTypeOK

(* A mark keeps the type invariant.                                        *)
LEMMA MarkType ==
    ASSUME HostAssumption, SaTypeOK, now' = now, NEW a \in Adapters,
           NEW caller \in Accounts, NEW id \in DOMAIN obligations[a],
           Marked(a, caller, id)
    PROVE  SaTypeOK'
<1> DEFINE old == obligations[a][id]
           new == obligations'[a][id]
<1>1. ObligationOK(old)
  BY DEF SaTypeOK
<1>2. caller # None
  BY DEF HostAssumption
<1>3. ObligationOK(new)
  <2>1. DOMAIN new = ObligationFields /\ SameTerms(new, old)
    BY DEF Marked
  <2>2. FundedBy(new, old, caller) \/ SettledBy(new, old, caller)
    BY DEF Marked
  <2> HIDE DEF new, old
  <2>3. CASE FundedBy(new, old, caller)
    BY <1>1, <1>2, <2>1, <2>3 DEF ObligationOK, SameTerms, FundedBy
  <2>4. CASE SettledBy(new, old, caller)
    BY <1>1, <1>2, <2>1, <2>4 DEF ObligationOK, SameTerms, SettledBy
  <2> QED  BY <2>2, <2>3, <2>4
<1>4. ASSUME NEW b \in Adapters
      PROVE  /\ DOMAIN obligations'[b] = 1 .. nextObligationId'[b] - 1
             /\ \A i \in DOMAIN obligations'[b] : ObligationOK(obligations'[b][i])
  <2>1. CASE b # a
    BY <2>1 DEF SaTypeOK, Marked
  <2>2. CASE b = a
    <3>1. DOMAIN obligations'[a] = DOMAIN obligations[a]
      BY DEF Marked
    <3>2. \A i \in DOMAIN obligations[a] : i # id => obligations'[a][i] = obligations[a][i]
      BY DEF Marked
    <3>3. DOMAIN obligations'[a] = 1 .. nextObligationId'[a] - 1
      BY <3>1 DEF SaTypeOK, Marked
    <3>4. \A i \in DOMAIN obligations[a] : ObligationOK(obligations[a][i])
      BY DEF SaTypeOK
    <3> QED  BY <1>3, <2>2, <3>1, <3>2, <3>3, <3>4
  <2> QED  BY <2>1, <2>2
<1>5. (\A b \in Adapters : \A i \in DOMAIN obligations[b] : ObligationOK(obligations[b][i]))'
  BY <1>4 DEF ObligationOK
<1>6. /\ DOMAIN obligations' = Adapters
      /\ UNCHANGED <<saPayoutReceiver, nextObligationId, obligationOf, orgObligations>>
  BY DEF Marked
<1> QED  BY <1>4, <1>5, <1>6 DEF SaTypeOK

(* record_obligation keeps find_obligation exact: the claim was unknown,   *)
(* and its id is fresh.                                                    *)
LEMMA RecordLookup ==
    ASSUME SaTypeOK, LookupExact, NEW a \in Adapters, NEW r, NEW pid, NEW org,
           NEW amount, NEW digest, NEW id,
           Recorded(a, r, pid, org, amount, digest, id)
    PROVE  LookupExact'
<1> DEFINE ob == NewObligation(r, pid, org, amount, digest, now, NextOrgIndex(a, org))
           obs == obligations[a]
           newObs == obligations'[a]
           of == obligationOf[a]
           newOf == obligationOf'[a]
           claim == <<r, pid>>
<1>1. /\ DOMAIN newObs = DOMAIN obs \cup {id}
      /\ newObs[id] = ob
      /\ \A i \in DOMAIN obs : newObs[i] = obs[i]
      /\ DOMAIN newOf = DOMAIN of \cup {claim}
      /\ newOf[claim] = id
      /\ \A k \in DOMAIN of : newOf[k] = of[k]
      /\ claim \notin DOMAIN of
  BY DEF Recorded
<1>2. ob.payout_receiver = r /\ ob.policy_id = pid
  BY DEF NewObligation
<1>3. /\ \A k \in DOMAIN of :
            /\ of[k] \in DOMAIN obs
            /\ k = <<obs[of[k]].payout_receiver, obs[of[k]].policy_id>>
      /\ \A i \in DOMAIN obs :
            /\ <<obs[i].payout_receiver, obs[i].policy_id>> \in DOMAIN of
            /\ of[<<obs[i].payout_receiver, obs[i].policy_id>>] = i
  BY DEF LookupExact
<1>4. \A b \in Adapters : b # a => /\ obligations'[b] = obligations[b]
                                   /\ obligationOf'[b] = obligationOf[b]
  BY DEF Recorded
<1> HIDE DEF ob, obs, newObs, of, newOf
<1>5. \A k \in DOMAIN newOf :
         /\ newOf[k] \in DOMAIN newObs
         /\ k = <<newObs[newOf[k]].payout_receiver, newObs[newOf[k]].policy_id>>
  BY <1>1, <1>2, <1>3
<1>6. \A i \in DOMAIN newObs :
         /\ <<newObs[i].payout_receiver, newObs[i].policy_id>> \in DOMAIN newOf
         /\ newOf[<<newObs[i].payout_receiver, newObs[i].policy_id>>] = i
  BY <1>1, <1>2, <1>3
<1> QED  BY <1>4, <1>5, <1>6 DEF LookupExact, newObs, newOf

(* A mark leaves what the lookup reads alone.                              *)
LEMMA MarkLookup ==
    ASSUME LookupExact, NEW a \in Adapters, NEW caller, NEW id \in DOMAIN obligations[a],
           Marked(a, caller, id)
    PROVE  LookupExact'
<1> DEFINE obs == obligations[a]
           newObs == obligations'[a]
<1>1. /\ DOMAIN newObs = DOMAIN obs
      /\ \A i \in DOMAIN obs : i # id => newObs[i] = obs[i]
      /\ SameTerms(newObs[id], obs[id])
  BY DEF Marked
<1>2. /\ \A b \in Adapters : b # a => obligations'[b] = obligations[b]
      /\ obligationOf' = obligationOf
  BY DEF Marked
<1>3. \A i \in DOMAIN obs : /\ newObs[i].payout_receiver = obs[i].payout_receiver
                            /\ newObs[i].policy_id = obs[i].policy_id
  <2> HIDE DEF obs, newObs
  <2> QED  BY <1>1 DEF SameTerms
<1>4. DOMAIN newObs = DOMAIN obs
  BY <1>1
<1> QED  BY <1>2, <1>3, <1>4 DEF LookupExact

(* record_obligation appends the id where the obligation says it is.       *)
LEMMA RecordOrgIndex ==
    ASSUME SaTypeOK, OrgIndexExact, NEW a \in Adapters, NEW r, NEW pid, NEW org \in Orgs,
           NEW amount, NEW digest, NEW id,
           Recorded(a, r, pid, org, amount, digest, id)
    PROVE  OrgIndexExact'
<1> DEFINE ob == NewObligation(r, pid, org, amount, digest, now, NextOrgIndex(a, org))
           obs == obligations[a]
           newObs == obligations'[a]
           old == orgObligations[a][org]
<1>1. /\ DOMAIN newObs = DOMAIN obs \cup {id}
      /\ newObs[id] = ob
      /\ \A i \in DOMAIN obs : newObs[i] = obs[i]
  BY DEF Recorded
<1>2. ob.org = org /\ ob.org_index = Len(old)
  BY DEF NewObligation, NextOrgIndex
<1>3. /\ \A b \in Adapters : b # a => /\ obligations'[b] = obligations[b]
                                      /\ orgObligations'[b] = orgObligations[b]
      /\ \A o \in Orgs : o # org => orgObligations'[a][o] = orgObligations[a][o]
      /\ orgObligations'[a][org] = Append(old, id)
  BY DEF Recorded, SaTypeOK
<1>4. id \in Nat /\ id \notin DOMAIN obs /\ old \in Seq(Nat)
  BY DEF Recorded, SaTypeOK
<1>5. ASSUME NEW o \in Orgs, o # org
      PROVE  LET ids == orgObligations'[a][o] IN
             /\ \A i \in DOMAIN ids :
                   /\ ids[i] \in DOMAIN newObs
                   /\ newObs[ids[i]].org = o
                   /\ newObs[ids[i]].org_index = i - 1
             /\ \A i \in DOMAIN newObs :
                   newObs[i].org = o =>
                       /\ newObs[i].org_index + 1 \in DOMAIN ids
                       /\ ids[newObs[i].org_index + 1] = i
  <2> DEFINE ids == orgObligations[a][o]
  <2>1. orgObligations'[a][o] = ids
    BY <1>3, <1>5
  <2>2. /\ \A i \in DOMAIN ids :
              /\ ids[i] \in DOMAIN obs
              /\ obs[ids[i]].org = o
              /\ obs[ids[i]].org_index = i - 1
        /\ \A i \in DOMAIN obs :
              obs[i].org = o =>
                  /\ obs[i].org_index + 1 \in DOMAIN ids
                  /\ ids[obs[i].org_index + 1] = i
    BY DEF OrgIndexExact
  <2> HIDE DEF ob, obs, newObs, ids
  <2> QED  BY <1>1, <1>2, <1>5, <2>1, <2>2
<1>6. LET ids == orgObligations'[a][org] IN
      /\ \A i \in DOMAIN ids :
            /\ ids[i] \in DOMAIN newObs
            /\ newObs[ids[i]].org = org
            /\ newObs[ids[i]].org_index = i - 1
      /\ \A i \in DOMAIN newObs :
            newObs[i].org = org =>
                /\ newObs[i].org_index + 1 \in DOMAIN ids
                /\ ids[newObs[i].org_index + 1] = i
  <2> DEFINE ids == Append(old, id)
             n == Len(old)
  <2>1. orgObligations'[a][org] = ids
    BY <1>3
  <2>2. /\ n \in Nat /\ DOMAIN old = 1 .. n /\ DOMAIN ids = 1 .. n + 1
        /\ \A i \in 1 .. n : ids[i] = old[i]
        /\ ids[n + 1] = id
    BY <1>4, LenProperties, AppendProperties
  <2>3. /\ \A i \in DOMAIN old :
              /\ old[i] \in DOMAIN obs
              /\ obs[old[i]].org = org
              /\ obs[old[i]].org_index = i - 1
        /\ \A i \in DOMAIN obs :
              obs[i].org = org =>
                  /\ obs[i].org_index + 1 \in DOMAIN old
                  /\ old[obs[i].org_index + 1] = i
    BY DEF OrgIndexExact
  <2>4. ob.org_index = n
    BY <1>2
  <2>5. \A i \in DOMAIN obs : obs[i].org_index \in Nat
    BY DEF SaTypeOK, ObligationOK
  <2> HIDE DEF ob, obs, newObs, ids, old, n
  <2>6. ASSUME NEW i \in DOMAIN ids
        PROVE  /\ ids[i] \in DOMAIN newObs
               /\ newObs[ids[i]].org = org
               /\ newObs[ids[i]].org_index = i - 1
    <3>1. CASE i = n + 1
      BY <1>1, <1>2, <2>2, <2>4, <3>1
    <3>2. CASE i \in 1 .. n
      BY <1>1, <2>2, <2>3, <3>2
    <3> QED  BY <2>2, <3>1, <3>2
  <2>7. ASSUME NEW i \in DOMAIN newObs, newObs[i].org = org
        PROVE  /\ newObs[i].org_index + 1 \in DOMAIN ids
               /\ ids[newObs[i].org_index + 1] = i
    <3>1. CASE i = id
      BY <1>1, <2>2, <2>4, <3>1
    <3>2. CASE i \in DOMAIN obs
      BY <1>1, <2>2, <2>3, <2>5, <2>7, <3>2
    <3> QED  BY <1>1, <3>1, <3>2
  <2> QED  BY <2>1, <2>6, <2>7
<1>7. ASSUME NEW o \in Orgs
      PROVE  LET ids == orgObligations'[a][o] IN
             /\ \A i \in DOMAIN ids :
                   /\ ids[i] \in DOMAIN newObs
                   /\ newObs[ids[i]].org = o
                   /\ newObs[ids[i]].org_index = i - 1
             /\ \A i \in DOMAIN newObs :
                   newObs[i].org = o =>
                       /\ newObs[i].org_index + 1 \in DOMAIN ids
                       /\ ids[newObs[i].org_index + 1] = i
  <2> HIDE DEF ob, old, newObs
  <2> QED  BY <1>5, <1>6
<1> QED
  <2> HIDE DEF ob, old
  <2> QED  BY <1>3, <1>7 DEF OrgIndexExact

(* A mark leaves the org index and what it refers to alone.                *)
LEMMA MarkOrgIndex ==
    ASSUME OrgIndexExact, NEW a \in Adapters, NEW caller, NEW id \in DOMAIN obligations[a],
           Marked(a, caller, id)
    PROVE  OrgIndexExact'
<1> DEFINE obs == obligations[a]
           newObs == obligations'[a]
<1>1. /\ DOMAIN newObs = DOMAIN obs
      /\ \A i \in DOMAIN obs : i # id => newObs[i] = obs[i]
      /\ SameTerms(newObs[id], obs[id])
  BY DEF Marked
<1>2. /\ \A b \in Adapters : b # a => obligations'[b] = obligations[b]
      /\ orgObligations' = orgObligations
  BY DEF Marked
<1>3. \A i \in DOMAIN obs : /\ newObs[i].org = obs[i].org
                            /\ newObs[i].org_index = obs[i].org_index
  <2> HIDE DEF obs, newObs
  <2> QED  BY <1>1 DEF SameTerms
<1>4. ASSUME NEW b \in Adapters
      PROVE  /\ DOMAIN obligations'[b] = DOMAIN obligations[b]
             /\ \A i \in DOMAIN obligations[b] :
                   /\ obligations'[b][i].org = obligations[b][i].org
                   /\ obligations'[b][i].org_index = obligations[b][i].org_index
  BY <1>1, <1>2, <1>3
<1> HIDE DEF obs, newObs
<1> QED  BY <1>2, <1>4 DEF OrgIndexExact

-----------------------------------------------------------------------------
(* Each step of an adapter is one of four kinds.                           *)

(* What changes no obligation: administration, repeats, the clock.         *)
Quiet ==
    /\ UNCHANGED recordVars
    /\ saPayoutReceiver' \in [Adapters -> Receivers \cup {None}]

RecordStep ==
    \E a \in Adapters, r \in Receivers, c \in Claims :
        \E id : Recorded(a, r, c.policy_id, c.org, c.amount, c.digest, id)

MarkStep ==
    \E a \in Adapters, caller \in Accounts : \E id \in DOMAIN obligations[a] :
        Marked(a, caller, id)

(* What accounts do is a mark or administration.                           *)
LEMMA AccountCalls ==
    ASSUME SaTypeOK, SaStep
    PROVE  Quiet \/ MarkStep
<1>0. saPayoutReceiver \in [Adapters -> Receivers \cup {None}]
  BY DEF SaTypeOK
<1>1. ASSUME NEW a \in Adapters, NEW caller \in Accounts,
             NEW id \in DOMAIN obligations[a], NEW ref,
             mark_funded(a, caller, id, ref) \/ mark_settled(a, caller, id, ref)
      PROVE  MarkStep
  BY <1>1, MarkEffect DEF MarkStep
<1>2. ASSUME NEW a \in Adapters, NEW caller, NEW r \in Receivers \cup {a},
             set_payout_receiver(a, caller, r)
      PROVE  Quiet
  BY <1>0, <1>2 DEF set_payout_receiver, Quiet
<1>3. ASSUME NEW a \in Adapters, NEW caller, NEW role, NEW who,
             sa_grant_role(a, caller, role, who) \/ sa_revoke_role(a, caller, role, who)
      PROVE  Quiet
  BY <1>0, <1>3 DEF sa_grant_role, sa_revoke_role, Quiet
<1> QED  BY <1>1, <1>2, <1>3 DEF SaStep

(* Every step of LedgerNext is a clock tick or one of the three above.     *)
LEMMA StepKinds ==
    ASSUME SaAssumption, HostAssumption, ClaimsAssumption, SaTypeOK,
           [LedgerNext]_<<now, saVars>>
    PROVE  \/ now' \in {now, now + 1} /\ Quiet
           \/ now' = now /\ RecordStep
           \/ now' = now /\ MarkStep
<1>0. saPayoutReceiver \in [Adapters -> Receivers \cup {None}] /\ now \in Nat
  BY DEF SaTypeOK
<1>1. CASE UNCHANGED <<now, saVars>>
  BY <1>0, <1>1 DEF saVars, recordVars, Quiet
<1>2. CASE Tick /\ UNCHANGED saVars
  BY <1>0, <1>2 DEF Tick, saVars, recordVars, Quiet
<1>3. ASSUME NEW a \in Adapters, NEW r \in Receivers, NEW c \in Claims,
             record_obligation(a, r, c.policy_id, c.org, c.amount, c.digest), now' = now
      PROVE  now' = now /\ (RecordStep \/ Quiet)
  <2>1. c.amount \in Int
    BY DEF ClaimsAssumption
  <2>2. \/ UNCHANGED <<saPayoutReceiver, recordVars>>
        \/ \E id : Recorded(a, r, c.policy_id, c.org, c.amount, c.digest, id)
    BY <1>3, <2>1, RecordEffect
  <2> QED  BY <1>0, <1>3, <2>2 DEF RecordStep, Quiet, recordVars
<1>4. CASE SaStep /\ now' = now
  BY <1>4, AccountCalls
<1> QED
  BY <1>1, <1>2, <1>3, <1>4 DEF LedgerNext

(* Administration, repeats and the clock keep the whole invariant.         *)
LEMMA QuietInv ==
    ASSUME RegisterInv, Quiet, now' \in {now, now + 1}
    PROVE  RegisterInv'
<1>1. /\ nextObligationId' = nextObligationId /\ obligations' = obligations
      /\ obligationOf' = obligationOf /\ orgObligations' = orgObligations
      /\ saPayoutReceiver' \in [Adapters -> Receivers \cup {None}]
  BY DEF Quiet, recordVars
<1>2. now \in Nat /\ now' \in Nat /\ 0 .. now \subseteq 0 .. now'
  BY DEF RegisterInv, SaTypeOK
<1>3. SaTypeOK'
  <2>1. (\A a \in Adapters : \A id \in DOMAIN obligations[a] :
            ObligationOK(obligations[a][id]))'
    BY <1>1, <1>2 DEF RegisterInv, SaTypeOK, ObligationOK
  <2> QED  BY <1>1, <1>2, <2>1 DEF RegisterInv, SaTypeOK
<1>4. LookupExact'
  BY <1>1 DEF RegisterInv, LookupExact
<1>5. OrgIndexExact'
  BY <1>1 DEF RegisterInv, OrgIndexExact
<1> QED  BY <1>3, <1>4, <1>5 DEF RegisterInv

(* The invariant is inductive: what the two indexes say of a new record    *)
(* rests on the type invariant, and the other way round on nothing.        *)
LEMMA RegisterInductive ==
    ASSUME SaAssumption, HostAssumption, ClaimsAssumption, RegisterInv,
           [LedgerNext]_<<now, saVars>>
    PROVE  RegisterInv'
<1>1. CASE now' \in {now, now + 1} /\ Quiet
  BY <1>1, QuietInv
<1>2. CASE now' = now /\ RecordStep
  <2>1. PICK a, r, c, id :
           /\ a \in Adapters /\ r \in Receivers /\ c \in Claims
           /\ Recorded(a, r, c.policy_id, c.org, c.amount, c.digest, id)
    BY <1>2 DEF RecordStep
  <2>2. c.org \in Orgs
    BY <2>1 DEF ClaimsAssumption
  <2>3. SaTypeOK'
    BY <1>2, <2>1, <2>2, RecordType DEF RegisterInv
  <2>4. LookupExact'
    BY <2>1, RecordLookup DEF RegisterInv
  <2>5. OrgIndexExact'
    BY <2>1, <2>2, RecordOrgIndex DEF RegisterInv
  <2> QED  BY <2>3, <2>4, <2>5 DEF RegisterInv
<1>3. CASE now' = now /\ MarkStep
  <2>1. PICK a \in Adapters, caller \in Accounts : \E id \in DOMAIN obligations[a] :
           Marked(a, caller, id)
    BY <1>3 DEF MarkStep
  <2>2. PICK id \in DOMAIN obligations[a] : Marked(a, caller, id)
    BY <2>1
  <2>3. SaTypeOK'
    BY <1>3, <2>2, MarkType DEF RegisterInv
  <2>4. LookupExact' /\ OrgIndexExact'
    BY <2>2, MarkLookup, MarkOrgIndex DEF RegisterInv
  <2> QED  BY <2>3, <2>4 DEF RegisterInv
<1> QED
  BY <1>1, <1>2, <1>3, StepKinds DEF RegisterInv

(* The invariant holds when the constructors have run.                     *)
LEMMA RegisterInitial ==
    ASSUME SaAssumption, LedgerInit
    PROVE  RegisterInv
<1>1. /\ now = 0
      /\ saPayoutReceiver = [a \in Adapters |-> SaWiring[a].receiver]
      /\ nextObligationId = [a \in Adapters |-> 1]
      /\ obligations = [a \in Adapters |-> [id \in {} |-> None]]
      /\ obligationOf = [a \in Adapters |-> [claim \in {} |-> None]]
      /\ orgObligations = [a \in Adapters |-> [o \in Orgs |-> << >>]]
  BY DEF LedgerInit, SaInit
<1>2. SaTypeOK
  <2>1. << >> \in Seq(Nat)
    BY EmptySeq
  <2>2. orgObligations \in [Adapters -> [Orgs -> Seq(Nat)]]
    BY <1>1, <2>1
  <2>3. \A a \in Adapters : DOMAIN obligations[a] = {} /\ nextObligationId[a] = 1
    BY <1>1
  <2> QED  BY <1>1, <2>2, <2>3 DEF SaTypeOK, SaAssumption
<1>3. LookupExact
  BY <1>1 DEF LookupExact
<1>4. OrgIndexExact
  BY <1>1 DEF OrgIndexExact
<1> QED  BY <1>2, <1>3, <1>4 DEF RegisterInv

(* Whatever receivers ask, in whatever order and however often, the        *)
(* register is always well formed (settlement-adapter/src/lib.rs).         *)
THEOREM RegisterCorrect == LedgerSpec => []RegisterInv
<1>1. LedgerInit => RegisterInv
  BY SaAssumption, RegisterInitial
<1>2. RegisterInv /\ [LedgerNext]_<<now, saVars>> => RegisterInv'
  BY SaAssumption, HostAssumption, ClaimsAssumption, RegisterInductive
<1> QED  BY <1>1, <1>2, PTL DEF LedgerSpec

(* Ids are dense and every obligation is complete and attested as its      *)
(* status says (record_obligation, mark_funded, mark_settled).             *)
THEOREM RegisterTypeCorrect == LedgerSpec => []SaTypeOK
<1>1. RegisterInv => SaTypeOK
  BY DEF RegisterInv
<1> QED  BY <1>1, RegisterCorrect, PTL

(* find_obligation leads to the one obligation of a receiver's policy and  *)
(* to nothing else, across receiver rotations and repeated calls.          *)
THEOREM LookupCorrect == LedgerSpec => []LookupExact
<1>1. RegisterInv => LookupExact
  BY DEF RegisterInv
<1> QED  BY <1>1, RegisterCorrect, PTL

(* An org's index lists exactly its obligations, each at the place the     *)
(* obligation itself records (append_org_obligation).                      *)
THEOREM OrgIndexCorrect == LedgerSpec => []OrgIndexExact
<1>1. RegisterInv => OrgIndexExact
  BY DEF RegisterInv
<1> QED  BY <1>1, RegisterCorrect, PTL

-----------------------------------------------------------------------------
(* The refinement of ObligationLedger.  A step of the register is a step   *)
(* of the ledger or leaves it as it is.                                    *)

ClaimSet(of) == UNION {{<<a, c[1], c[2]>> : c \in DOMAIN of[a]} : a \in Adapters}

(* The claims of all adapters, one by one.                                 *)
LEMMA InClaimSet ==
    ASSUME NEW of, NEW t
    PROVE  t \in ClaimSet(of) <=>
               \E a \in Adapters : \E k \in DOMAIN of[a] : t = <<a, k[1], k[2]>>
BY DEF ClaimSet

(* The mapped ledger before and after a step.                              *)
LEMMA MappedLedger ==
    /\ DOMAIN LedgerOfObligations = ClaimSet(obligationOf)
    /\ \A t \in ClaimSet(obligationOf) :
          LedgerOfObligations[t] =
              LedgerEntry(obligations[t[1]][obligationOf[t[1]][<<t[2], t[3]>>]])
    /\ DOMAIN LedgerOfObligations' = ClaimSet(obligationOf')
    /\ \A t \in ClaimSet(obligationOf') :
          LedgerOfObligations'[t] =
              LedgerEntry(obligations'[t[1]][obligationOf'[t[1]][<<t[2], t[3]>>]])
<1>1. AllClaims = ClaimSet(obligationOf) /\ AllClaims' = ClaimSet(obligationOf')
  BY DEF AllClaims, ClaimSet
<1>2. \A ob : LedgerEntry(ob)' = LedgerEntry(ob)
  BY DEF LedgerEntry, Attestation
<1> QED  BY <1>1, <1>2 DEF LedgerOfObligations

(* A first record_obligation is a Record of the ledger.                    *)
LEMMA RecordRefines ==
    ASSUME RegisterInv, NEW a \in Adapters, NEW r, NEW pid, NEW org,
           NEW amount, NEW digest, NEW id,
           Recorded(a, r, pid, org, amount, digest, id)
    PROVE  Ledger!Next
<1> DEFINE t == <<a, r, pid>>
           ob == NewObligation(r, pid, org, amount, digest, now, NextOrgIndex(a, org))
<1>1. /\ <<r, pid>> \notin DOMAIN obligationOf[a]
      /\ amount \in Nat \ {0}
      /\ \A b \in Adapters : b # a => /\ obligations'[b] = obligations[b]
                                      /\ obligationOf'[b] = obligationOf[b]
      /\ DOMAIN obligationOf'[a] = DOMAIN obligationOf[a] \cup {<<r, pid>>}
  BY DEF Recorded
<1>2. \A b \in Adapters : \A k \in DOMAIN obligationOf[b] :
         k = <<k[1], k[2]>> /\ obligationOf[b][k] \in DOMAIN obligations[b]
  BY DEF RegisterInv, LookupExact
<1>3. t \notin ClaimSet(obligationOf)
  <2> SUFFICES ASSUME t \in ClaimSet(obligationOf) PROVE FALSE
    OBVIOUS
  <2>1. PICK b \in Adapters : \E k \in DOMAIN obligationOf[b] : t = <<b, k[1], k[2]>>
    BY InClaimSet
  <2>2. PICK k \in DOMAIN obligationOf[b] : t = <<b, k[1], k[2]>>
    BY <2>1
  <2>3. b = a /\ k[1] = r /\ k[2] = pid
    BY <2>2
  <2> QED  BY <1>1, <1>2, <2>2, <2>3
<1>4. ClaimSet(obligationOf') = ClaimSet(obligationOf) \cup {t}
  <2>1. ASSUME NEW x \in ClaimSet(obligationOf) PROVE x \in ClaimSet(obligationOf')
    <3>1. PICK b \in Adapters : \E k \in DOMAIN obligationOf[b] : x = <<b, k[1], k[2]>>
      BY InClaimSet
    <3>2. DOMAIN obligationOf[b] \subseteq DOMAIN obligationOf'[b]
      BY <1>1
    <3> QED  BY <3>1, <3>2, InClaimSet
  <2>2. t \in ClaimSet(obligationOf')
    <3>1. <<r, pid>> \in DOMAIN obligationOf'[a] /\ t = <<a, <<r, pid>>[1], <<r, pid>>[2]>>
      BY <1>1
    <3> QED  BY <3>1, InClaimSet
  <2>3. ASSUME NEW x \in ClaimSet(obligationOf') PROVE x \in ClaimSet(obligationOf) \cup {t}
    <3>1. PICK b \in Adapters : \E k \in DOMAIN obligationOf'[b] : x = <<b, k[1], k[2]>>
      BY InClaimSet
    <3>2. PICK k \in DOMAIN obligationOf'[b] : x = <<b, k[1], k[2]>>
      BY <3>1
    <3>3. CASE k \in DOMAIN obligationOf[b]
      BY <3>2, <3>3, InClaimSet
    <3>4. CASE k \notin DOMAIN obligationOf[b]
      <4>1. b = a /\ k = <<r, pid>>
        BY <1>1, <3>4
      <4> QED  BY <3>2, <4>1
    <3> QED  BY <3>3, <3>4
  <2> QED  BY <2>1, <2>2, <2>3
<1>5. LedgerOfObligations'[t] = LedgerEntry(ob)
  <2>1. obligationOf'[a][<<r, pid>>] = id /\ obligations'[a][id] = ob
    BY DEF Recorded
  <2>2. t[1] = a /\ t[2] = r /\ t[3] = pid
    OBVIOUS
  <2>3. t \in ClaimSet(obligationOf')
    BY <1>4
  <2> HIDE DEF t, ob
  <2> QED  BY <2>1, <2>2, <2>3, MappedLedger
<1>6. /\ LedgerEntry(ob).debt.amount > 0
      /\ LedgerEntry(ob).funding = {}
      /\ LedgerEntry(ob).settlement = {}
  BY <1>1 DEF LedgerEntry, Attestation, NewObligation
<1>7. ASSUME NEW x \in ClaimSet(obligationOf)
      PROVE  LedgerOfObligations'[x] = LedgerOfObligations[x]
  <2>1. PICK b \in Adapters : \E k \in DOMAIN obligationOf[b] : x = <<b, k[1], k[2]>>
    BY InClaimSet
  <2>2. PICK k \in DOMAIN obligationOf[b] : x = <<b, k[1], k[2]>>
    BY <2>1
  <2>3. x[1] = b /\ <<x[2], x[3]>> = k
    BY <1>2, <2>2
  <2>4. /\ obligationOf'[b][k] = obligationOf[b][k]
        /\ obligations'[b][obligationOf[b][k]] = obligations[b][obligationOf[b][k]]
    BY <1>2 DEF Recorded
  <2>5. x \in ClaimSet(obligationOf')
    BY <1>4
  <2> QED  BY <2>3, <2>4, <2>5, MappedLedger
<1> HIDE DEF t, ob
<1>8. Ledger!Record(t)
  BY <1>3, <1>4, <1>5, <1>6, <1>7, MappedLedger DEF Ledger!Record
<1>9. t \in DOMAIN LedgerOfObligations'
  BY <1>4, MappedLedger
<1> QED  BY <1>8, <1>9 DEF Ledger!Next

(* A mark is a Fund or a Settle of the claim of the marked obligation.     *)
LEMMA MarkRefines ==
    ASSUME HostAssumption, RegisterInv, NEW a \in Adapters, NEW caller \in Accounts,
           NEW id \in DOMAIN obligations[a], Marked(a, caller, id)
    PROVE  Ledger!Next
<1> DEFINE old == obligations[a][id]
           new == obligations'[a][id]
           k0 == <<old.payout_receiver, old.policy_id>>
           t == <<a, old.payout_receiver, old.policy_id>>
           L == LedgerOfObligations
<1>1. k0 \in DOMAIN obligationOf[a] /\ obligationOf[a][k0] = id
  BY DEF RegisterInv, LookupExact
<1>2. \A b \in Adapters : \A k \in DOMAIN obligationOf[b] :
         k = <<k[1], k[2]>> /\ obligationOf[b][k] \in DOMAIN obligations[b]
  BY DEF RegisterInv, LookupExact
<1>3. ASSUME NEW k \in DOMAIN obligationOf[a], obligationOf[a][k] = id
      PROVE  k = k0
  BY <1>3 DEF RegisterInv, LookupExact
<1>4. /\ \A b \in Adapters : b # a => obligations'[b] = obligations[b]
      /\ \A i \in DOMAIN obligations[a] : i # id => obligations'[a][i] = obligations[a][i]
      /\ obligationOf' = obligationOf
  BY DEF Marked
<1>5. t \in ClaimSet(obligationOf) /\ t[1] = a /\ <<t[2], t[3]>> = k0
  <2>1. t = <<a, k0[1], k0[2]>>
    OBVIOUS
  <2> QED  BY <1>1, <2>1, InClaimSet
<1>6. L[t] = LedgerEntry(old) /\ L'[t] = LedgerEntry(new)
  <2> HIDE DEF t, k0
  <2> QED  BY <1>1, <1>4, <1>5, MappedLedger
<1>7. ASSUME NEW x \in ClaimSet(obligationOf), x # t
      PROVE  L'[x] = L[x]
  <2>1. PICK b \in Adapters : \E k \in DOMAIN obligationOf[b] : x = <<b, k[1], k[2]>>
    BY InClaimSet
  <2>2. PICK k \in DOMAIN obligationOf[b] : x = <<b, k[1], k[2]>>
    BY <2>1
  <2>3. x[1] = b /\ <<x[2], x[3]>> = k
    BY <1>2, <2>2
  <2>4. b # a \/ obligationOf[b][k] # id
    BY <1>3, <1>7, <2>2
  <2>5. obligations'[b][obligationOf[b][k]] = obligations[b][obligationOf[b][k]]
    BY <1>2, <1>4, <2>4
  <2> QED  BY <1>4, <2>3, <2>5, MappedLedger
<1>8. DOMAIN L' = DOMAIN L /\ DOMAIN L = ClaimSet(obligationOf) /\ t \in DOMAIN L
  BY <1>4, <1>5, MappedLedger
<1>9. caller # None /\ ObligationOK(old) /\ SameTerms(new, old)
  BY DEF HostAssumption, RegisterInv, SaTypeOK, Marked
<1>10. LedgerEntry(new).debt = LedgerEntry(old).debt
  <2> HIDE DEF new, old
  <2> QED  BY <1>9 DEF LedgerEntry, SameTerms
<1>11. FundedBy(new, old, caller) \/ SettledBy(new, old, caller)
  BY DEF Marked
<1> HIDE DEF new, old, k0, t
<1>12. \A ob : /\ DOMAIN LedgerEntry(ob) = {"debt", "funding", "settlement"}
               /\ LedgerEntry(ob) = [p \in {"debt", "funding", "settlement"} |->
                                        LedgerEntry(ob)[p]]
  BY DEF LedgerEntry
<1>13. ASSUME NEW part \in {"funding", "settlement"},
              \A p \in {"funding", "settlement"} :
                 p # part => LedgerEntry(new)[p] = LedgerEntry(old)[p]
       PROVE  L' = [L EXCEPT ![t][part] = L'[t][part]]
  <2>1. LedgerEntry(new) = [LedgerEntry(old) EXCEPT ![part] = LedgerEntry(new)[part]]
    <3> DEFINE e == LedgerEntry(new)
               f == LedgerEntry(old)
    <3>1. /\ DOMAIN e = {"debt", "funding", "settlement"}
          /\ DOMAIN f = {"debt", "funding", "settlement"}
          /\ e = [p \in {"debt", "funding", "settlement"} |-> e[p]]
          /\ e["debt"] = f["debt"]
      BY <1>10, <1>12
    <3>2. \A p \in {"funding", "settlement"} : p # part => e[p] = f[p]
      BY <1>13
    <3> HIDE DEF e, f
    <3> QED  BY <3>1, <3>2 DEF e, f
  <2>2. /\ L' = [x \in ClaimSet(obligationOf) |-> L'[x]]
        /\ L = [x \in ClaimSet(obligationOf) |-> L[x]]
    BY <1>8 DEF LedgerOfObligations
  <2>3. [L[t] EXCEPT ![part] = L'[t][part]] = L'[t]
    BY <1>6, <2>1
  <2> HIDE DEF L
  <2> QED  BY <1>5, <1>7, <2>2, <2>3
<1>14. CASE FundedBy(new, old, caller)
  <2>1. /\ old.funded_by = None /\ old.settled_by = None
        /\ new.funded_by = caller /\ new.settled_by = None
    BY <1>9, <1>14 DEF FundedBy, ObligationOK
  <2>2. /\ LedgerEntry(old).funding = {} /\ LedgerEntry(old).settlement = {}
        /\ LedgerEntry(new).funding # {} /\ LedgerEntry(new).settlement = {}
    BY <1>9, <2>1 DEF LedgerEntry, Attestation
  <2>3. L' = [L EXCEPT ![t]["funding"] = L'[t]["funding"]]
    <3>1. \A p \in {"funding", "settlement"} :
             p # "funding" => LedgerEntry(new)[p] = LedgerEntry(old)[p]
      BY <2>2
    <3> QED  BY <1>13, <3>1
  <2>4. L[t]["funding"] = {} /\ L'[t]["funding"] # {} /\ L[t].settlement = {}
    BY <1>6, <2>2
  <2>5. Ledger!Fund(t)
    BY <2>3, <2>4 DEF Ledger!Fund, Ledger!Attest
  <2> QED  BY <1>8, <2>5 DEF Ledger!Next
<1>15. CASE SettledBy(new, old, caller)
  <2>1. /\ old.settled_by = None /\ new.settled_by = caller
        /\ new.funded_by = old.funded_by /\ new.funded_at = old.funded_at
        /\ new.funding_reference = old.funding_reference
    BY <1>9, <1>15 DEF SettledBy, ObligationOK
  <2>2. /\ LedgerEntry(old).settlement = {} /\ LedgerEntry(new).settlement # {}
        /\ LedgerEntry(new).funding = LedgerEntry(old).funding
    BY <1>9, <2>1 DEF LedgerEntry, Attestation
  <2>3. L' = [L EXCEPT ![t]["settlement"] = L'[t]["settlement"]]
    <3>1. \A p \in {"funding", "settlement"} :
             p # "settlement" => LedgerEntry(new)[p] = LedgerEntry(old)[p]
      BY <2>2
    <3> QED  BY <1>13, <3>1
  <2>4. L[t]["settlement"] = {} /\ L'[t]["settlement"] # {}
    BY <1>6, <2>2
  <2>5. Ledger!Settle(t)
    BY <2>3, <2>4 DEF Ledger!Settle, Ledger!Attest
  <2> QED  BY <1>8, <2>5 DEF Ledger!Next
<1> QED  BY <1>11, <1>14, <1>15

(* The adapters implement the abstract ledger: per claim one debt whose    *)
(* terms never change, and at most one funding and one settlement, never   *)
(* replaced and in that order (mark_funded, mark_settled).                 *)
THEOREM LedgerRefinement == LedgerSpec => ImplementsLedger
<1>1. LedgerInit => Ledger!Init
  <2> SUFFICES ASSUME LedgerInit PROVE Ledger!Init
    OBVIOUS
  <2>1. \A a \in Adapters : DOMAIN obligationOf[a] = {}
    BY DEF LedgerInit, SaInit
  <2>2. AllClaims = {}
    BY <2>1 DEF AllClaims
  <2> QED  BY <2>2 DEF Ledger!Init, LedgerOfObligations
<1>2. RegisterInv /\ [LedgerNext]_<<now, saVars>> => [Ledger!Next]_LedgerOfObligations
  <2> SUFFICES ASSUME RegisterInv, [LedgerNext]_<<now, saVars>>
               PROVE  [Ledger!Next]_LedgerOfObligations
    OBVIOUS
  <2>1. CASE Quiet
    BY <2>1 DEF Quiet, recordVars, LedgerOfObligations, AllClaims, LedgerEntry, Attestation
  <2>2. CASE RecordStep
    BY <2>2, RecordRefines DEF RecordStep
  <2>3. CASE MarkStep
    BY <2>3, HostAssumption, MarkRefines DEF MarkStep
  <2> QED
    BY <2>1, <2>2, <2>3, SaAssumption, HostAssumption, ClaimsAssumption, StepKinds
       DEF RegisterInv
<1> QED  BY <1>1, <1>2, RegisterCorrect, PTL DEF LedgerSpec, ImplementsLedger, Ledger!Spec
=============================================================================
