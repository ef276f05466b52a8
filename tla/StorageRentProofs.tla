------------------------- MODULE StorageRentProofs -------------------------
(***************************************************************************)
(* Theorems about the storage rent policy: with a keeper job that keeps    *)
(* up, no contract in use, no entry of an open policy and no entry of an   *)
(* open debt is ever archived, for any number of policies, adapters, swaps *)
(* and upgrades and however users and the job interleave.                  *)
(***************************************************************************)
EXTENDS StorageRent, SequenceTheorems, TLAPS

-----------------------------------------------------------------------------
(* The rules of ttl.rs.                                                    *)

IsRule(r) ==
    /\ r.threshold \in 0 .. MAX_TTL
    /\ r.target \in 0 .. MAX_TTL

IsCall(c) == \A k \in DOMAIN c : IsRule(c[k])

(* After the call, k has at least n left.                                  *)
Reaches(c, k, n) == c[k].threshold >= n /\ c[k].target >= n

(* The constants are numbers.                                              *)
LEMMA Numbers ==
    /\ MaxLoad \in Nat /\ MaxNow \in Nat /\ MaxLapse \in Nat /\ DAY_LEDGERS \in Nat
    /\ USER_THRESHOLD \in Nat /\ USER_TARGET \in Nat
    /\ KEEPER_THRESHOLD \in Nat /\ KEEPER_TARGET \in Nat
    /\ PENDING_THRESHOLD \in Nat /\ PENDING_TARGET \in Nat
    /\ SHARED_FLOOR \in Nat /\ POLICY_GRACE \in Nat /\ CLAIM_HISTORY \in Nat
    /\ KEEPER_SELECTS \in Nat /\ MAX_TTL \in Nat /\ MIN_TTL \in 1 .. MAX_TTL
    /\ KEEPER_THRESHOLD <= KEEPER_TARGET /\ PENDING_THRESHOLD <= PENDING_TARGET
    /\ MaxLapse <= MIN_TTL /\ MaxLapse <= KEEPER_SELECTS
    /\ MaxLapse <= KEEPER_THRESHOLD /\ MaxLapse <= PENDING_THRESHOLD
    /\ MaxLapse <= MAX_TTL - DAY_LEDGERS /\ MaxLapse <= SHARED_FLOOR - DAY_LEDGERS
BY RentAssumption, KeeperKeepsUp

(* A rule is clamped to the network maximum.                               *)
LEMMA RuleCall ==
    ASSUME NEW keys, NEW a \in Nat, NEW b \in Nat
    PROVE  /\ DOMAIN Rule(keys, a, b) = keys
           /\ IsCall(Rule(keys, a, b))
           /\ \A k \in keys : /\ Rule(keys, a, b)[k].threshold = Least(a, MAX_TTL)
                              /\ Rule(keys, a, b)[k].target = Least(b, MAX_TTL)
<1>1. Least(a, MAX_TTL) \in 0 .. MAX_TTL /\ Least(b, MAX_TTL) \in 0 .. MAX_TTL
  BY Numbers DEF Least
<1> QED  BY <1>1 DEF Rule, IsCall, IsRule

(* Two calls in one transaction.                                           *)
LEMMA MergedCall ==
    ASSUME NEW f, NEW g, IsCall(f), IsCall(g)
    PROVE  /\ IsCall(f ++ g)
           /\ DOMAIN (f ++ g) = DOMAIN f \cup DOMAIN g
           /\ \A k \in DOMAIN f : (f ++ g)[k] = f[k]
           /\ \A k \in DOMAIN g \ DOMAIN f : (f ++ g)[k] = g[k]
BY DEF ++, IsCall

(* What the first of several calls extends.                                *)
LEMMA FirstReaches ==
    ASSUME NEW f, NEW g, NEW k \in DOMAIN f, NEW n, Reaches(f, k, n)
    PROVE  k \in DOMAIN (f ++ g) /\ Reaches(f ++ g, k, n)
BY DEF ++, Reaches

(* What the first does not touch.                                          *)
LEMMA ThenReaches ==
    ASSUME NEW f, NEW g, NEW k \in DOMAIN g, k \notin DOMAIN f, NEW n, Reaches(g, k, n)
    PROVE  k \in DOMAIN (f ++ g) /\ Reaches(f ++ g, k, n)
BY DEF ++, Reaches

(* extend_to leaves at most a day to be extended.                          *)
LEMMA ExtendTo ==
    ASSUME NEW keys, NEW n \in Nat
    PROVE  /\ DOMAIN extend_to(keys, n) = keys
           /\ IsCall(extend_to(keys, n))
           /\ \A k \in keys : Reaches(extend_to(keys, n), k, Least(n, MAX_TTL) - DAY_LEDGERS)
<1> DEFINE m == Least(n, MAX_TTL)
           t == Greatest(m - DAY_LEDGERS, 0)
<1>1. m \in Nat /\ m <= MAX_TTL
  BY Numbers DEF Least
<1>2. t \in Nat /\ t >= m - DAY_LEDGERS /\ t <= MAX_TTL
  BY <1>1, Numbers DEF Greatest
<1>3. extend_to(keys, n) = Rule(keys, t, m)
  BY DEF extend_to
<1>4. Least(t, MAX_TTL) = t /\ Least(m, MAX_TTL) = m
  BY <1>1, <1>2, Numbers DEF Least
<1> HIDE DEF m, t
<1>5. m >= m - DAY_LEDGERS
  BY <1>1, Numbers
<1>6. \A k \in keys : Reaches(Rule(keys, t, m), k, m - DAY_LEDGERS)
  BY <1>1, <1>2, <1>4, <1>5, RuleCall DEF Reaches
<1> QED  BY <1>1, <1>2, <1>3, <1>6, RuleCall DEF m

(* What is left until a time.                                              *)
LEMMA LedgersUntil ==
    ASSUME now \in Nat, NEW t \in Nat
    PROVE  /\ ledgers_until(t) \in Nat
           /\ ledgers_until(t) <= MAX_TTL
           /\ now + ledgers_until(t) >= t \/ ledgers_until(t) = MAX_TTL
BY Numbers DEF ledgers_until, Least

(* A policy's own entry lives until a day before its need, or as long as   *)
(* the network lets it.                                                    *)
LEMMA PolicyCall ==
    ASSUME now \in Nat, NEW keys, NEW end \in Nat
    PROVE  /\ DOMAIN extend_for_policy(keys, end) = keys
           /\ IsCall(extend_for_policy(keys, end))
           /\ \A k \in keys : \E n \in Int :
                 /\ Reaches(extend_for_policy(keys, end), k, n)
                 /\ now + n >= end + POLICY_GRACE - DAY_LEDGERS \/ n >= MaxLapse
<1>1. PICK u \in Nat : /\ u = ledgers_until(end + POLICY_GRACE) /\ u <= MAX_TTL
                       /\ now + u >= end + POLICY_GRACE \/ u = MAX_TTL
  BY Numbers, LedgersUntil
<1>2. extend_for_policy(keys, end) = extend_to(keys, u)
  BY <1>1 DEF extend_for_policy
<1>3. Least(u, MAX_TTL) = u
  BY <1>1, Numbers DEF Least
<1>4. PICK n \in Int : n = u - DAY_LEDGERS
  BY Numbers
<1>5. now + n >= end + POLICY_GRACE - DAY_LEDGERS \/ n >= MaxLapse
  BY <1>1, <1>4, Numbers
<1>6. \A k \in keys : Reaches(extend_for_policy(keys, end), k, n)
  BY <1>2, <1>3, <1>4, ExtendTo
<1> QED  BY <1>2, <1>5, <1>6, ExtendTo

(* An entry of a farmer or an org outlives the next pass.                  *)
LEMMA FloorReaches ==
    ASSUME NEW keys, NEW n \in Nat, n >= SHARED_FLOOR
    PROVE  /\ DOMAIN extend_to(keys, n) = keys
           /\ IsCall(extend_to(keys, n))
           /\ \A k \in keys : Reaches(extend_to(keys, n), k, MaxLapse)
<1>1. PICK m \in Int : m = Least(n, MAX_TTL) - DAY_LEDGERS /\ m >= MaxLapse
  BY Numbers DEF Least
<1>2. \A k \in keys : Reaches(extend_to(keys, n), k, m) /\ IsRule(extend_to(keys, n)[k])
  BY <1>1, ExtendTo DEF IsCall
<1>3. \A k \in keys : Reaches(extend_to(keys, n), k, MaxLapse)
  BY <1>1, <1>2, Numbers DEF Reaches, IsRule
<1> QED  BY <1>3, ExtendTo

(* Entries of a farmer or an org, touched for a policy.                    *)
LEMMA SharedCall ==
    ASSUME now \in Nat, NEW keys, NEW end \in Nat
    PROVE  /\ DOMAIN extend_shared(keys, end) = keys
           /\ IsCall(extend_shared(keys, end))
           /\ \A k \in keys : Reaches(extend_shared(keys, end), k, MaxLapse)
<1>1. PICK n \in Nat : /\ n = Greatest(ledgers_until(end + POLICY_GRACE), SHARED_FLOOR)
                       /\ n >= SHARED_FLOOR
  BY Numbers, LedgersUntil DEF Greatest
<1> QED  BY <1>1, FloorReaches DEF extend_shared

(* The same, touched without one.                                          *)
LEMMA SharedNoPolicyCall ==
    ASSUME NEW keys
    PROVE  /\ DOMAIN extend_shared_no_policy(keys) = keys
           /\ IsCall(extend_shared_no_policy(keys))
           /\ \A k \in keys : Reaches(extend_shared_no_policy(keys), k, MaxLapse)
BY Numbers, FloorReaches DEF extend_shared_no_policy

(* The claim history.                                                      *)
LEMMA SecsCall ==
    ASSUME now \in Nat, NEW keys, NEW secs \in Nat
    PROVE  /\ DOMAIN extend_for_secs(keys, secs) = keys
           /\ IsCall(extend_for_secs(keys, secs))
           /\ \A k \in keys : Reaches(extend_for_secs(keys, secs), k, MaxLapse)
<1>1. PICK n \in Nat : /\ n = Greatest(ledgers_until(now + secs), SHARED_FLOOR)
                       /\ n >= SHARED_FLOOR
  BY Numbers, LedgersUntil DEF Greatest
<1> QED  BY <1>1, FloorReaches DEF extend_for_secs

(* The entries of an open debt.                                            *)
LEMMA PendingCall ==
    ASSUME NEW keys
    PROVE  /\ DOMAIN extend_pending(keys) = keys
           /\ IsCall(extend_pending(keys))
           /\ \A k \in keys : Reaches(extend_pending(keys), k, MaxLapse)
<1>1. Least(PENDING_THRESHOLD, MAX_TTL) >= MaxLapse /\ Least(PENDING_TARGET, MAX_TTL) >= MaxLapse
  BY Numbers DEF Least
<1> QED  BY <1>1, Numbers, RuleCall DEF extend_pending, Reaches

(* The keeper, for a contract.                                             *)
LEMMA KeepCall ==
    ASSUME NEW c
    PROVE  /\ DOMAIN keep_contract_alive(c) = ContractKeys(c)
           /\ IsCall(keep_contract_alive(c))
           /\ \A k \in ContractKeys(c) : Reaches(keep_contract_alive(c), k, MaxLapse)
<1>1. Least(KEEPER_THRESHOLD, MAX_TTL) >= MaxLapse /\ Least(KEEPER_TARGET, MAX_TTL) >= MaxLapse
  BY Numbers DEF Least
<1> QED  BY <1>1, Numbers, RuleCall DEF keep_contract_alive, Reaches

(* A user, for a contract.                                                 *)
LEMMA TouchCall ==
    ASSUME NEW c
    PROVE  DOMAIN touch_contract(c) = ContractKeys(c) /\ IsCall(touch_contract(c))
BY Numbers, RuleCall DEF touch_contract

(* What a call reads only.                                                 *)
LEMMA ReadCall ==
    ASSUME NEW keys
    PROVE  DOMAIN Read(keys) = Existing(keys) /\ IsCall(Read(keys))
BY Numbers DEF Read, Unextended, IsCall, IsRule

-----------------------------------------------------------------------------
(* The inductive invariant.                                                *)

Kept(k, t) == live[k] >= t + MaxLapse

(* Clock and job.                                                          *)
JobOK ==
    /\ now \in Nat /\ lastPass \in Nat /\ began \in Nat
    /\ lastPass <= began /\ began <= now /\ now <= lastPass + MaxLapse /\ now <= MaxNow
    /\ \/ stage = "idle" /\ todo = {} /\ began = lastPass
       \/ stage = "policies" /\ todo \subseteq {"policy"} \X DOMAIN policies
       \/ stage = "replaced" /\ todo \subseteq ({"adapter"} \X Adapters)
                                              \cup ({"debt"} \X DOMAIN debts)

(* No entry outlives what the network allows.                              *)
LivesOK == \A k \in DOMAIN live : live[k] \in 0 .. MaxNow + MAX_TTL

PolicyRecords ==
    [status : {"Pending", "Active", "Claimed", "Cancelled", "Expired"},
     sold : Nat, start : Nat, end : Nat]

PolicyOK(p) ==
    /\ p \in PolicyRecords
    /\ p.start <= p.end /\ p.start <= now

DebtRecords == [adapter : Adapters, status : {"Owed", "Funded", "Settled"}]

RecordsOK ==
    /\ bound \in Adapters
    /\ policies \in Seq(PolicyRecords)
    /\ DOMAIN policies = 1 .. Len(policies) /\ Len(policies) \in Nat
    /\ \A id \in DOMAIN policies : PolicyOK(policies[id])
    /\ \A id \in DOMAIN debts :
          /\ id \in DOMAIN policies /\ policies[id].status = "Claimed"
          /\ debts[id] \in DebtRecords

(* Which entries of policy id exist.                                       *)
EntriesOf(id) ==
    /\ <<"Policy", id>> \in DOMAIN live <=> id \in DOMAIN policies
    /\ id \in DOMAIN policies => <<"FarmerPolicyAt", id>> \in DOMAIN live
    /\ <<"PendingCounted", id>> \in DOMAIN live <=>
          id \in DOMAIN policies /\ policies[id].status = "Pending"
    /\ \A k \in CertificateKeys(id) :
          k \in DOMAIN live => id \in DOMAIN policies /\ policies[id].status # "Pending"
    /\ id \in DOMAIN policies /\ policies[id].status \in {"Active", "Claimed"}
          => CertificateKeys(id) \subseteq DOMAIN live
    /\ id \in DOMAIN policies /\ policies[id].status = "Claimed" => id \in DOMAIN debts
    /\ \A k \in SettledKeys(id) \cup DebtKeys(id) : k \in DOMAIN live <=> id \in DOMAIN debts

EntriesOK == \A id \in Nat : EntriesOf(id)

(* An adapter is deployed whole, and before a debt is recorded in it.      *)
AdaptersOK ==
    /\ \A a \in Adapters : Deployed(a) \/ ContractKeys(a) \cap DOMAIN live = {}
    /\ Deployed(bound)
    /\ \A id \in DOMAIN debts : Deployed(debts[id].adapter)

(* The job is to call only deployed adapters.                              *)
TasksOK == \A a : <<"adapter", a>> \in todo => Deployed(a)

InUse == {"PolicyManager", "PolicyNft", "PayoutReceiver", bound} \cup ReplacedAdapters

(* The pass has still to come to adapter c.                                *)
AdapterAwaits(c) ==
    \/ stage = "policies" /\ c \in Adapters \ {bound}
    \/ <<"adapter", c>> \in todo

ContractsKept ==
    \A c \in InUse : \A k \in ContractKeys(c) :
        /\ k \in DOMAIN live /\ Kept(k, lastPass)
        /\ AdapterAwaits(c) \/ Kept(k, began)

EntriesOfDebt(id) == DebtKeys(id) \cup {<<"OrgObligationCount", debts[id].adapter>>}

(* The pass has still to come to the debt of policy id.                    *)
DebtAwaits(id) ==
    \/ <<"policy", id>> \in todo \/ <<"debt", id>> \in todo
    \/ stage = "policies" /\ debts[id].adapter # bound

DebtsKept ==
    \A id \in OpenDebts : \A k \in EntriesOfDebt(id) :
        /\ k \in DOMAIN live /\ Kept(k, lastPass)
        /\ DebtAwaits(id) \/ Kept(k, began)

(* k lives as long as the policy needs it.                                 *)
Suffices(id, k) == live[k] >= policies[id].end + POLICY_GRACE - DAY_LEDGERS

OwnKept ==
    \A id \in OpenPolicies : \A k \in Existing(OwnEntries(id)) :
        /\ Kept(k, lastPass) \/ Suffices(id, k)
        /\ <<"policy", id>> \in todo \/ Kept(k, began) \/ Suffices(id, k)

SharedKept ==
    \A id \in OpenPolicies : \A k \in Existing(FarmerAndOrgEntries) :
        /\ policies[id].sold < lastPass => Kept(k, lastPass)
        /\ policies[id].sold < began => <<"policy", id>> \in todo \/ Kept(k, began)

RentInv ==
    /\ JobOK /\ LivesOK /\ RecordsOK /\ EntriesOK /\ AdaptersOK /\ TasksOK
    /\ ContractsKept /\ DebtsKept /\ OwnKept /\ SharedKept

-----------------------------------------------------------------------------
(* What one transaction does to the entries.                               *)

(* No entry loses life, unless it is left the network minimum.             *)
Grows ==
    \A k \in DOMAIN live' :
        /\ live'[k] \in 0 .. MaxNow + MAX_TTL
        /\ (k \in DOMAIN live /\ live'[k] >= live[k]) \/ live'[k] >= now + MaxLapse

(* The host's extension of one entry.                                      *)
LEMMA ExtendOne ==
    ASSUME now \in 0 .. MaxNow, LivesOK, NEW k, NEW r, IsRule(r)
    PROVE  /\ extend_ttl(k, r) \in 0 .. MaxNow + MAX_TTL
           /\ \/ k \in DOMAIN live /\ extend_ttl(k, r) >= live[k]
              \/ extend_ttl(k, r) >= now + MaxLapse
           /\ \A n \in Int : r.threshold >= n /\ r.target >= n => extend_ttl(k, r) >= now + n
<1>1. PICK u \in Int : u = IF Alive(k) THEN live[k] ELSE now + MIN_TTL
  BY Numbers DEF Alive, LivesOK
<1>2. u \in now .. MaxNow + MAX_TTL
  BY <1>1, Numbers DEF Alive, LivesOK
<1>3. (k \in DOMAIN live /\ u = live[k]) \/ u >= now + MaxLapse
  BY <1>1, Numbers DEF Alive
<1>4. PICK a \in Nat, b \in Nat : a = r.threshold /\ b = r.target /\ b <= MAX_TTL
  BY Numbers DEF IsRule
<1>5. extend_ttl(k, r) = IF u - now <= a THEN Greatest(u, now + b) ELSE u
  BY <1>1, <1>4 DEF extend_ttl
<1>6. /\ extend_ttl(k, r) \in 0 .. MaxNow + MAX_TTL
      /\ extend_ttl(k, r) >= u
  BY <1>2, <1>4, <1>5, Numbers DEF Greatest
<1>7. (k \in DOMAIN live /\ extend_ttl(k, r) >= live[k]) \/ extend_ttl(k, r) >= now + MaxLapse
  BY <1>2, <1>3, <1>6, Numbers
<1>8. \A n \in Int : a >= n /\ b >= n => extend_ttl(k, r) >= now + n
  BY <1>2, <1>4, <1>5, Numbers DEF Greatest
<1> QED  BY <1>4, <1>6, <1>7, <1>8

(* A transaction never shortens a life, and what it extends it extends.    *)
LEMMA ApplyEffect ==
    ASSUME now \in 0 .. MaxNow, LivesOK, NEW call, IsCall(call), NEW removed, Apply(call, removed)
    PROVE  /\ Grows
           /\ DOMAIN live' = (DOMAIN live \cup DOMAIN call) \ removed
           /\ \A k \in DOMAIN call \ removed, n \in Int :
                 Reaches(call, k, n) => live'[k] >= now + n
<1>1. DOMAIN live' = (DOMAIN live \cup DOMAIN call) \ removed
  BY DEF Apply
<1>2. ASSUME NEW k \in DOMAIN call \ removed
      PROVE  live'[k] = extend_ttl(k, call[k]) /\ IsRule(call[k])
  BY DEF Apply, IsCall
<1>3. ASSUME NEW k \in DOMAIN live', k \notin DOMAIN call
      PROVE  k \in DOMAIN live /\ live'[k] = live[k]
  BY <1>1, <1>3 DEF Apply
<1>4. ASSUME NEW k \in DOMAIN live'
      PROVE  /\ live'[k] \in 0 .. MaxNow + MAX_TTL
             /\ (k \in DOMAIN live /\ live'[k] >= live[k]) \/ live'[k] >= now + MaxLapse
  <2>1. CASE k \in DOMAIN call
    BY <1>1, <1>2, <2>1, ExtendOne
  <2>2. CASE k \notin DOMAIN call
    BY <1>3, <2>2, Numbers DEF LivesOK
  <2> QED  BY <2>1, <2>2
<1>5. ASSUME NEW k \in DOMAIN call \ removed, NEW n \in Int, Reaches(call, k, n)
      PROVE  live'[k] >= now + n
  BY <1>2, <1>5, ExtendOne DEF Reaches
<1> QED  BY <1>1, <1>4, <1>5 DEF Grows

(* The same for one entry.                                                 *)
LEMMA ApplyReaches ==
    ASSUME now \in 0 .. MaxNow, LivesOK, NEW call, IsCall(call), NEW removed, Apply(call, removed),
           NEW k \in DOMAIN call, k \notin removed, NEW n \in Int, Reaches(call, k, n)
    PROVE  k \in DOMAIN live' /\ live'[k] >= now + n
<1>1. live'[k] = extend_ttl(k, call[k]) /\ k \in DOMAIN live'
  BY DEF Apply
<1>2. IsRule(call[k])
  BY DEF IsCall
<1> QED  BY <1>1, <1>2, ExtendOne DEF Reaches

(* An upgrade leaves the fresh code the network minimum.                   *)
LEMMA UpgradeEffect ==
    ASSUME now \in 0 .. MaxNow, LivesOK, NEW c, upgrade(c)
    PROVE  Grows /\ DOMAIN live' = DOMAIN live
<1>1. /\ <<"Code", c>> \in DOMAIN live /\ <<"Instance", c>> \in DOMAIN live
      /\ <<"Code", c>> # <<"Instance", c>>
  BY DEF upgrade, Deployed, ContractKeys
<1>2. IsRule(Unextended)
  BY Numbers DEF IsRule, Unextended
<1>3. DOMAIN live' = DOMAIN live
  BY DEF upgrade
<1>4. ASSUME NEW k \in DOMAIN live
      PROVE  live'[k] = IF k = <<"Instance", c>> THEN extend_ttl(k, Unextended)
                        ELSE IF k = <<"Code", c>> THEN now + MIN_TTL ELSE live[k]
  BY DEF upgrade
<1>5. ASSUME NEW k \in DOMAIN live'
      PROVE  /\ live'[k] \in 0 .. MaxNow + MAX_TTL
             /\ (k \in DOMAIN live /\ live'[k] >= live[k]) \/ live'[k] >= now + MaxLapse
  <2>1. CASE k = <<"Instance", c>>
    BY <1>1, <1>2, <1>4, <2>1, ExtendOne
  <2>2. CASE k # <<"Instance", c>> /\ k = <<"Code", c>>
    <3>1. live'[k] = now + MIN_TTL
      BY <1>1, <1>4, <2>2
    <3> QED  BY <3>1, Numbers
  <2>3. CASE k # <<"Instance", c>> /\ k # <<"Code", c>>
    <3>1. k \in DOMAIN live /\ live'[k] = live[k]
      BY <1>3, <1>4, <2>3
    <3> QED  BY <3>1, Numbers DEF LivesOK
  <2> QED  BY <2>1, <2>2, <2>3
<1> QED  BY <1>3, <1>5 DEF Grows

(* What was kept stays kept.                                               *)
LEMMA StaysKept ==
    ASSUME now \in Nat, LivesOK, Grows, NEW k \in DOMAIN live', NEW t \in Nat, t <= now,
           k \in DOMAIN live => Kept(k, t)
    PROVE  live'[k] >= t + MaxLapse
BY Numbers DEF Grows, LivesOK, Kept

(* What sufficed suffices.                                                 *)
LEMMA StaysLong ==
    ASSUME now \in Nat, LivesOK, Grows, NEW k \in DOMAIN live', NEW t \in Nat, t <= now,
           NEW n \in Int, k \in DOMAIN live => Kept(k, t) \/ live[k] >= n
    PROVE  live'[k] >= t + MaxLapse \/ live'[k] >= n
BY Numbers DEF Grows, LivesOK, Kept

-----------------------------------------------------------------------------
(* What each operation does to the entries.                                *)

SaleKeys(id) == {<<"Policy", id>>, <<"FarmerPolicyAt", id>>, <<"PendingCounted", id>>}

(* The keys of a product, listed.                                          *)
LEMMA Pairs ==
    ASSUME NEW a, NEW b, NEW c
    PROVE  {a, b} \X {c} = {<<a, c>>, <<b, c>>}
OBVIOUS

(* The same for three kinds.                                               *)
LEMMA Triples ==
    ASSUME NEW a, NEW b, NEW d, NEW c
    PROVE  {a, b, d} \X {c} = {<<a, c>>, <<b, c>>, <<d, c>>}
OBVIOUS

(* Entries whose existence nothing depends on, or that always exist.       *)
LooseKeys ==
    FarmerAndOrgEntries \cup {<<"DistributorCount", "distributor">>}
    \cup ({"DistributorPolicy"} \X Nat) \cup ({"OrgObligationCount"} \X Adapters)
    \cup ContractKeys("PolicyManager") \cup ContractKeys("PolicyNft")
    \cup ContractKeys("PayoutReceiver")

(* Of the other entries, the step creates the new ones and removes the     *)
(* gone ones.                                                              *)
Adds(new, gone) ==
    /\ (DOMAIN live \cup new) \ gone \subseteq DOMAIN live'
    /\ DOMAIN live' \subseteq (DOMAIN live \cup new \cup LooseKeys) \ gone

(* The call writes the new entries, and of the others only existing or     *)
(* loose ones.                                                             *)
Writes(call, new) ==
    /\ IsCall(call) /\ new \subseteq DOMAIN call
    /\ DOMAIN call \subseteq DOMAIN live \cup new \cup LooseKeys

(* Two calls in one transaction.                                           *)
LEMMA BothWrite ==
    ASSUME NEW f, NEW g, NEW A, NEW B, Writes(f, A), Writes(g, B)
    PROVE  Writes(f ++ g, A \cup B)
BY MergedCall DEF Writes

(* The second writes nothing new.                                          *)
LEMMA AlsoWrites ==
    ASSUME NEW f, NEW g, NEW A, Writes(f, A), Writes(g, {})
    PROVE  Writes(f ++ g, A)
BY MergedCall DEF Writes

(* The first writes nothing new.                                           *)
LEMMA ThenWrites ==
    ASSUME NEW f, NEW g, NEW A, Writes(f, {}), Writes(g, A)
    PROVE  Writes(f ++ g, A)
BY MergedCall DEF Writes

(* A transaction, by what it writes.                                       *)
LEMMA ApplyWrites ==
    ASSUME now \in 0 .. MaxNow, LivesOK, NEW call, NEW new, NEW gone, Writes(call, new),
           Apply(call, gone)
    PROVE  Grows /\ Adds(new, gone)
<1>1. DOMAIN live' = (DOMAIN live \cup DOMAIN call) \ gone
  BY DEF Apply
<1>2. Adds(new, gone)
  BY <1>1 DEF Adds, Writes
<1> QED  BY <1>2, ApplyEffect DEF Writes

(* The instance and code of a contract.                                    *)
LEMMA TouchWrites ==
    /\ Writes(touch_contract("PolicyManager"), {})
    /\ Writes(touch_contract("PolicyNft"), {})
    /\ Writes(touch_contract("PayoutReceiver"), {})
    /\ \A c : Deployed(c) => Writes(touch_contract(c), {})
BY TouchCall DEF Writes, LooseKeys, Deployed

(* The entries of the farmer and the org.                                  *)
LEMMA SharedWrites ==
    ASSUME now \in Nat, NEW keys \in SUBSET LooseKeys, NEW end \in Nat
    PROVE  Writes(extend_shared(keys, end), {})
BY SharedCall DEF Writes

(* Those of the policy.                                                    *)
LEMMA PolicyWrites ==
    ASSUME now \in Nat, NEW keys, NEW end \in Nat
    PROVE  /\ Writes(extend_for_policy(keys, end), keys)
           /\ keys \subseteq DOMAIN live \cup LooseKeys => Writes(extend_for_policy(keys, end), {})
BY PolicyCall DEF Writes

(* What is only read.                                                      *)
LEMMA ReadWrites ==
    ASSUME NEW keys
    PROVE  Writes(Read(keys), {})
BY ReadCall DEF Writes, Existing

(* Loose entries.                                                          *)
LEMMA Loose ==
    /\ SharedKeys \subseteq LooseKeys
    /\ ClaimTimes \in LooseKeys
    /\ <<"FarmerActiveCount", "farmer">> \in LooseKeys
    /\ <<"FarmerPendingCount", "farmer">> \in LooseKeys
    /\ <<"FarmerPolicyCount", "farmer">> \in LooseKeys
    /\ <<"OrgOutstanding", "org">> \in LooseKeys
    /\ <<"DistributorCount", "distributor">> \in LooseKeys
    /\ \A id \in Nat : <<"DistributorPolicy", id>> \in LooseKeys
    /\ \A a \in Adapters : <<"OrgObligationCount", a>> \in LooseKeys
BY DEF LooseKeys, FarmerAndOrgEntries, SharedKeys

(* The Policy entry, of open and of closed cover.                          *)
LEMMA BumpWrites ==
    ASSUME now \in Nat, NEW id, NEW p, p.end \in Nat, <<"Policy", id>> \in DOMAIN live
    PROVE  Writes(bump_policy(id, p), {})
<1>1. Writes(extend_for_policy({<<"Policy", id>>}, p.end), {})
  BY PolicyWrites
<1>2. Writes(extend_to({<<"Policy", id>>}, 0), {})
  BY ExtendTo DEF Writes
<1> QED  BY <1>1, <1>2 DEF bump_policy

(* Minting writes the certificate's entries.                               *)
LEMMA MintWrites ==
    ASSUME now \in Nat, NEW id \in Nat, NEW end \in Nat
    PROVE  Writes(mint_policy(id, end), CertificateKeys(id))
<1>1. PICK a, b, c : /\ a = extend_for_policy(CertificateKeys(id) \cup {<<"DistributorPolicy", id>>}, end)
                     /\ b = extend_shared({<<"DistributorCount", "distributor">>}, end)
                     /\ c = touch_contract("PolicyNft")
                     /\ mint_policy(id, end) = a ++ b ++ c
  BY DEF mint_policy
<1>2. Writes(a, CertificateKeys(id))
  BY <1>1, PolicyCall, Loose DEF Writes
<1>3. Writes(b, {}) /\ Writes(c, {})
  BY <1>1, Loose, SharedWrites, TouchWrites
<1>4. Writes(a ++ b, CertificateKeys(id))
  BY <1>2, <1>3, AlsoWrites
<1> QED  BY <1>1, <1>3, <1>4, AlsoWrites

(* What the invariant says of a policy.                                    *)
LEMMA KnownPolicy ==
    ASSUME RecordsOK, EntriesOK, NEW id \in DOMAIN policies
    PROVE  id \in Nat /\ id >= 1 /\ id <= Len(policies) /\ PolicyOK(policies[id]) /\ EntriesOf(id)
<1>1. id \in Nat /\ id >= 1 /\ id <= Len(policies) /\ PolicyOK(policies[id])
  BY DEF RecordsOK
<1> QED  BY <1>1 DEF EntriesOK

(* What it says of a debt.                                                 *)
LEMMA KnownDebt ==
    ASSUME RecordsOK, EntriesOK, AdaptersOK, NEW id \in DOMAIN debts
    PROVE  /\ id \in DOMAIN policies /\ policies[id].status = "Claimed"
           /\ debts[id].adapter \in Adapters /\ Deployed(debts[id].adapter)
           /\ debts[id].status \in {"Owed", "Funded", "Settled"}
           /\ DebtKeys(id) \subseteq DOMAIN live /\ SettledKeys(id) \subseteq DOMAIN live
<1>1. /\ id \in DOMAIN policies /\ policies[id].status = "Claimed"
      /\ debts[id].adapter \in Adapters /\ Deployed(debts[id].adapter)
      /\ debts[id].status \in {"Owed", "Funded", "Settled"}
  BY DEF RecordsOK, AdaptersOK, DebtRecords
<1>2. EntriesOf(id)
  BY <1>1, KnownPolicy
<1> QED  BY <1>1, <1>2 DEF EntriesOf

(* A sale writes the entries of the policy.                                *)
LEMMA CreateEffect ==
    ASSUME now \in 0 .. MaxNow, LivesOK, NEW d \in Durations, create_policy(d)
    PROVE  Grows /\ Adds(SaleKeys(Len(policies) + 1), {})
<1>1. PICK id, p, a, b, c, e, f :
        /\ id = Len(policies) + 1
        /\ p = [status |-> "Pending", sold |-> now, start |-> now, end |-> now + d]
        /\ a = bump_policy(id, p)
        /\ b = extend_for_policy({"FarmerPolicyAt", "PendingCounted"} \X {id}, p.end)
        /\ c = extend_shared({<<"FarmerPolicyCount", "farmer">>, <<"OrgOutstanding", "org">>,
                              <<"FarmerPendingCount", "farmer">>}, p.end)
        /\ e = Read({<<"FarmerActiveCount", "farmer">>, ClaimTimes})
        /\ f = touch_contract("PolicyManager")
        /\ Apply(a ++ b ++ c ++ e ++ f, {})
  BY DEF create_policy
<1>2. now \in Nat /\ p.end \in Nat
  BY <1>1, RentAssumption
<1>3. Writes(a, {<<"Policy", id>>})
  BY <1>1, <1>2, PolicyWrites DEF bump_policy
<1>4. Writes(b, {"FarmerPolicyAt", "PendingCounted"} \X {id})
  BY <1>1, <1>2, PolicyWrites
<1>5. Writes(c, {})
  BY <1>1, <1>2, Loose, SharedWrites
<1>6. Writes(e, {}) /\ Writes(f, {})
  BY <1>1, ReadWrites, TouchWrites
<1>7. {<<"Policy", id>>} \cup {"FarmerPolicyAt", "PendingCounted"} \X {id} = SaleKeys(id)
  BY Pairs DEF SaleKeys
<1>8. Writes(a ++ b, SaleKeys(id))
  BY <1>3, <1>4, <1>7, BothWrite
<1>9. Writes(a ++ b ++ c, SaleKeys(id))
  BY <1>5, <1>8, AlsoWrites
<1>10. Writes(a ++ b ++ c ++ e, SaleKeys(id))
  BY <1>6, <1>9, AlsoWrites
<1>11. Writes(a ++ b ++ c ++ e ++ f, SaleKeys(id))
  BY <1>6, <1>10, AlsoWrites
<1> QED  BY <1>1, <1>11, ApplyWrites

(* An activation writes the certificate's entries and drops the marker; it *)
(* extends the policy to its new end.                                      *)
LEMMA ActivateEffect ==
    ASSUME now \in 0 .. MaxNow, LivesOK, RecordsOK, EntriesOK,
           NEW id \in DOMAIN policies, activate_policy(id)
    PROVE  /\ Grows
           /\ Adds(CertificateKeys(id), {<<"PendingCounted", id>>})
           /\ \/ live'[<<"Policy", id>>] >= now + MaxLapse
              \/ live'[<<"Policy", id>>] >= policies'[id].end + POLICY_GRACE - DAY_LEDGERS
<1>1. PICK p, a, b, c, e :
        /\ p = [policies[id] EXCEPT !.status = "Active", !.start = now,
                         !.end = now + (policies[id].end - policies[id].start)]
        /\ policies' = [policies EXCEPT ![id] = p]
        /\ a = bump_policy(id, p)
        /\ b = extend_shared(SharedKeys, p.end)
        /\ c = mint_policy(id, p.end)
        /\ e = touch_contract("PolicyManager")
        /\ Apply(a ++ b ++ c ++ e, {<<"PendingCounted", id>>})
  BY DEF activate_policy
<1>2. now \in Nat /\ PolicyOK(policies[id])
  BY DEF RecordsOK
<1>3. p.end \in Nat
  BY <1>1, <1>2 DEF PolicyOK, PolicyRecords
<1>4. id \in Nat /\ <<"Policy", id>> \in DOMAIN live
  BY KnownPolicy DEF EntriesOf
<1>5. Writes(a, {})
  BY <1>1, <1>2, <1>3, <1>4, BumpWrites
<1>6. Writes(b, {}) /\ Writes(e, {})
  BY <1>1, <1>2, <1>3, Loose, SharedWrites, TouchWrites
<1>7. Writes(c, CertificateKeys(id))
  BY <1>1, <1>2, <1>3, <1>4, MintWrites
<1>8. Writes(a ++ b, {})
  BY <1>5, <1>6, AlsoWrites
<1>9. Writes(a ++ b ++ c, CertificateKeys(id))
  BY <1>7, <1>8, ThenWrites
<1>10. Writes(a ++ b ++ c ++ e, CertificateKeys(id))
  BY <1>6, <1>9, AlsoWrites
<1>11. a = extend_for_policy({<<"Policy", id>>}, p.end) /\ policies'[id].end = p.end
  BY <1>1, <1>2 DEF bump_policy, PolicyOK, PolicyRecords
<1>12. PICK n \in Int :
        /\ <<"Policy", id>> \in DOMAIN a /\ Reaches(a, <<"Policy", id>>, n)
        /\ now + n >= p.end + POLICY_GRACE - DAY_LEDGERS \/ n >= MaxLapse
  BY <1>2, <1>3, <1>11, PolicyCall
<1>13. /\ <<"Policy", id>> \in DOMAIN (a ++ b ++ c ++ e)
       /\ Reaches(a ++ b ++ c ++ e, <<"Policy", id>>, n)
  BY <1>12, FirstReaches
<1>14. live'[<<"Policy", id>>] >= now + n
  <2>1. <<"Policy", id>> \in DOMAIN (a ++ b ++ c ++ e) \ {<<"PendingCounted", id>>}
    BY <1>13
  <2>2. IsCall(a ++ b ++ c ++ e)
    BY <1>10 DEF Writes
  <2> QED  BY <1>1, <1>13, <2>1, <2>2, ApplyEffect
<1>15. live'[<<"Policy", id>>] \in Int
  <2>1. Grows /\ Adds(CertificateKeys(id), {<<"PendingCounted", id>>})
    BY <1>1, <1>10, ApplyWrites
  <2>2. <<"Policy", id>> \in DOMAIN live'
    BY <1>4, <2>1 DEF Adds
  <2> QED  BY <2>1, <2>2, Numbers DEF Grows
<1> QED  BY <1>1, <1>2, <1>3, <1>10, <1>11, <1>12, <1>14, <1>15, ApplyWrites, Numbers

(* Deactivating the certificate.                                           *)
LEMMA UpdateWrites ==
    ASSUME now \in Nat, NEW id \in DOMAIN policies, policies[id].end \in Nat,
           <<"Certificate", id>> \in DOMAIN live
    PROVE  Writes(update_policy_status(id), {})
<1>1. PICK a, b, c : /\ a = extend_for_policy({<<"Certificate", id>>}, policies[id].end)
                     /\ b = Read({<<"PolicyToToken", id>>})
                     /\ c = touch_contract("PolicyNft")
                     /\ update_policy_status(id) = a ++ b ++ c
  BY DEF update_policy_status
<1>2. Writes(a, {})
  BY <1>1, PolicyWrites
<1>3. Writes(b, {}) /\ Writes(c, {})
  BY <1>1, ReadWrites, TouchWrites
<1>4. Writes(a ++ b, {})
  BY <1>2, <1>3, AlsoWrites
<1> QED  BY <1>1, <1>3, <1>4, AlsoWrites

(* Leaving ACTIVE.                                                         *)
LEMMA LeaveActiveWrites ==
    ASSUME now \in Nat, RecordsOK, EntriesOK, NEW id \in DOMAIN policies,
           policies[id].status = "Active"
    PROVE  Writes(LeaveActive(id), {})
<1>1. PICK a, b, c, d :
        /\ a = bump_policy(id, policies[id])
        /\ b = extend_shared({<<"FarmerActiveCount", "farmer">>, <<"OrgOutstanding", "org">>},
                             policies[id].end)
        /\ c = update_policy_status(id)
        /\ d = touch_contract("PolicyManager")
        /\ LeaveActive(id) = a ++ b ++ c ++ d
  BY DEF LeaveActive
<1>2. policies[id].end \in Nat /\ <<"Policy", id>> \in DOMAIN live
      /\ <<"Certificate", id>> \in DOMAIN live
  BY KnownPolicy DEF PolicyOK, PolicyRecords, EntriesOf, CertificateKeys
<1>3. Writes(a, {}) /\ Writes(c, {})
  BY <1>1, <1>2, BumpWrites, UpdateWrites
<1>4. Writes(b, {}) /\ Writes(d, {})
  BY <1>1, <1>2, Loose, SharedWrites, TouchWrites
<1>5. Writes(a ++ b, {})
  BY <1>3, <1>4, AlsoWrites
<1>6. Writes(a ++ b ++ c, {})
  BY <1>3, <1>5, AlsoWrites
<1> QED  BY <1>1, <1>4, <1>6, AlsoWrites

(* Leaving PENDING.                                                        *)
LEMMA LeavePendingWrites ==
    ASSUME now \in Nat, RecordsOK, EntriesOK, NEW id \in DOMAIN policies
    PROVE  Writes(LeavePending(id), {})
<1>1. PICK a, b, d :
        /\ a = bump_policy(id, policies[id])
        /\ b = extend_shared({<<"FarmerPendingCount", "farmer">>, <<"OrgOutstanding", "org">>},
                             policies[id].end)
        /\ d = touch_contract("PolicyManager")
        /\ LeavePending(id) = a ++ b ++ d
  BY DEF LeavePending
<1>2. policies[id].end \in Nat /\ <<"Policy", id>> \in DOMAIN live
  BY KnownPolicy DEF PolicyOK, PolicyRecords, EntriesOf
<1>3. Writes(a, {})
  BY <1>1, <1>2, BumpWrites
<1>4. Writes(b, {}) /\ Writes(d, {})
  BY <1>1, <1>2, Loose, SharedWrites, TouchWrites
<1>5. Writes(a ++ b, {})
  BY <1>3, <1>4, AlsoWrites
<1> QED  BY <1>1, <1>4, <1>5, AlsoWrites

(* Closing an open policy writes no new entry and drops the marker of a    *)
(* pending one.                                                            *)
LEMMA CloseEffect ==
    ASSUME now \in 0 .. MaxNow, LivesOK, RecordsOK, EntriesOK,
           NEW id \in DOMAIN policies, NEW s, ClosePolicy(id, s)
    PROVE  /\ Grows
           /\ Adds({}, IF policies[id].status = "Active" THEN {} ELSE {<<"PendingCounted", id>>})
<1>1. CASE policies[id].status = "Active"
  <2>1. Writes(LeaveActive(id), {}) /\ Apply(LeaveActive(id), {})
    BY <1>1, LeaveActiveWrites DEF ClosePolicy
  <2> QED  BY <1>1, <2>1, ApplyWrites
<1>2. CASE policies[id].status # "Active"
  <2>1. Writes(LeavePending(id), {}) /\ Apply(LeavePending(id), {<<"PendingCounted", id>>})
    BY <1>2, LeavePendingWrites DEF ClosePolicy
  <2> QED  BY <1>2, <2>1, ApplyWrites
<1> QED  BY <1>1, <1>2

(* The entries of a debt outlive the next pass.                            *)
LEMMA DebtCall ==
    ASSUME NEW id, NEW a
    PROVE  /\ IsCall(extend_entries(id, a))
           /\ DOMAIN extend_entries(id, a) = DebtKeys(id) \cup {<<"OrgObligationCount", a>>}
           /\ \A k \in DebtKeys(id) \cup {<<"OrgObligationCount", a>>} :
                 Reaches(extend_entries(id, a), k, MaxLapse)
<1>1. PICK f, g : /\ f = extend_pending(DebtKeys(id))
                  /\ g = extend_shared_no_policy({<<"OrgObligationCount", a>>})
                  /\ extend_entries(id, a) = f ++ g
  BY DEF extend_entries
<1>2. IsCall(f) /\ DOMAIN f = DebtKeys(id) /\ \A k \in DebtKeys(id) : Reaches(f, k, MaxLapse)
  BY <1>1, PendingCall
<1>3. /\ IsCall(g) /\ DOMAIN g = {<<"OrgObligationCount", a>>}
      /\ \A k \in {<<"OrgObligationCount", a>>} : Reaches(g, k, MaxLapse)
  BY <1>1, SharedNoPolicyCall
<1>4. \A k \in DebtKeys(id) \cup {<<"OrgObligationCount", a>>} : Reaches(f ++ g, k, MaxLapse)
  BY <1>2, <1>3, FirstReaches, ThenReaches
<1> QED  BY <1>1, <1>2, <1>3, <1>4, MergedCall

(* The keys of debts and receiver, listed.                                 *)
LEMMA DebtKeysAre ==
    ASSUME NEW id
    PROVE  /\ DebtKeys(id) = {<<"Obligation", id>>, <<"ObligationOf", id>>, <<"OrgObligationAt", id>>}
           /\ SettledKeys(id) = {<<"PolicyPaid", id>>, <<"Report", id>>}
           /\ CertificateKeys(id) = {<<"Certificate", id>>, <<"PolicyToToken", id>>, <<"Owner", id>>}
           /\ ContractKeys(id) = {<<"Instance", id>>, <<"Code", id>>}
BY Pairs, Triples DEF DebtKeys, SettledKeys, CertificateKeys, ContractKeys

(* A claim writes the receiver's and the adapter's entries; the org's      *)
(* count outlives the next pass.                                           *)
LEMMA SettleEffect ==
    ASSUME now \in 0 .. MaxNow, LivesOK, RecordsOK, EntriesOK, AdaptersOK,
           NEW id \in DOMAIN policies, settle_verified(id)
    PROVE  /\ Grows
           /\ Adds(SettledKeys(id) \cup DebtKeys(id), {})
           /\ <<"OrgObligationCount", bound>> \in DOMAIN live'
           /\ live'[<<"OrgObligationCount", bound>>] >= now + MaxLapse
<1>1. PICK a, b, c, d, e, f :
        /\ a = touch_contract("PayoutReceiver")
        /\ b = extend_for_policy(SettledKeys(id), policies[id].end)
        /\ c = touch_contract(bound)
        /\ d = extend_entries(id, bound)
        /\ e = LeaveActive(id)
        /\ f = extend_for_secs({ClaimTimes}, CLAIM_HISTORY)
        /\ Apply(a ++ b ++ c ++ d ++ e ++ f, {})
        /\ policies[id].status = "Active"
  BY DEF settle_verified
<1>2. now \in Nat /\ policies[id].end \in Nat /\ bound \in Adapters
  BY KnownPolicy DEF PolicyOK, PolicyRecords, RecordsOK
<1>3. Writes(a, {}) /\ Writes(c, {})
  BY <1>1, TouchWrites DEF AdaptersOK
<1>4. Writes(b, SettledKeys(id))
  BY <1>1, <1>2, PolicyWrites
<1>5. Writes(d, DebtKeys(id))
  <2>1. IsCall(d) /\ DOMAIN d = DebtKeys(id) \cup {<<"OrgObligationCount", bound>>}
    BY <1>1, DebtCall
  <2>2. <<"OrgObligationCount", bound>> \in LooseKeys
    BY <1>2, Loose
  <2> QED  BY <2>1, <2>2 DEF Writes
<1>6. Writes(e, {})
  BY <1>1, <1>2, LeaveActiveWrites
<1>7. Writes(f, {})
  BY <1>1, <1>2, SecsCall, Loose, Numbers DEF Writes
<1>8. Writes(a ++ b, SettledKeys(id))
  BY <1>3, <1>4, ThenWrites
<1>9. Writes(a ++ b ++ c, SettledKeys(id))
  BY <1>3, <1>8, AlsoWrites
<1>10. Writes(a ++ b ++ c ++ d, SettledKeys(id) \cup DebtKeys(id))
  BY <1>5, <1>9, BothWrite
<1>11. Writes(a ++ b ++ c ++ d ++ e, SettledKeys(id) \cup DebtKeys(id))
  BY <1>6, <1>10, AlsoWrites
<1>12. Writes(a ++ b ++ c ++ d ++ e ++ f, SettledKeys(id) \cup DebtKeys(id))
  BY <1>7, <1>11, AlsoWrites
<1>13. PICK k : k = <<"OrgObligationCount", bound>>
  OBVIOUS
<1>14. k \notin DOMAIN (a ++ b ++ c)
  <2>1. /\ IsCall(a) /\ DOMAIN a = ContractKeys("PayoutReceiver")
        /\ IsCall(b) /\ DOMAIN b = SettledKeys(id)
        /\ IsCall(c) /\ DOMAIN c = ContractKeys(bound)
    BY <1>1, <1>2, TouchCall, PolicyCall
  <2>2. IsCall(a ++ b) /\ DOMAIN (a ++ b) = DOMAIN a \cup DOMAIN b
    BY <2>1, MergedCall
  <2>3. DOMAIN (a ++ b ++ c) = DOMAIN a \cup DOMAIN b \cup DOMAIN c
    BY <2>1, <2>2, MergedCall
  <2>4. k \notin DOMAIN a /\ k \notin DOMAIN b /\ k \notin DOMAIN c
    BY <1>13, <2>1, DebtKeysAre
  <2> QED  BY <2>3, <2>4
<1>15. k \in DOMAIN d /\ Reaches(d, k, MaxLapse)
  BY <1>1, <1>13, DebtCall
<1>16. k \in DOMAIN (a ++ b ++ c ++ d) /\ Reaches(a ++ b ++ c ++ d, k, MaxLapse)
  BY <1>14, <1>15, ThenReaches
<1>17. /\ k \in DOMAIN (a ++ b ++ c ++ d ++ e ++ f)
       /\ Reaches(a ++ b ++ c ++ d ++ e ++ f, k, MaxLapse)
  <2>1. k \in DOMAIN (a ++ b ++ c ++ d ++ e) /\ Reaches(a ++ b ++ c ++ d ++ e, k, MaxLapse)
    BY <1>16, FirstReaches
  <2> QED  BY <2>1, FirstReaches
<1>18. IsCall(a ++ b ++ c ++ d ++ e ++ f)
  BY <1>12 DEF Writes
<1>19. live'[k] >= now + MaxLapse /\ k \in DOMAIN live'
  <2>1. PICK call : call = a ++ b ++ c ++ d ++ e ++ f
    OBVIOUS
  <2>2. /\ Apply(call, {}) /\ IsCall(call)
        /\ k \in DOMAIN call /\ Reaches(call, k, MaxLapse)
    BY <1>1, <1>17, <1>18, <2>1
  <2> QED  BY <2>2, ApplyReaches, Numbers
<1> QED  BY <1>1, <1>12, <1>13, <1>19, ApplyWrites

(* Marking a debt writes no new entry.                                     *)
LEMMA MarkEffect ==
    ASSUME now \in 0 .. MaxNow, LivesOK, RecordsOK, EntriesOK, AdaptersOK,
           NEW id \in DOMAIN debts, NEW s, MarkDebt(id, s)
    PROVE  Grows /\ Adds({}, {})
<1>1. PICK a, b : /\ a = touch_contract(debts[id].adapter)
                  /\ b = extend_entries(id, debts[id].adapter)
                  /\ Apply(a ++ b, {})
  BY DEF MarkDebt
<1> debts[id].adapter \in Adapters /\ Deployed(debts[id].adapter) /\ DebtKeys(id) \subseteq DOMAIN live
  BY KnownDebt
<1>2. Writes(a, {})
  BY <1>1, TouchWrites
<1>3. Writes(b, {})
  <2>1. <<"OrgObligationCount", debts[id].adapter>> \in LooseKeys
    BY Loose
  <2>2. IsCall(b) /\ DOMAIN b = DebtKeys(id) \cup {<<"OrgObligationCount", debts[id].adapter>>}
    BY <1>1, DebtCall
  <2> QED  BY <2>1, <2>2 DEF Writes
<1>4. Writes(a ++ b, {})
  BY <1>2, <1>3, AlsoWrites
<1> QED  BY <1>1, <1>4, ApplyWrites

(* A swap writes the adapter deployed for it.                              *)
LEMMA SwapEffect ==
    ASSUME now \in 0 .. MaxNow, LivesOK, NEW a \in Adapters, set_settlement_adapter(a)
    PROVE  Grows /\ Adds(ContractKeys(a), {})
<1>1. PICK f, g : /\ f = touch_contract(a)
                  /\ g = touch_contract("PayoutReceiver")
                  /\ Apply(f ++ g, {})
  BY DEF set_settlement_adapter
<1>2. Writes(f, ContractKeys(a)) /\ Writes(g, {})
  BY <1>1, TouchCall, TouchWrites DEF Writes
<1>3. Writes(f ++ g, ContractKeys(a))
  BY <1>2, AlsoWrites
<1> QED  BY <1>1, <1>3, ApplyWrites

(* An upgrade writes no new entry.                                         *)
LEMMA UpgradeAdds ==
    ASSUME now \in 0 .. MaxNow, LivesOK, NEW c, upgrade(c)
    PROVE  Grows /\ Adds({}, {})
BY UpgradeEffect DEF Adds

-----------------------------------------------------------------------------
(* What the keeper's calls do to the entries.                              *)

Needed(id) == policies[id].end + POLICY_GRACE - DAY_LEDGERS

ContractEntries == {"Instance", "Code"} \X Contracts

(* The call extends the keys to the next pass or, those of policy id, as   *)
(* far as it needs them.                                                   *)
Keeps(call, id, keys) ==
    /\ Writes(call, {})
    /\ keys \subseteq DOMAIN call
    /\ \A k \in DOMAIN call \ ContractEntries :
          \/ Reaches(call, k, MaxLapse)
          \/ k \in OwnEntries(id) /\ \E n \in Int : Reaches(call, k, n) /\ now + n >= Needed(id)

(* Two calls in one transaction.                                           *)
LEMMA BothKeep ==
    ASSUME NEW f, NEW g, NEW id, NEW X, NEW Y, Keeps(f, id, X), Keeps(g, id, Y)
    PROVE  Keeps(f ++ g, id, X \cup Y)
<1>1. Writes(f, {}) /\ Writes(g, {}) /\ IsCall(f) /\ IsCall(g)
  BY DEF Keeps, Writes
<1>2. Writes(f ++ g, {})
  BY <1>1, AlsoWrites
<1>3. /\ DOMAIN (f ++ g) = DOMAIN f \cup DOMAIN g
      /\ \A k \in DOMAIN f : (f ++ g)[k] = f[k]
      /\ \A k \in DOMAIN g \ DOMAIN f : (f ++ g)[k] = g[k]
  BY <1>1, MergedCall
<1>4. X \cup Y \subseteq DOMAIN (f ++ g)
  BY <1>3 DEF Keeps
<1>5. ASSUME NEW k \in DOMAIN (f ++ g) \ ContractEntries
      PROVE  \/ Reaches(f ++ g, k, MaxLapse)
             \/ k \in OwnEntries(id) /\ \E n \in Int : Reaches(f ++ g, k, n) /\ now + n >= Needed(id)
  <2>1. CASE k \in DOMAIN f
    BY <1>3, <2>1 DEF Keeps, Reaches
  <2>2. CASE k \notin DOMAIN f
    BY <1>3, <2>2 DEF Keeps, Reaches
  <2> QED  BY <2>1, <2>2
<1> QED  BY <1>2, <1>4, <1>5 DEF Keeps

(* What such a transaction leaves.                                         *)
LEMMA KeepsEffect ==
    ASSUME now \in 0 .. MaxNow, LivesOK, NEW call, NEW id, NEW X, Keeps(call, id, X),
           Apply(call, {})
    PROVE  /\ Grows /\ Adds({}, {})
           /\ \A k \in X \ ContractEntries :
                 \/ live'[k] >= now + MaxLapse
                 \/ k \in OwnEntries(id) /\ \E n \in Int : live'[k] >= now + n /\ now + n >= Needed(id)
<1>1. Writes(call, {}) /\ IsCall(call)
  BY DEF Keeps, Writes
<1>2. ASSUME NEW k \in X \ ContractEntries
      PROVE  \/ live'[k] >= now + MaxLapse
             \/ k \in OwnEntries(id) /\ \E n \in Int : live'[k] >= now + n /\ now + n >= Needed(id)
  <2>1. k \in DOMAIN call
    BY DEF Keeps
  <2>2. CASE Reaches(call, k, MaxLapse)
    BY <1>1, <2>1, <2>2, ApplyReaches, Numbers
  <2>3. ASSUME k \in OwnEntries(id), NEW n \in Int, Reaches(call, k, n), now + n >= Needed(id)
        PROVE  \E m \in Int : live'[k] >= now + m /\ now + m >= Needed(id)
    BY <1>1, <2>1, <2>3, ApplyReaches
  <2> QED  BY <2>1, <2>2, <2>3 DEF Keeps
<1> QED  BY <1>1, <1>2, ApplyWrites

(* An empty call.                                                          *)
LEMMA NoCall ==
    ASSUME NEW id
    PROVE  Keeps(<< >>, id, {})
BY DEF Keeps, Writes, IsCall

(* A contract in use is touched on the way.                                *)
LEMMA TouchKeeps ==
    ASSUME NEW c \in Contracts, NEW id,
           c \in {"PolicyManager", "PolicyNft", "PayoutReceiver"} \/ Deployed(c)
    PROVE  Keeps(touch_contract(c), id, {})
<1>1. Writes(touch_contract(c), {})
  BY TouchWrites
<1>2. DOMAIN touch_contract(c) = {<<"Instance", c>>, <<"Code", c>>}
  BY TouchCall, DebtKeysAre
<1>3. <<"Instance", c>> \in ContractEntries /\ <<"Code", c>> \in ContractEntries
  BY DEF ContractEntries
<1> QED  BY <1>1, <1>2, <1>3 DEF Keeps

(* Entries of the policy.                                                  *)
LEMMA PolicyKeeps ==
    ASSUME now \in Nat, NEW id, policies[id].end \in Nat,
           NEW keys, keys \subseteq OwnEntries(id), keys \subseteq DOMAIN live
    PROVE  Keeps(extend_for_policy(keys, policies[id].end), id, keys)
<1>1. PICK c : c = extend_for_policy(keys, policies[id].end)
  OBVIOUS
<1>2. /\ DOMAIN c = keys
      /\ IsCall(c)
      /\ \A k \in keys : \E n \in Int :
            Reaches(c, k, n) /\ (now + n >= Needed(id) \/ n >= MaxLapse)
  BY <1>1, PolicyCall DEF Needed
<1>3. Writes(c, {})
  BY <1>2 DEF Writes
<1>4. ASSUME NEW k \in keys, NEW n \in Int, Reaches(c, k, n), n >= MaxLapse
      PROVE  Reaches(c, k, MaxLapse)
  BY <1>2, <1>4, Numbers DEF IsCall, IsRule, Reaches
<1>5. \A k \in keys : \/ Reaches(c, k, MaxLapse)
                       \/ \E n \in Int : Reaches(c, k, n) /\ now + n >= Needed(id)
  BY <1>2, <1>4
<1> QED  BY <1>1, <1>2, <1>3, <1>5 DEF Keeps

(* Entries of the farmer and the org.                                      *)
LEMMA SharedKeeps ==
    ASSUME now \in Nat, NEW id, policies[id].end \in Nat
    PROVE  /\ Keeps(extend_shared(Existing(SharedKeys), policies[id].end), id, Existing(SharedKeys))
           /\ Keeps(extend_for_secs(Existing({ClaimTimes}), CLAIM_HISTORY), id, Existing({ClaimTimes}))
<1>1. Existing(SharedKeys) \subseteq DOMAIN live /\ Existing({ClaimTimes}) \subseteq DOMAIN live
  BY DEF Existing
<1>2. CLAIM_HISTORY \in Nat
  BY Numbers
<1>3. Keeps(extend_shared(Existing(SharedKeys), policies[id].end), id, Existing(SharedKeys))
  BY <1>1, SharedCall DEF Keeps, Writes
<1>4. Keeps(extend_for_secs(Existing({ClaimTimes}), CLAIM_HISTORY), id, Existing({ClaimTimes}))
  BY <1>1, <1>2, SecsCall DEF Keeps, Writes
<1> QED  BY <1>3, <1>4

(* extend_obligation_ttl keeps an open debt.                               *)
LEMMA ObligationKeeps ==
    ASSUME RecordsOK, EntriesOK, AdaptersOK, NEW id \in DOMAIN debts
    PROVE  Keeps(extend_obligation_ttl(id), id,
                 IF debts[id].status = "Settled" THEN {} ELSE EntriesOfDebt(id))
<1>1. PICK a : a = debts[id].adapter
  OBVIOUS
<1>2. a \in Adapters /\ a \in Contracts /\ Deployed(a) /\ DebtKeys(id) \subseteq DOMAIN live
  BY <1>1, KnownDebt DEF Contracts
<1>3. Keeps(touch_contract(a), id, {})
  BY <1>2, TouchKeeps
<1>4. Keeps(extend_entries(id, a), id, EntriesOfDebt(id))
  <2>1. EntriesOfDebt(id) = DebtKeys(id) \cup {<<"OrgObligationCount", a>>}
    BY <1>1 DEF EntriesOfDebt
  <2>2. <<"OrgObligationCount", a>> \in LooseKeys
    BY <1>2, Loose
  <2> QED  BY <1>2, <2>1, <2>2, DebtCall DEF Keeps, Writes
<1>5. CASE debts[id].status = "Settled"
  <2>1. extend_obligation_ttl(id) = touch_contract(a) ++ << >>
    BY <1>1, <1>5 DEF extend_obligation_ttl
  <2>2. Keeps(touch_contract(a) ++ << >>, id, {} \cup {})
    BY <1>3, NoCall, BothKeep
  <2> QED  BY <1>5, <2>1, <2>2
<1>6. CASE debts[id].status # "Settled"
  <2>1. extend_obligation_ttl(id) = touch_contract(a) ++ extend_entries(id, a)
    BY <1>1, <1>6 DEF extend_obligation_ttl
  <2>2. Keeps(touch_contract(a) ++ extend_entries(id, a), id, {} \cup EntriesOfDebt(id))
    BY <1>3, <1>4, BothKeep
  <2>3. {} \cup EntriesOfDebt(id) = EntriesOfDebt(id)
    OBVIOUS
  <2> QED  BY <1>6, <2>1, <2>2, <2>3
<1> QED  BY <1>5, <1>6

(* The certificate contract's keeper.                                      *)
LEMMA NftKeeps ==
    ASSUME now \in Nat, RecordsOK, EntriesOK, NEW id \in DOMAIN policies
    PROVE  Keeps(NftExtendPolicyTtl(id), id, Existing(CertificateKeys(id)))
<1>1. policies[id].end \in Nat
  BY KnownPolicy DEF PolicyOK, PolicyRecords
<1>2. PICK C : C = Existing(CertificateKeys(id))
  OBVIOUS
<1>3. C \subseteq OwnEntries(id) /\ C \subseteq DOMAIN live
  BY <1>2 DEF OwnEntries, Existing
<1>4. PICK f, g : /\ f = touch_contract("PolicyNft")
                  /\ g = extend_for_policy(C, policies[id].end)
                  /\ NftExtendPolicyTtl(id) = f ++ g
  BY <1>2 DEF NftExtendPolicyTtl
<1>5. Keeps(f, id, {})
  BY <1>4, TouchKeeps DEF Contracts
<1>6. Keeps(g, id, C)
  BY <1>1, <1>3, <1>4, PolicyKeeps
<1>7. Keeps(f ++ g, id, {} \cup C)
  BY <1>5, <1>6, BothKeep
<1>8. {} \cup C = C
  OBVIOUS
<1> QED  BY <1>2, <1>4, <1>7, <1>8

(* PolicyManager's.                                                        *)
LEMMA PmKeeps ==
    ASSUME now \in Nat, RecordsOK, EntriesOK, NEW id \in DOMAIN policies
    PROVE  Keeps(PmExtendPolicyTtl(id), id,
                 Existing({"Policy", "PendingCounted"} \X {id}) \cup Existing(FarmerAndOrgEntries)
                 \cup Existing(CertificateKeys(id)))
<1>1. policies[id].end \in Nat /\ <<"Policy", id>> \in DOMAIN live
  BY KnownPolicy DEF PolicyOK, PolicyRecords, EntriesOf
<1>2. PICK A, B, C, D :
        /\ A = {<<"Policy", id>>} \cup Existing({<<"PendingCounted", id>>})
        /\ B = Existing(SharedKeys) /\ C = Existing({ClaimTimes})
        /\ D = Existing(CertificateKeys(id))
  OBVIOUS
<1>3. A \subseteq OwnEntries(id) /\ A \subseteq DOMAIN live
  BY <1>1, <1>2 DEF OwnEntries, Existing
<1>4. PICK f, g, h, i, j :
        /\ f = extend_for_policy(A, policies[id].end)
        /\ g = extend_shared(B, policies[id].end)
        /\ h = extend_for_secs(C, CLAIM_HISTORY)
        /\ i = touch_contract("PolicyManager")
        /\ j = NftExtendPolicyTtl(id)
        /\ PmExtendPolicyTtl(id) = f ++ g ++ h ++ i ++ j
  BY <1>2 DEF PmExtendPolicyTtl
<1>5. Keeps(f, id, A)
  BY <1>1, <1>3, <1>4, PolicyKeeps
<1>6. Keeps(g, id, B) /\ Keeps(h, id, C)
  BY <1>1, <1>2, <1>4, SharedKeeps
<1>7. Keeps(i, id, {})
  BY <1>4, TouchKeeps DEF Contracts
<1>8. Keeps(j, id, D)
  BY <1>2, <1>4, NftKeeps
<1>9. Keeps(f ++ g, id, A \cup B)
  BY <1>5, <1>6, BothKeep
<1>10. Keeps(f ++ g ++ h, id, A \cup B \cup C)
  BY <1>6, <1>9, BothKeep
<1>11. Keeps(f ++ g ++ h ++ i, id, A \cup B \cup C \cup {})
  BY <1>7, <1>10, BothKeep
<1>12. Keeps(f ++ g ++ h ++ i ++ j, id, A \cup B \cup C \cup {} \cup D)
  BY <1>8, <1>11, BothKeep
<1>13. Existing({"Policy", "PendingCounted"} \X {id}) \cup Existing(FarmerAndOrgEntries)
       \cup Existing(CertificateKeys(id)) = A \cup B \cup C \cup {} \cup D
  <2>1. Existing({"Policy", "PendingCounted"} \X {id}) = A
    BY <1>1, <1>2, Pairs DEF Existing
  <2>2. Existing(FarmerAndOrgEntries) = B \cup C
    BY <1>2 DEF Existing, FarmerAndOrgEntries
  <2> QED  BY <1>2, <2>1, <2>2
<1> QED  BY <1>4, <1>12, <1>13

(* The entries of a debt the receiver's call finds.                        *)
FoundDebt(id) == IF id \in OpenDebts /\ debts[id].adapter = bound THEN EntriesOfDebt(id) ELSE {}

(* The receiver's, which reaches all the others.                           *)
LEMMA PrKeeps ==
    ASSUME now \in Nat, RecordsOK, EntriesOK, AdaptersOK, NEW id \in DOMAIN policies
    PROVE  Keeps(PrExtendPolicyTtl(id), id,
                 Existing(OwnEntries(id)) \cup Existing(FarmerAndOrgEntries) \cup FoundDebt(id))
<1>1. policies[id].end \in Nat
  BY KnownPolicy DEF PolicyOK, PolicyRecords
<1>2. PICK A, B : /\ A = Existing(SettledKeys(id))
                  /\ B = Existing({"Policy", "PendingCounted"} \X {id})
                         \cup Existing(FarmerAndOrgEntries) \cup Existing(CertificateKeys(id))
  OBVIOUS
<1>3. A \subseteq OwnEntries(id) /\ A \subseteq DOMAIN live
  BY <1>2 DEF OwnEntries, Existing
<1>4. PICK f, g, h, i :
        /\ f = touch_contract("PayoutReceiver")
        /\ g = extend_for_policy(A, policies[id].end)
        /\ h = IF id \in DOMAIN debts /\ debts[id].adapter = bound
               THEN extend_obligation_ttl(id) ELSE << >>
        /\ i = PmExtendPolicyTtl(id)
        /\ PrExtendPolicyTtl(id) = f ++ g ++ h ++ i
  BY <1>2 DEF PrExtendPolicyTtl
<1>5. Keeps(f, id, {})
  BY <1>4, TouchKeeps DEF Contracts
<1>6. Keeps(g, id, A)
  BY <1>1, <1>3, <1>4, PolicyKeeps
<1>7. Keeps(h, id, FoundDebt(id))
  BY <1>4, ObligationKeeps, NoCall DEF FoundDebt, OpenDebts
<1>8. Keeps(i, id, B)
  BY <1>2, <1>4, PmKeeps
<1>9. Keeps(f ++ g, id, {} \cup A)
  BY <1>5, <1>6, BothKeep
<1>10. Keeps(f ++ g ++ h, id, {} \cup A \cup FoundDebt(id))
  BY <1>7, <1>9, BothKeep
<1>11. Keeps(f ++ g ++ h ++ i, id, {} \cup A \cup FoundDebt(id) \cup B)
  BY <1>8, <1>10, BothKeep
<1>12. Existing(OwnEntries(id)) \cup Existing(FarmerAndOrgEntries) \cup FoundDebt(id)
       = {} \cup A \cup FoundDebt(id) \cup B
  BY <1>2 DEF Existing, OwnEntries
<1> QED  BY <1>4, <1>11, <1>12

(* The kinds of entries are different.                                     *)
LEMMA KindsDiffer ==
    ASSUME NEW id
    PROVE  /\ OwnEntries(id) \cap ContractEntries = {}
           /\ FarmerAndOrgEntries \cap ContractEntries = {}
           /\ EntriesOfDebt(id) \cap ContractEntries = {}
           /\ FarmerAndOrgEntries \cap OwnEntries(id) = {}
           /\ EntriesOfDebt(id) \cap OwnEntries(id) = {}
<1>1. \A k \in ContractEntries : k[1] \in {"Instance", "Code"}
  BY DEF ContractEntries
<1>2. \A k \in OwnEntries(id) : k[1] \in {"Policy", "PendingCounted", "Certificate",
                                          "PolicyToToken", "Owner", "PolicyPaid", "Report"}
  BY DEF OwnEntries, CertificateKeys, SettledKeys
<1>3. \A k \in EntriesOfDebt(id) :
        k[1] \in {"Obligation", "ObligationOf", "OrgObligationAt", "OrgObligationCount"}
  BY DEF EntriesOfDebt, DebtKeys
<1>4. \A k \in FarmerAndOrgEntries :
        k[1] \in {"FarmerActiveCount", "FarmerPendingCount", "FarmerPolicyCount", "OrgOutstanding",
                  "FarmerClaimTimes"}
  BY DEF FarmerAndOrgEntries, SharedKeys, ClaimTimes
<1>5. /\ OwnEntries(id) \cap ContractEntries = {}
      /\ FarmerAndOrgEntries \cap ContractEntries = {}
      /\ EntriesOfDebt(id) \cap ContractEntries = {}
  BY <1>1, <1>2, <1>3, <1>4
<1>6. /\ FarmerAndOrgEntries \cap OwnEntries(id) = {}
      /\ EntriesOfDebt(id) \cap OwnEntries(id) = {}
  BY <1>2, <1>3, <1>4
<1> QED  BY <1>5, <1>6

(* Step 2 of the job for one policy.                                       *)
LEMMA PolicyTask ==
    ASSUME now \in 0 .. MaxNow, LivesOK, RecordsOK, EntriesOK, AdaptersOK,
           NEW id \in DOMAIN policies, Apply(PrExtendPolicyTtl(id), {})
    PROVE  /\ Grows /\ Adds({}, {})
           /\ \A k \in Existing(OwnEntries(id)) :
                 live'[k] >= now + MaxLapse \/ live'[k] >= Needed(id)
           /\ \A k \in Existing(FarmerAndOrgEntries) : live'[k] >= now + MaxLapse
           /\ \A k \in FoundDebt(id) : live'[k] >= now + MaxLapse
<1>1. now \in Nat
  OBVIOUS
<1>2. PICK X : X = Existing(OwnEntries(id)) \cup Existing(FarmerAndOrgEntries) \cup FoundDebt(id)
  OBVIOUS
<1>3. Keeps(PrExtendPolicyTtl(id), id, X)
  BY <1>1, <1>2, PrKeeps
<1>4. /\ Grows /\ Adds({}, {})
      /\ \A k \in X \ ContractEntries :
            \/ live'[k] >= now + MaxLapse
            \/ k \in OwnEntries(id) /\ \E n \in Int : live'[k] >= now + n /\ now + n >= Needed(id)
  BY <1>3, KeepsEffect
<1>5. ASSUME NEW k \in Existing(OwnEntries(id))
      PROVE  live'[k] >= now + MaxLapse \/ live'[k] >= Needed(id)
  <2>1. k \in X \ ContractEntries /\ k \in DOMAIN live
    BY <1>2, KindsDiffer DEF Existing
  <2>2. k \in DOMAIN live'
    BY <1>4, <2>1 DEF Adds
  <2>3. live'[k] \in Int
    BY <1>4, <2>2, Numbers DEF Grows
  <2>4. Needed(id) \in Int
    <3>1. policies[id].end \in Nat
      BY KnownPolicy DEF PolicyOK, PolicyRecords
    <3> QED  BY <3>1, Numbers DEF Needed
  <2> QED  BY <1>1, <1>4, <2>1, <2>3, <2>4, Numbers
<1>6. ASSUME NEW k \in Existing(FarmerAndOrgEntries)
      PROVE  live'[k] >= now + MaxLapse
  BY <1>2, <1>4, KindsDiffer DEF Existing
<1>7. ASSUME NEW k \in FoundDebt(id)
      PROVE  live'[k] >= now + MaxLapse
  <2>1. k \in EntriesOfDebt(id)
    BY DEF FoundDebt
  <2> QED  BY <1>2, <1>4, <2>1, KindsDiffer
<1> QED  BY <1>4, <1>5, <1>6, <1>7

(* Step 3 for a debt.                                                      *)
LEMMA DebtTask ==
    ASSUME now \in 0 .. MaxNow, LivesOK, RecordsOK, EntriesOK, AdaptersOK,
           NEW id \in DOMAIN debts, Apply(extend_obligation_ttl(id), {})
    PROVE  /\ Grows /\ Adds({}, {})
           /\ id \in OpenDebts => \A k \in EntriesOfDebt(id) : live'[k] >= now + MaxLapse
<1>1. PICK X : X = IF debts[id].status = "Settled" THEN {} ELSE EntriesOfDebt(id)
  OBVIOUS
<1>2. Keeps(extend_obligation_ttl(id), id, X)
  BY <1>1, ObligationKeeps
<1>3. /\ Grows /\ Adds({}, {})
      /\ \A k \in X \ ContractEntries : live'[k] >= now + MaxLapse \/ k \in OwnEntries(id)
  BY <1>2, KeepsEffect
<1>4. ASSUME id \in OpenDebts, NEW k \in EntriesOfDebt(id)
      PROVE  live'[k] >= now + MaxLapse
  <2>1. k \in X
    BY <1>1, <1>4 DEF OpenDebts
  <2> QED  BY <1>3, <2>1, KindsDiffer
<1> QED  BY <1>3, <1>4

(* Step 3 for a replaced adapter.                                          *)
LEMMA AdapterTask ==
    ASSUME now \in 0 .. MaxNow, LivesOK, NEW a, Deployed(a), Apply(keep_contract_alive(a), {})
    PROVE  /\ Grows /\ Adds({}, {})
           /\ \A k \in ContractKeys(a) : live'[k] >= now + MaxLapse
<1>1. Writes(keep_contract_alive(a), {})
  BY KeepCall DEF Writes, Deployed
<1>2. \A k \in ContractKeys(a) : live'[k] >= now + MaxLapse
  BY KeepCall, ApplyReaches, Numbers
<1> QED  BY <1>1, <1>2, ApplyWrites

(* Step 1, for the contracts the receiver reaches.                         *)
LEMMA StartTask ==
    ASSUME now \in 0 .. MaxNow, LivesOK, AdaptersOK, Apply(PrExtendContractTtl, {})
    PROVE  /\ Grows /\ Adds({}, {})
           /\ \A c \in {"PolicyManager", "PolicyNft", "PayoutReceiver", bound} :
                 \A k \in ContractKeys(c) : live'[k] >= now + MaxLapse
<1>1. PICK a, b, c, d, e, f :
        /\ a = keep_contract_alive("PayoutReceiver")
        /\ b = keep_contract_alive(bound)
        /\ c = keep_contract_alive("PolicyManager")
        /\ d = keep_contract_alive("PolicyNft")
        /\ e = c ++ d
        /\ f = a ++ b ++ e
        /\ Apply(f, {})
  BY DEF PrExtendContractTtl, PmExtendContractTtl
<1> DEFINE Long(g) == IsCall(g) /\ \A k \in DOMAIN g : Reaches(g, k, MaxLapse)
<1>2. ASSUME NEW g, NEW h, Long(g), Long(h)
      PROVE  Long(g ++ h) /\ DOMAIN (g ++ h) = DOMAIN g \cup DOMAIN h
  <2>1. IsCall(g ++ h) /\ DOMAIN (g ++ h) = DOMAIN g \cup DOMAIN h
    BY <1>2, MergedCall
  <2>2. ASSUME NEW k \in DOMAIN g
        PROVE  Reaches(g ++ h, k, MaxLapse)
    BY <1>2, FirstReaches
  <2>3. ASSUME NEW k \in DOMAIN h, k \notin DOMAIN g
        PROVE  Reaches(g ++ h, k, MaxLapse)
    BY <1>2, <2>3, ThenReaches
  <2> QED  BY <2>1, <2>2, <2>3
<1>3. /\ Long(a) /\ DOMAIN a = ContractKeys("PayoutReceiver")
      /\ Long(b) /\ DOMAIN b = ContractKeys(bound)
      /\ Long(c) /\ DOMAIN c = ContractKeys("PolicyManager")
      /\ Long(d) /\ DOMAIN d = ContractKeys("PolicyNft")
  BY <1>1, KeepCall
<1> HIDE DEF Long
<1>4. Long(e) /\ DOMAIN e = DOMAIN c \cup DOMAIN d
  BY <1>1, <1>2, <1>3
<1>5. Long(a ++ b) /\ DOMAIN (a ++ b) = DOMAIN a \cup DOMAIN b
  BY <1>2, <1>3
<1>6. Long(f) /\ DOMAIN f = DOMAIN (a ++ b) \cup DOMAIN e
  BY <1>1, <1>2, <1>4, <1>5
<1>7. Writes(f, {})
  <2>1. IsCall(f)
    BY <1>6 DEF Long
  <2>2. ContractKeys(bound) \subseteq DOMAIN live
    BY DEF AdaptersOK, Deployed
  <2> QED  BY <1>3, <1>4, <1>5, <1>6, <2>1, <2>2 DEF Writes, LooseKeys
<1>8. ASSUME NEW k \in DOMAIN f
      PROVE  live'[k] >= now + MaxLapse
  BY <1>1, <1>6, ApplyReaches, Numbers DEF Long
<1>9. \A x \in {"PolicyManager", "PolicyNft", "PayoutReceiver", bound} : ContractKeys(x) \subseteq DOMAIN f
  BY <1>3, <1>4, <1>5, <1>6
<1> QED  BY <1>1, <1>7, <1>8, <1>9, ApplyWrites

-----------------------------------------------------------------------------
(* What a step between the keeper's leaves of the invariant.               *)

(* The clock and the job do not move.                                      *)
Quiet == UNCHANGED <<now, jobVars>>

(* The job still knows its tasks.                                          *)
LEMMA JobFrame ==
    ASSUME JobOK, Quiet, DOMAIN policies \subseteq DOMAIN policies', DOMAIN debts \subseteq DOMAIN debts'
    PROVE  JobOK'
<1>1. now' = now /\ lastPass' = lastPass /\ stage' = stage /\ began' = began /\ todo' = todo
  BY DEF Quiet, jobVars
<1>2. (stage = "idle" /\ todo = {} /\ began = lastPass)'
      \/ (stage = "policies" /\ todo \subseteq {"policy"} \X DOMAIN policies)'
      \/ (stage = "replaced" /\ todo \subseteq ({"adapter"} \X Adapters) \cup ({"debt"} \X DOMAIN debts))'
  BY <1>1 DEF JobOK
<1> QED  BY <1>1, <1>2 DEF JobOK

(* The keys of one policy.                                                 *)
KeysOf(id) == SaleKeys(id) \cup CertificateKeys(id) \cup SettledKeys(id) \cup DebtKeys(id)

(* Keys are told apart by kind and policy.                                 *)
LEMMA KeysApart ==
    ASSUME NEW id
    PROVE  /\ KeysOf(id) \cap LooseKeys = {}
           /\ \A c : KeysOf(id) \cap ContractKeys(c) = {}
           /\ \A i : i # id => KeysOf(id) \cap KeysOf(i) = {}
<1>1. \A i : \A k \in KeysOf(i) :
        /\ k[1] \in {"Policy", "FarmerPolicyAt", "PendingCounted", "Certificate", "PolicyToToken", "Owner",
                     "PolicyPaid", "Report", "Obligation", "ObligationOf", "OrgObligationAt"}
        /\ k[2] = i
  BY DEF KeysOf, SaleKeys, CertificateKeys, SettledKeys, DebtKeys
<1>2. \A c : \A k \in ContractKeys(c) : k[1] \in {"Instance", "Code"}
  BY DEF ContractKeys
<1>3. \A k \in LooseKeys :
        k[1] \in {"FarmerActiveCount", "FarmerPendingCount", "FarmerPolicyCount", "OrgOutstanding",
                  "FarmerClaimTimes", "DistributorCount", "DistributorPolicy", "OrgObligationCount",
                  "Instance", "Code"}
  BY <1>2 DEF LooseKeys, FarmerAndOrgEntries, SharedKeys, ClaimTimes
<1> QED  BY <1>1, <1>2, <1>3

(* A policy the step does not concern keeps its entries.                   *)
LEMMA EntriesFrame ==
    ASSUME NEW id, EntriesOf(id), NEW new, NEW gone, Adds(new, gone),
           (new \cup gone) \cap KeysOf(id) = {},
           id \in DOMAIN policies' <=> id \in DOMAIN policies,
           id \in DOMAIN policies => policies'[id].status = policies[id].status,
           id \in DOMAIN debts' <=> id \in DOMAIN debts
    PROVE  EntriesOf(id)'
<1>1. \A k \in KeysOf(id) : k \in DOMAIN live' <=> k \in DOMAIN live
  BY KeysApart DEF Adds
<1>2. /\ <<"Policy", id>> \in KeysOf(id) /\ <<"FarmerPolicyAt", id>> \in KeysOf(id)
      /\ <<"PendingCounted", id>> \in KeysOf(id)
      /\ CertificateKeys(id) \subseteq KeysOf(id)
      /\ SettledKeys(id) \cup DebtKeys(id) \subseteq KeysOf(id)
  BY DEF KeysOf, SaleKeys
<1> QED  BY <1>1, <1>2 DEF EntriesOf

(* Deployed adapters stay, and no other is deployed.                       *)
LEMMA AdapterFrame ==
    ASSUME NEW a \in Adapters, NEW new, NEW gone, Adds(new, gone),
           (new \cup gone) \cap ContractKeys(a) = {}
    PROVE  /\ Deployed(a)' <=> Deployed(a)
           /\ ContractKeys(a) \cap DOMAIN live' = ContractKeys(a) \cap DOMAIN live
<1>1. a \notin {"PolicyManager", "PolicyNft", "PayoutReceiver"}
  BY RentAssumption
<1>2. ContractKeys(a) \cap LooseKeys = {}
  <2>1. \A k \in ContractKeys(a) : k[1] \in {"Instance", "Code"} /\ k[2] = a
    BY DEF ContractKeys
  <2>2. \A k \in LooseKeys :
          k[1] \in {"Instance", "Code"} => k[2] \in {"PolicyManager", "PolicyNft", "PayoutReceiver"}
    BY DEF LooseKeys, FarmerAndOrgEntries, SharedKeys, ClaimTimes, ContractKeys
  <2> QED  BY <1>1, <2>1, <2>2
<1>3. \A k \in ContractKeys(a) : k \in DOMAIN live' <=> k \in DOMAIN live
  BY <1>2 DEF Adds
<1> QED  BY <1>3 DEF Deployed

(* Contracts in use stay kept.                                             *)
LEMMA ContractsFrame ==
    ASSUME JobOK, LivesOK, ContractsKept, Grows, Quiet, NEW new, NEW gone, Adds(new, gone),
           \A c : gone \cap ContractKeys(c) = {},
           \A c \in InUse' : \/ c \in InUse /\ (AdapterAwaits(c) => AdapterAwaits(c)')
                             \/ ContractKeys(c) \subseteq new /\ ContractKeys(c) \cap DOMAIN live = {}
    PROVE  ContractsKept'
<1>1. /\ now \in Nat /\ lastPass \in Nat /\ began \in Nat /\ lastPass <= now /\ began <= now
      /\ lastPass' = lastPass /\ began' = began
  BY DEF JobOK, Quiet, jobVars
<1>2. ASSUME NEW c \in InUse', NEW k \in ContractKeys(c)
      PROVE  /\ k \in DOMAIN live' /\ live'[k] >= lastPass + MaxLapse
             /\ AdapterAwaits(c)' \/ live'[k] >= began + MaxLapse
  <2>1. CASE c \in InUse /\ (AdapterAwaits(c) => AdapterAwaits(c)')
    <3>1. k \in DOMAIN live /\ Kept(k, lastPass) /\ (AdapterAwaits(c) \/ Kept(k, began))
      BY <2>1 DEF ContractsKept
    <3>2. k \in DOMAIN live'
      BY <3>1 DEF Adds
    <3> QED  BY <1>1, <2>1, <3>1, <3>2, StaysKept
  <2>2. CASE ContractKeys(c) \subseteq new /\ ContractKeys(c) \cap DOMAIN live = {}
    <3>1. k \in DOMAIN live' /\ k \notin DOMAIN live
      BY <2>2 DEF Adds
    <3> QED  BY <1>1, <3>1, StaysKept
  <2> QED  BY <2>1, <2>2
<1> QED  BY <1>1, <1>2 DEF ContractsKept, Kept

(* Open debts stay kept.                                                   *)
LEMMA DebtsFrame ==
    ASSUME JobOK, LivesOK, DebtsKept, Grows, Quiet, NEW new, NEW gone, Adds(new, gone),
           \A id \in OpenDebts' :
              \/ /\ id \in OpenDebts /\ EntriesOfDebt(id)' = EntriesOfDebt(id)
                 /\ EntriesOfDebt(id) \cap gone = {}
                 /\ DebtAwaits(id) => DebtAwaits(id)'
              \/ \A k \in EntriesOfDebt(id)' : k \in DOMAIN live' /\ live'[k] >= now + MaxLapse
    PROVE  DebtsKept'
<1>1. /\ now \in Nat /\ lastPass \in Nat /\ began \in Nat /\ lastPass <= now /\ began <= now
      /\ lastPass' = lastPass /\ began' = began
  BY DEF JobOK, Quiet, jobVars
<1>2. ASSUME NEW id \in OpenDebts', NEW k \in EntriesOfDebt(id)'
      PROVE  /\ k \in DOMAIN live' /\ live'[k] >= lastPass + MaxLapse
             /\ DebtAwaits(id)' \/ live'[k] >= began + MaxLapse
  <2>1. CASE /\ id \in OpenDebts /\ EntriesOfDebt(id)' = EntriesOfDebt(id)
             /\ EntriesOfDebt(id) \cap gone = {}
             /\ DebtAwaits(id) => DebtAwaits(id)'
    <3>1. k \in DOMAIN live /\ Kept(k, lastPass) /\ (DebtAwaits(id) \/ Kept(k, began))
      BY <2>1 DEF DebtsKept
    <3>2. k \in DOMAIN live'
      BY <2>1, <3>1 DEF Adds
    <3> QED  BY <1>1, <2>1, <3>1, <3>2, StaysKept
  <2>2. CASE k \in DOMAIN live' /\ live'[k] >= now + MaxLapse
    <3>1. live'[k] \in Int
      BY <2>2, Numbers DEF Grows
    <3> QED  BY <1>1, <2>2, <3>1, Numbers
  <2> QED  BY <2>1, <2>2
<1> QED  BY <1>1, <1>2 DEF DebtsKept, Kept

(* The entries of open policies stay kept.                                 *)
LEMMA OwnFrame ==
    ASSUME JobOK, LivesOK, RecordsOK, EntriesOK, OwnKept, Grows, Quiet, RecordsOK',
           \A id \in OpenPolicies' : \A k \in Existing(OwnEntries(id))' :
              \/ k \notin DOMAIN live
              \/ id \in OpenPolicies /\ policies'[id].end = policies[id].end
              \/ live'[k] >= now + MaxLapse \/ live'[k] >= Needed(id)'
    PROVE  OwnKept'
<1>1. /\ now \in Nat /\ lastPass \in Nat /\ began \in Nat /\ lastPass <= now /\ began <= now
      /\ lastPass' = lastPass /\ began' = began /\ todo' = todo
  BY DEF JobOK, Quiet, jobVars
<1>2. ASSUME NEW id \in OpenPolicies', NEW k \in Existing(OwnEntries(id))'
      PROVE  /\ live'[k] >= lastPass + MaxLapse \/ live'[k] >= Needed(id)'
             /\ <<"policy", id>> \in todo \/ live'[k] >= began + MaxLapse \/ live'[k] >= Needed(id)'
  <2>1. k \in DOMAIN live' /\ k \in OwnEntries(id) /\ live'[k] \in Int
    BY Numbers DEF Existing, Grows
  <2>2. CASE k \notin DOMAIN live \/ live'[k] >= now + MaxLapse
    BY <1>1, <2>1, <2>2, Numbers DEF Grows
  <2>3. CASE live'[k] >= Needed(id)'
    BY <2>3
  <2>4. CASE k \in DOMAIN live /\ id \in OpenPolicies /\ policies'[id].end = policies[id].end
    <3>1. policies[id].end \in Nat
      BY <2>4, KnownPolicy DEF PolicyOK, PolicyRecords, OpenPolicies
    <3>2. PICK n \in Int : n = Needed(id) /\ n = Needed(id)'
      BY <2>4, <3>1, Numbers DEF Needed
    <3>3. /\ Kept(k, lastPass) \/ live[k] >= n
          /\ <<"policy", id>> \in todo \/ Kept(k, began) \/ live[k] >= n
      BY <2>1, <2>4, <3>2 DEF OwnKept, Suffices, Needed, Existing
    <3>4. live'[k] >= lastPass + MaxLapse \/ live'[k] >= n
      BY <1>1, <2>1, <3>3, StaysLong
    <3>5. <<"policy", id>> \in todo \/ live'[k] >= began + MaxLapse \/ live'[k] >= n
      BY <1>1, <2>1, <3>3, StaysLong
    <3> QED  BY <3>2, <3>4, <3>5
  <2> QED  BY <2>2, <2>3, <2>4
<1> QED  BY <1>1, <1>2 DEF OwnKept, Kept, Suffices, Needed

(* So do those of the farmer and the org.                                  *)
LEMMA SharedFrame ==
    ASSUME JobOK, LivesOK, SharedKept, Grows, Quiet,
           \A id \in OpenPolicies' :
              \/ id \in OpenPolicies /\ policies'[id].sold = policies[id].sold
              \/ policies'[id].sold = now
    PROVE  SharedKept'
<1>1. /\ now \in Nat /\ lastPass \in Nat /\ began \in Nat /\ lastPass <= now /\ began <= now
      /\ lastPass' = lastPass /\ began' = began /\ todo' = todo
  BY DEF JobOK, Quiet, jobVars
<1>2. ASSUME NEW id \in OpenPolicies', NEW k \in Existing(FarmerAndOrgEntries)'
      PROVE  /\ policies'[id].sold < lastPass => live'[k] >= lastPass + MaxLapse
             /\ policies'[id].sold < began => <<"policy", id>> \in todo \/ live'[k] >= began + MaxLapse
  <2>1. k \in DOMAIN live' /\ k \in FarmerAndOrgEntries
    BY DEF Existing
  <2>2. CASE policies'[id].sold = now
    BY <1>1, <2>2
  <2>3. CASE id \in OpenPolicies /\ policies'[id].sold = policies[id].sold
    <3>1. k \in DOMAIN live => /\ policies[id].sold < lastPass => Kept(k, lastPass)
                               /\ policies[id].sold < began => <<"policy", id>> \in todo \/ Kept(k, began)
      BY <2>1, <2>3 DEF SharedKept, Existing
    <3>2. policies[id].sold < lastPass => live'[k] >= lastPass + MaxLapse
      BY <1>1, <2>1, <3>1, StaysKept
    <3>3. policies[id].sold < began /\ <<"policy", id>> \notin todo => live'[k] >= began + MaxLapse
      BY <1>1, <2>1, <3>1, StaysKept
    <3> QED  BY <2>3, <3>2, <3>3
  <2> QED  BY <2>2, <2>3
<1> QED  BY <1>1, <1>2 DEF SharedKept, Kept

-----------------------------------------------------------------------------
(* Every step preserves the invariant.                                     *)

(* Every life stays within the network's maximum.                          *)
LEMMA LivesFrame ==
    ASSUME Grows
    PROVE  LivesOK'
BY DEF Grows, LivesOK

(* One record of a policy is replaced.                                     *)
LEMMA Updated ==
    ASSUME RecordsOK, NEW id \in DOMAIN policies, NEW p \in PolicyRecords,
           policies' = [policies EXCEPT ![id] = p]
    PROVE  /\ policies' \in Seq(PolicyRecords) /\ Len(policies') = Len(policies)
           /\ DOMAIN policies' = DOMAIN policies /\ policies'[id] = p
           /\ \A i \in DOMAIN policies : i # id => policies'[i] = policies[i]
<1>1. policies \in Seq(PolicyRecords) /\ DOMAIN policies = 1 .. Len(policies)
  BY DEF RecordsOK
<1>2. policies' \in Seq(PolicyRecords) /\ Len(policies') = Len(policies)
  BY <1>1, ExceptSeq
<1> QED  BY <1>1, <1>2

(* The records stay well formed.                                           *)
LEMMA RecordsFrame ==
    ASSUME RecordsOK, Quiet, bound' = bound, NEW id \in DOMAIN policies, NEW p, PolicyOK(p),
           policies' = [policies EXCEPT ![id] = p],
           \A i \in DOMAIN debts' :
              /\ i \in DOMAIN policies'
              /\ policies'[i].status = "Claimed"
              /\ debts'[i] \in DebtRecords
    PROVE  RecordsOK'
<1>1. p \in PolicyRecords /\ now' = now
  BY DEF PolicyOK, Quiet
<1>2. /\ policies' \in Seq(PolicyRecords) /\ Len(policies') = Len(policies)
      /\ DOMAIN policies' = DOMAIN policies /\ policies'[id] = p
      /\ \A i \in DOMAIN policies : i # id => policies'[i] = policies[i]
  BY <1>1, Updated
<1>3. ASSUME NEW i \in DOMAIN policies'
      PROVE  PolicyOK(policies[i])'
  <2>1. PolicyOK(policies'[i])
    BY <1>2 DEF RecordsOK
  <2> QED  BY <1>1, <2>1 DEF PolicyOK
<1> QED  BY <1>2, <1>3 DEF RecordsOK

(* The step concerns the entries of one policy: adapters stay.             *)
LEMMA AdaptersStep ==
    ASSUME RecordsOK, AdaptersOK, bound' = bound, NEW id, NEW new, NEW gone, Adds(new, gone),
           new \cup gone \subseteq KeysOf(id),
           \A i \in DOMAIN debts' :
              \/ debts'[i].adapter = bound
              \/ i \in DOMAIN debts /\ debts'[i].adapter = debts[i].adapter
    PROVE  AdaptersOK'
<1>1. ASSUME NEW a \in Adapters
      PROVE  /\ Deployed(a)' <=> Deployed(a)
             /\ ContractKeys(a) \cap DOMAIN live' = ContractKeys(a) \cap DOMAIN live
  <2>1. (new \cup gone) \cap ContractKeys(a) = {}
    BY KeysApart
  <2> QED  BY <2>1, AdapterFrame
<1>2. bound \in Adapters /\ \A i \in DOMAIN debts : debts[i].adapter \in Adapters
  BY DEF RecordsOK, DebtRecords
<1>3. \A i \in DOMAIN debts' : debts'[i].adapter \in Adapters /\ Deployed(debts'[i].adapter)
  BY <1>2 DEF AdaptersOK
<1>4. \A i \in DOMAIN debts' : Deployed(debts[i].adapter)'
  <2> TAKE i \in DOMAIN debts'
  <2>1. PICK a \in Adapters : a = debts'[i].adapter /\ Deployed(a)
    BY <1>3
  <2>2. Deployed(a)'
    BY <1>1, <2>1
  <2> QED  BY <2>1, <2>2 DEF Deployed
<1>5. Deployed(bound)'
  BY <1>1, <1>2 DEF AdaptersOK, Deployed
<1>6. \A a \in Adapters : Deployed(a)' \/ ContractKeys(a) \cap DOMAIN live' = {}
  BY <1>1 DEF AdaptersOK
<1> QED  BY <1>4, <1>5, <1>6 DEF AdaptersOK

(* So do the adapters the job is to call.                                  *)
LEMMA TasksStep ==
    ASSUME TasksOK, todo' \subseteq todo,
           NEW id, NEW new, NEW gone, Adds(new, gone), gone \subseteq KeysOf(id)
    PROVE  TasksOK'
<1>1. \A c : ContractKeys(c) \subseteq DOMAIN live => ContractKeys(c) \subseteq DOMAIN live'
  BY KeysApart DEF Adds
<1> QED  BY <1>1 DEF TasksOK, Deployed

(* So do the contracts in use.                                             *)
LEMMA ContractsStep ==
    ASSUME JobOK, LivesOK, ContractsKept, Grows, Quiet, bound' = bound,
           NEW id, NEW new, NEW gone, Adds(new, gone), gone \subseteq KeysOf(id),
           ReplacedAdapters' \subseteq ReplacedAdapters
    PROVE  ContractsKept'
<1>1. InUse' \subseteq InUse
  BY DEF InUse
<1>2. \A c : AdapterAwaits(c) => AdapterAwaits(c)'
  BY DEF AdapterAwaits, Quiet, jobVars
<1>3. \A c : gone \cap ContractKeys(c) = {}
  BY KeysApart
<1> QED  BY <1>1, <1>2, <1>3, ContractsFrame

(* So do the debts, where none is recorded or paid.                        *)
LEMMA DebtsStep ==
    ASSUME JobOK, LivesOK, DebtsKept, Grows, Quiet, bound' = bound, debts' = debts,
           NEW id, NEW new, NEW gone, Adds(new, gone), gone \subseteq SaleKeys(id)
    PROVE  DebtsKept'
<1>1. OpenDebts' = OpenDebts
  BY DEF OpenDebts
<1>2. \A i \in OpenDebts : EntriesOfDebt(i)' = EntriesOfDebt(i) /\ (DebtAwaits(i) => DebtAwaits(i)')
  BY DEF EntriesOfDebt, DebtAwaits, Quiet, jobVars
<1>3. \A i : EntriesOfDebt(i) \cap SaleKeys(id) = {}
  BY DebtKeysAre DEF EntriesOfDebt, SaleKeys
<1> QED  BY <1>1, <1>2, <1>3, DebtsFrame

(* A sale does.                                                            *)
LEMMA CreateStep ==
    ASSUME RentInv, NEW d \in Durations, create_policy(d)
    PROVE  RentInv'
<1> USE DEF RentInv
<1>1. now \in Nat /\ now \in 0 .. MaxNow
  BY Numbers DEF JobOK
<1>2. PICK id \in Nat : id = Len(policies) + 1
  BY DEF RecordsOK
<1>3. PICK p : /\ p = [status |-> "Pending", sold |-> now, start |-> now, end |-> now + d]
               /\ policies' = Append(policies, p)
  BY DEF create_policy
<1>4. Quiet /\ debts' = debts /\ bound' = bound
  BY DEF create_policy, Quiet
<1>5. Grows /\ Adds(SaleKeys(id), {})
  BY <1>1, <1>2, CreateEffect
<1>6. p \in PolicyRecords /\ p.status = "Pending" /\ p.sold = now
      /\ p.start = now /\ p.start <= p.end
  BY <1>1, <1>3, RentAssumption DEF PolicyRecords
<1>7. /\ policies' \in Seq(PolicyRecords) /\ Len(policies') = id /\ DOMAIN policies' = 1 .. id
      /\ \A i \in DOMAIN policies : policies'[i] = policies[i]
      /\ policies'[id] = p /\ DOMAIN policies = 1 .. id - 1
  BY <1>2, <1>3, <1>6, AppendProperties DEF RecordsOK
<1>8. DOMAIN policies' = DOMAIN policies \cup {id} /\ id \notin DOMAIN policies /\ id \notin DOMAIN debts
  BY <1>2, <1>7 DEF RecordsOK
<1>9. JobOK'
  BY <1>4, <1>8, JobFrame
<1>10. RecordsOK'
  <2>1. ASSUME NEW i \in DOMAIN policies'
        PROVE  PolicyOK(policies[i])'
    <3>1. now' = now
      BY <1>4 DEF Quiet
    <3> QED  BY <1>1, <1>6, <1>7, <1>8, <3>1 DEF RecordsOK, PolicyOK
  <2>2. \A i \in DOMAIN debts' : /\ i \in DOMAIN policies' /\ policies'[i].status = "Claimed"
                                 /\ debts'[i] \in DebtRecords
    BY <1>4, <1>7, <1>8 DEF RecordsOK
  <2> QED  BY <1>4, <1>7, <2>1, <2>2 DEF RecordsOK
<1>11. EntriesOK'
  <2>1. ASSUME NEW i \in Nat, i # id
        PROVE  EntriesOf(i)'
    <3>1. (SaleKeys(id) \cup {}) \cap KeysOf(i) = {}
      BY <2>1, KeysApart DEF KeysOf
    <3>2. EntriesOf(i)
      BY DEF EntriesOK
    <3> QED  BY <1>4, <1>5, <1>7, <1>8, <2>1, <3>1, <3>2, EntriesFrame
  <2>2. EntriesOf(id)'
    <3>1. EntriesOf(id)
      BY DEF EntriesOK
    <3>2. \A k \in KeysOf(id) : k \in DOMAIN live' <=> k \in DOMAIN live \cup SaleKeys(id)
      BY <1>5, KeysApart DEF Adds
    <3>3. \A k \in CertificateKeys(id) \cup SettledKeys(id) \cup DebtKeys(id) :
             k \in KeysOf(id) /\ k \notin SaleKeys(id)
      BY DebtKeysAre DEF KeysOf, SaleKeys
    <3>4. SaleKeys(id) \subseteq DOMAIN live'
      BY <1>5 DEF Adds
    <3> QED  BY <1>4, <1>6, <1>7, <1>8, <3>1, <3>2, <3>3, <3>4 DEF EntriesOf, SaleKeys
  <2> QED  BY <2>1, <2>2 DEF EntriesOK
<1>12. AdaptersOK'
  <2>1. SaleKeys(id) \cup {} \subseteq KeysOf(id)
    BY DEF KeysOf
  <2> QED  BY <1>4, <1>5, <2>1, AdaptersStep
<1>13. ContractsKept'
  <2>1. ReplacedAdapters' \subseteq ReplacedAdapters
    BY <1>4 DEF ReplacedAdapters, OpenDebts
  <2> QED  BY <1>4, <1>5, <2>1, ContractsStep
<1>14. DebtsKept'
  BY <1>4, <1>5, DebtsStep
<1>15. OwnKept'
  <2>1. ASSUME NEW i \in OpenPolicies', NEW k \in Existing(OwnEntries(i))'
        PROVE  \/ k \notin DOMAIN live
               \/ i \in OpenPolicies /\ policies'[i].end = policies[i].end
    <3>1. CASE i # id
      BY <1>7, <1>8, <3>1 DEF OpenPolicies
    <3>2. CASE i = id
      <4>1. EntriesOf(id)
        BY DEF EntriesOK
      <4>2. \/ k \in {<<"Policy", id>>, <<"PendingCounted", id>>}
            \/ k \in CertificateKeys(id) \/ k \in SettledKeys(id)
        BY <3>2, Pairs DEF OwnEntries, Existing
      <4>3. /\ <<"Policy", id>> \notin DOMAIN live /\ <<"PendingCounted", id>> \notin DOMAIN live
            /\ \A x \in CertificateKeys(id) : x \notin DOMAIN live
            /\ \A x \in SettledKeys(id) : x \notin DOMAIN live
        BY <1>8, <4>1 DEF EntriesOf
      <4> QED  BY <4>2, <4>3
    <3> QED  BY <3>1, <3>2
  <2> QED  BY <1>4, <1>5, <1>10, <2>1, OwnFrame
<1>16. SharedKept'
  <2>1. \A i \in OpenPolicies' : \/ i \in OpenPolicies /\ policies'[i].sold = policies[i].sold
                                \/ policies'[i].sold = now
    BY <1>6, <1>7, <1>8 DEF OpenPolicies
  <2> QED  BY <1>4, <1>5, <2>1, SharedFrame
<1>17. TasksOK'
  BY <1>4, <1>5, TasksStep DEF Quiet, jobVars
<1> QED  BY <1>17, <1>5, <1>9, <1>10, <1>11, <1>12, <1>13, <1>14, <1>15, <1>16, LivesFrame

(* An activation does: it moves the end of the cover, but extends the      *)
(* policy to it, and the certificate's entries are new.                    *)
LEMMA ActivateStep ==
    ASSUME RentInv, NEW id \in DOMAIN policies, activate_policy(id)
    PROVE  RentInv'
<1> USE DEF RentInv
<1>1. now \in Nat /\ now \in 0 .. MaxNow
  BY Numbers DEF JobOK
<1>2. id \in Nat /\ PolicyOK(policies[id]) /\ EntriesOf(id)
  BY KnownPolicy
<1>3. PICK p : /\ p = [policies[id] EXCEPT !.status = "Active", !.start = now,
                                          !.end = now + (policies[id].end - policies[id].start)]
               /\ policies' = [policies EXCEPT ![id] = p]
               /\ policies[id].status = "Pending"
  BY DEF activate_policy
<1>4. Quiet /\ debts' = debts /\ bound' = bound
  BY DEF activate_policy, Quiet
<1>5. PICK G : G = {<<"PendingCounted", id>>}
  OBVIOUS
<1>6. /\ Grows /\ Adds(CertificateKeys(id), G)
      /\ \/ live'[<<"Policy", id>>] >= now + MaxLapse
         \/ live'[<<"Policy", id>>] >= Needed(id)'
  BY <1>1, <1>5, ActivateEffect DEF Needed
<1>7. PolicyOK(p) /\ p.status = "Active" /\ p.sold = policies[id].sold
  <2>1. PICK r \in PolicyRecords : r = policies[id] /\ r.start <= r.end /\ r.start <= now
    BY <1>2 DEF PolicyOK
  <2>2. PICK e \in Nat : e = now + (r.end - r.start) /\ e >= now
    BY <1>1, <2>1 DEF PolicyRecords
  <2>3. p = [r EXCEPT !.status = "Active", !.start = now, !.end = e]
    BY <1>3, <2>1, <2>2
  <2>4. p \in PolicyRecords /\ p.status = "Active" /\ p.sold = r.sold /\ p.start = now /\ p.end = e
    BY <1>1, <2>3 DEF PolicyRecords
  <2> QED  BY <1>1, <2>1, <2>2, <2>4 DEF PolicyOK
<1>8. /\ policies' \in Seq(PolicyRecords) /\ Len(policies') = Len(policies)
      /\ DOMAIN policies' = DOMAIN policies /\ policies'[id] = p
      /\ \A i \in DOMAIN policies : i # id => policies'[i] = policies[i]
  BY <1>3, <1>7, Updated DEF PolicyOK
<1>9. id \notin DOMAIN debts
  BY <1>3 DEF RecordsOK
<1>10. CertificateKeys(id) \subseteq KeysOf(id) /\ G \subseteq KeysOf(id) /\ G \subseteq SaleKeys(id)
  BY <1>5 DEF KeysOf, SaleKeys
<1>11. JobOK'
  BY <1>4, <1>8, JobFrame
<1>12. RecordsOK'
  <2>1. \A i \in DOMAIN debts' : /\ i \in DOMAIN policies'
                                 /\ policies'[i].status = "Claimed"
                                 /\ debts'[i] \in DebtRecords
    BY <1>4, <1>8, <1>9 DEF RecordsOK
  <2> QED  BY <1>3, <1>4, <1>7, <2>1, RecordsFrame
<1>13. EntriesOK'
  <2>1. ASSUME NEW i \in Nat, i # id
        PROVE  EntriesOf(i)'
    <3>1. (CertificateKeys(id) \cup G) \cap KeysOf(i) = {}
      BY <1>10, <2>1, KeysApart
    <3>2. EntriesOf(i)
      BY DEF EntriesOK
    <3> QED  BY <1>4, <1>6, <1>8, <2>1, <3>1, <3>2, EntriesFrame
  <2>2. EntriesOf(id)'
    <3>1. \A k \in KeysOf(id) : k \in DOMAIN live' <=>
             (k \in DOMAIN live \/ k \in CertificateKeys(id)) /\ k # <<"PendingCounted", id>>
      BY <1>5, <1>6, <1>10, KeysApart DEF Adds
    <3>2. /\ <<"Policy", id>> \in KeysOf(id) /\ <<"FarmerPolicyAt", id>> \in KeysOf(id)
          /\ <<"PendingCounted", id>> \in KeysOf(id)
          /\ \A k \in CertificateKeys(id) : k \in KeysOf(id) /\ k # <<"PendingCounted", id>>
          /\ \A k \in SettledKeys(id) \cup DebtKeys(id) :
                k \in KeysOf(id) /\ k # <<"PendingCounted", id>> /\ k \notin CertificateKeys(id)
      BY DebtKeysAre DEF KeysOf, SaleKeys
    <3>3. <<"Policy", id>> # <<"PendingCounted", id>> /\ <<"FarmerPolicyAt", id>> # <<"PendingCounted", id>>
      OBVIOUS
    <3> QED  BY <1>2, <1>3, <1>4, <1>7, <1>8, <1>9, <3>1, <3>2, <3>3 DEF EntriesOf
  <2> QED  BY <2>1, <2>2 DEF EntriesOK
<1>14. AdaptersOK'
  <2>1. CertificateKeys(id) \cup G \subseteq KeysOf(id)
    BY <1>10
  <2> QED  BY <1>4, <1>6, <2>1, AdaptersStep
<1>15. ContractsKept'
  <2>1. ReplacedAdapters' \subseteq ReplacedAdapters
    BY <1>4 DEF ReplacedAdapters, OpenDebts
  <2> QED  BY <1>4, <1>6, <1>10, <2>1, ContractsStep
<1>16. DebtsKept'
  BY <1>4, <1>6, <1>10, DebtsStep
<1>17. OwnKept'
  <2>1. ASSUME NEW i \in OpenPolicies', NEW k \in Existing(OwnEntries(i))'
        PROVE  \/ k \notin DOMAIN live
               \/ i \in OpenPolicies /\ policies'[i].end = policies[i].end
               \/ live'[k] >= now + MaxLapse \/ live'[k] >= Needed(i)'
    <3>1. CASE i # id
      BY <1>8, <3>1 DEF OpenPolicies
    <3>2. CASE i = id
      <4>1. \/ k \in {<<"Policy", id>>, <<"PendingCounted", id>>}
            \/ k \in CertificateKeys(id) \/ k \in SettledKeys(id)
        BY <3>2, Pairs DEF OwnEntries, Existing
      <4>2. k # <<"PendingCounted", id>>
        BY <1>5, <1>6 DEF Adds, Existing
      <4>3. /\ \A x \in CertificateKeys(id) : x \notin DOMAIN live
            /\ \A x \in SettledKeys(id) : x \notin DOMAIN live
        BY <1>2, <1>3, <1>9 DEF EntriesOf
      <4> QED  BY <1>6, <3>2, <4>1, <4>2, <4>3
    <3> QED  BY <3>1, <3>2
  <2> QED  BY <1>4, <1>6, <1>12, <2>1, OwnFrame
<1>18. SharedKept'
  <2>1. \A i \in OpenPolicies' : i \in OpenPolicies /\ policies'[i].sold = policies[i].sold
    BY <1>3, <1>7, <1>8 DEF OpenPolicies
  <2> QED  BY <1>4, <1>6, <2>1, SharedFrame
<1>19. TasksOK'
  BY <1>4, <1>6, <1>10, TasksStep DEF Quiet, jobVars
<1> QED  BY <1>19, <1>6, <1>11, <1>12, <1>13, <1>14, <1>15, <1>16, <1>17, <1>18, LivesFrame

(* Closing a policy does.                                                  *)
LEMMA CloseStep ==
    ASSUME RentInv, NEW id \in DOMAIN policies, NEW st \in {"Cancelled", "Expired"}, ClosePolicy(id, st)
    PROVE  RentInv'
<1> USE DEF RentInv
<1>1. now \in Nat /\ now \in 0 .. MaxNow
  BY Numbers DEF JobOK
<1>2. id \in Nat /\ PolicyOK(policies[id]) /\ EntriesOf(id)
  BY KnownPolicy
<1>3. PICK p : /\ p = [policies[id] EXCEPT !.status = st]
               /\ policies' = [policies EXCEPT ![id] = p]
               /\ policies[id].status \in {"Pending", "Active"}
  BY DEF ClosePolicy
<1>4. Quiet /\ debts' = debts /\ bound' = bound
  BY DEF ClosePolicy, Quiet
<1>5. PICK G : G = IF policies[id].status = "Active" THEN {} ELSE {<<"PendingCounted", id>>}
  OBVIOUS
<1>6. Grows /\ Adds({}, G)
  BY <1>1, <1>5, CloseEffect
<1>7. PolicyOK(p) /\ p.status = st
  BY <1>2, <1>3 DEF PolicyOK, PolicyRecords
<1>8. /\ policies' \in Seq(PolicyRecords) /\ Len(policies') = Len(policies)
      /\ DOMAIN policies' = DOMAIN policies /\ policies'[id] = p
      /\ \A i \in DOMAIN policies : i # id => policies'[i] = policies[i]
  BY <1>3, <1>7, Updated DEF PolicyOK
<1>9. id \notin DOMAIN debts
  BY <1>3 DEF RecordsOK
<1>10. G \subseteq KeysOf(id) /\ G \subseteq SaleKeys(id)
  BY <1>5 DEF KeysOf, SaleKeys
<1>11. JobOK'
  BY <1>4, <1>8, JobFrame
<1>12. RecordsOK'
  <2>1. \A i \in DOMAIN debts' : /\ i \in DOMAIN policies'
                                 /\ policies'[i].status = "Claimed"
                                 /\ debts'[i] \in DebtRecords
    BY <1>4, <1>8, <1>9 DEF RecordsOK
  <2> QED  BY <1>3, <1>4, <1>7, <2>1, RecordsFrame
<1>13. EntriesOK'
  <2>1. ASSUME NEW i \in Nat, i # id
        PROVE  EntriesOf(i)'
    <3>1. ({} \cup G) \cap KeysOf(i) = {}
      BY <1>10, <2>1, KeysApart
    <3>2. EntriesOf(i)
      BY DEF EntriesOK
    <3> QED  BY <1>4, <1>6, <1>8, <2>1, <3>1, <3>2, EntriesFrame
  <2>2. EntriesOf(id)'
    <3>1. \A k \in KeysOf(id) : k # <<"PendingCounted", id>> => (k \in DOMAIN live' <=> k \in DOMAIN live)
      BY <1>5, <1>6, KeysApart DEF Adds
    <3>2. /\ <<"Policy", id>> \in KeysOf(id) /\ <<"FarmerPolicyAt", id>> \in KeysOf(id)
          /\ \A k \in CertificateKeys(id) \cup SettledKeys(id) \cup DebtKeys(id) :
                k \in KeysOf(id) /\ k # <<"PendingCounted", id>>
      BY DebtKeysAre DEF KeysOf, SaleKeys
    <3>3. <<"Policy", id>> # <<"PendingCounted", id>> /\ <<"FarmerPolicyAt", id>> # <<"PendingCounted", id>>
      OBVIOUS
    <3>4. <<"PendingCounted", id>> \notin DOMAIN live'
      <4>1. CASE policies[id].status = "Active"
        <5>1. <<"PendingCounted", id>> \notin DOMAIN live
          BY <1>2, <4>1 DEF EntriesOf
        <5>2. <<"PendingCounted", id>> \notin LooseKeys
          BY KeysApart DEF KeysOf, SaleKeys
        <5> QED  BY <1>6, <5>1, <5>2 DEF Adds
      <4>2. CASE policies[id].status # "Active"
        BY <1>5, <1>6, <4>2 DEF Adds
      <4> QED  BY <4>1, <4>2
    <3> QED  BY <1>2, <1>4, <1>7, <1>8, <1>9, <3>1, <3>2, <3>3, <3>4 DEF EntriesOf
  <2> QED  BY <2>1, <2>2 DEF EntriesOK
<1>14. AdaptersOK'
  <2>1. {} \cup G \subseteq KeysOf(id)
    BY <1>10
  <2> QED  BY <1>4, <1>6, <2>1, AdaptersStep
<1>15. ContractsKept'
  <2>1. ReplacedAdapters' \subseteq ReplacedAdapters
    BY <1>4 DEF ReplacedAdapters, OpenDebts
  <2> QED  BY <1>4, <1>6, <1>10, <2>1, ContractsStep
<1>16. DebtsKept'
  BY <1>4, <1>6, <1>10, DebtsStep
<1>17. \A i \in OpenPolicies' : i \in OpenPolicies /\ policies'[i] = policies[i]
  BY <1>7, <1>8 DEF OpenPolicies
<1>18. OwnKept'
  BY <1>4, <1>6, <1>12, <1>17, OwnFrame
<1>19. SharedKept'
  BY <1>4, <1>6, <1>17, SharedFrame
<1>20. TasksOK'
  BY <1>4, <1>6, <1>10, TasksStep DEF Quiet, jobVars
<1> QED  BY <1>20, <1>6, <1>11, <1>12, <1>13, <1>14, <1>15, <1>16, <1>18, <1>19, LivesFrame

(* A claim does: the debt's entries are new, and the org's count, which    *)
(* may have been left to archive with debts that were paid, is extended.   *)
LEMMA SettleStep ==
    ASSUME RentInv, NEW id \in DOMAIN policies, settle_verified(id)
    PROVE  RentInv'
<1> USE DEF RentInv
<1>1. now \in Nat /\ now \in 0 .. MaxNow
  BY Numbers DEF JobOK
<1>2. id \in Nat /\ PolicyOK(policies[id]) /\ EntriesOf(id)
  BY KnownPolicy
<1>3. PICK p : /\ p = [policies[id] EXCEPT !.status = "Claimed"]
               /\ policies' = [policies EXCEPT ![id] = p]
               /\ policies[id].status = "Active"
  BY DEF settle_verified
<1>4. Quiet /\ bound' = bound
  BY DEF settle_verified, Quiet
<1>5. PICK N : N = SettledKeys(id) \cup DebtKeys(id)
  OBVIOUS
<1>6. /\ Grows /\ Adds(N, {})
      /\ <<"OrgObligationCount", bound>> \in DOMAIN live'
      /\ live'[<<"OrgObligationCount", bound>>] >= now + MaxLapse
  BY <1>1, <1>5, SettleEffect
<1>7. PolicyOK(p) /\ p.status = "Claimed"
  BY <1>2, <1>3 DEF PolicyOK, PolicyRecords
<1>8. /\ policies' \in Seq(PolicyRecords) /\ Len(policies') = Len(policies)
      /\ DOMAIN policies' = DOMAIN policies /\ policies'[id] = p
      /\ \A i \in DOMAIN policies : i # id => policies'[i] = policies[i]
  BY <1>3, <1>7, Updated DEF PolicyOK
<1>9. id \notin DOMAIN debts /\ bound \in Adapters
  BY <1>3 DEF RecordsOK
<1>10. /\ DOMAIN debts' = DOMAIN debts \cup {id}
       /\ \A i \in DOMAIN debts : debts'[i] = debts[i]
       /\ debts'[id] = [adapter |-> bound, status |-> "Owed"]
  BY <1>9 DEF settle_verified, ++
<1>11. JobOK'
  BY <1>4, <1>8, <1>10, JobFrame
<1>12. RecordsOK'
  <2>1. \A i \in DOMAIN debts' : /\ i \in DOMAIN policies'
                                 /\ policies'[i].status = "Claimed"
                                 /\ debts'[i] \in DebtRecords
    BY <1>7, <1>8, <1>9, <1>10 DEF RecordsOK, DebtRecords
  <2> QED  BY <1>3, <1>4, <1>7, <2>1, RecordsFrame
<1>13. EntriesOK'
  <2>1. ASSUME NEW i \in Nat, i # id
        PROVE  EntriesOf(i)'
    <3>1. (N \cup {}) \cap KeysOf(i) = {}
      BY <1>5, <2>1, KeysApart DEF KeysOf
    <3>2. EntriesOf(i)
      BY DEF EntriesOK
    <3> QED  BY <1>6, <1>8, <1>10, <2>1, <3>1, <3>2, EntriesFrame
  <2>2. EntriesOf(id)'
    <3>1. \A k \in KeysOf(id) : k \in DOMAIN live' <=> k \in DOMAIN live \/ k \in N
      BY <1>6, KeysApart DEF Adds
    <3>2. /\ <<"Policy", id>> \in KeysOf(id) \ N /\ <<"FarmerPolicyAt", id>> \in KeysOf(id) \ N
          /\ <<"PendingCounted", id>> \in KeysOf(id) \ N
          /\ CertificateKeys(id) \subseteq KeysOf(id) \ N
          /\ SettledKeys(id) \cup DebtKeys(id) \subseteq KeysOf(id)
      BY <1>5, DebtKeysAre DEF KeysOf, SaleKeys
    <3> QED  BY <1>2, <1>3, <1>5, <1>7, <1>8, <1>10, <3>1, <3>2 DEF EntriesOf
  <2> QED  BY <2>1, <2>2 DEF EntriesOK
<1>14. AdaptersOK'
  <2>1. N \cup {} \subseteq KeysOf(id)
    BY <1>5 DEF KeysOf
  <2> QED  BY <1>4, <1>6, <1>10, <2>1, AdaptersStep
<1>15. OpenDebts' = OpenDebts \cup {id}
  BY <1>9, <1>10 DEF OpenDebts
<1>16. ContractsKept'
  <2>1. ReplacedAdapters' \subseteq ReplacedAdapters
    BY <1>4, <1>10, <1>15 DEF ReplacedAdapters, OpenDebts
  <2> QED  BY <1>4, <1>6, <2>1, ContractsStep
<1>17. DebtsKept'
  <2>1. ASSUME NEW i \in OpenDebts
        PROVE  /\ EntriesOfDebt(i)' = EntriesOfDebt(i)
               /\ DebtAwaits(i) => DebtAwaits(i)'
    BY <1>4, <1>10 DEF EntriesOfDebt, DebtAwaits, Quiet, jobVars, OpenDebts
  <2>2. ASSUME NEW k \in EntriesOfDebt(id)'
        PROVE  k \in DOMAIN live' /\ live'[k] >= now + MaxLapse
    <3>1. CASE k = <<"OrgObligationCount", bound>>
      BY <1>6, <3>1
    <3>2. CASE k \in DebtKeys(id)
      <4>1. k \in DOMAIN live' /\ k \notin DOMAIN live
        BY <1>2, <1>5, <1>6, <1>9, <3>2 DEF Adds, EntriesOf
      <4> QED  BY <1>6, <4>1 DEF Grows
    <3> QED  BY <1>10, <3>1, <3>2 DEF EntriesOfDebt
  <2> QED  BY <1>4, <1>6, <1>15, <2>1, <2>2, DebtsFrame
<1>18. \A i \in OpenPolicies' : i \in OpenPolicies /\ policies'[i] = policies[i]
  BY <1>7, <1>8 DEF OpenPolicies
<1>19. OwnKept'
  BY <1>4, <1>6, <1>12, <1>18, OwnFrame
<1>20. SharedKept'
  BY <1>4, <1>6, <1>18, SharedFrame
<1>21. TasksOK'
  BY <1>4, <1>6, TasksStep DEF Quiet, jobVars
<1> QED  BY <1>21, <1>6, <1>11, <1>12, <1>13, <1>14, <1>16, <1>17, <1>19, <1>20, LivesFrame

(* Nothing is written or removed, and no policy changes: the same entries  *)
(* exist.                                                                  *)
LEMMA SameEntries ==
    ASSUME RecordsOK, EntriesOK, AdaptersOK, Adds({}, {}), bound' = bound, policies' = policies,
           DOMAIN debts' = DOMAIN debts, \A i \in DOMAIN debts : debts'[i].adapter = debts[i].adapter
    PROVE  EntriesOK' /\ AdaptersOK'
<1>1. ASSUME NEW i \in Nat
      PROVE  EntriesOf(i)'
  <2>1. EntriesOf(i)
    BY DEF EntriesOK
  <2>2. ({} \cup {}) \cap KeysOf(i) = {}
    OBVIOUS
  <2> QED  BY <2>1, <2>2, EntriesFrame
<1>2. {} \cup {} \subseteq KeysOf(1)
  OBVIOUS
<1>3. AdaptersOK'
  BY <1>2, AdaptersStep
<1> QED  BY <1>1, <1>3 DEF EntriesOK

(* The records stay as they are while time may pass.                       *)
LEMMA SameRecords ==
    ASSUME RecordsOK, now \in Nat, now' \in Nat, now <= now', UNCHANGED <<policies, debts, bound>>
    PROVE  RecordsOK'
<1>1. ASSUME NEW i \in DOMAIN policies
      PROVE  PolicyOK(policies[i])'
  <2>1. PICK p : p = policies[i] /\ PolicyOK(p)
    BY DEF RecordsOK
  <2>2. p.start \in Nat
    BY <2>1 DEF PolicyOK, PolicyRecords
  <2> QED  BY <2>1, <2>2 DEF PolicyOK
<1> QED  BY <1>1 DEF RecordsOK

(* Marking a debt preserves the invariant.                                 *)
LEMMA MarkStep ==
    ASSUME RentInv, NEW id \in DOMAIN debts, NEW st \in {"Funded", "Settled"}, MarkDebt(id, st)
    PROVE  RentInv'
<1> USE DEF RentInv
<1>1. now \in Nat /\ now \in 0 .. MaxNow
  BY Numbers DEF JobOK
<1>2. Quiet /\ policies' = policies /\ bound' = bound
  BY DEF MarkDebt, Quiet
<1>3. Grows /\ Adds({}, {})
  BY <1>1, MarkEffect
<1>4. /\ DOMAIN debts' = DOMAIN debts
      /\ \A i \in DOMAIN debts : /\ debts'[i].adapter = debts[i].adapter
                                 /\ debts'[i].status = IF i = id THEN st ELSE debts[i].status
                                 /\ debts'[i] \in DebtRecords
      /\ debts[id].status # "Settled"
  <2>1. debts' = [debts EXCEPT ![id].status = st] /\ debts[id].status \in {"Owed", "Funded"}
    BY DEF MarkDebt
  <2>2. \A i \in DOMAIN debts : debts[i] \in DebtRecords
    BY DEF RecordsOK
  <2> QED  BY <2>1, <2>2 DEF DebtRecords
<1>5. JobOK'
  BY <1>2, <1>4, JobFrame
<1>6. RecordsOK'
  <2>1. now' = now
    BY <1>2 DEF Quiet
  <2>2. \A i \in DOMAIN policies' : PolicyOK(policies[i])'
    BY <1>2, <2>1 DEF RecordsOK, PolicyOK
  <2>3. \A i \in DOMAIN debts' : /\ i \in DOMAIN policies' /\ policies'[i].status = "Claimed"
                                 /\ debts'[i] \in DebtRecords
    BY <1>2, <1>4 DEF RecordsOK
  <2> QED  BY <1>2, <2>2, <2>3 DEF RecordsOK
<1>7. EntriesOK' /\ AdaptersOK'
  BY <1>2, <1>3, <1>4, SameEntries
<1>8. OpenDebts' \subseteq OpenDebts
  BY <1>4 DEF OpenDebts
<1>9. ContractsKept'
  <2>1. ReplacedAdapters' \subseteq ReplacedAdapters
    BY <1>2, <1>4, <1>8 DEF ReplacedAdapters, OpenDebts
  <2> QED  BY <1>2, <1>3, <2>1, ContractsStep
<1>10. DebtsKept'
  <2>1. ASSUME NEW i \in OpenDebts
        PROVE  /\ EntriesOfDebt(i)' = EntriesOfDebt(i)
               /\ DebtAwaits(i) => DebtAwaits(i)'
    BY <1>2, <1>4 DEF EntriesOfDebt, DebtAwaits, Quiet, jobVars, OpenDebts
  <2> QED  BY <1>2, <1>3, <1>8, <2>1, DebtsFrame
<1>11. OpenPolicies' = OpenPolicies
  BY <1>2 DEF OpenPolicies
<1>12. OwnKept'
  BY <1>2, <1>3, <1>6, <1>11, OwnFrame
<1>13. SharedKept'
  BY <1>2, <1>3, <1>11, SharedFrame
<1>14. TasksOK'
  BY <1>2, <1>3, TasksStep DEF Quiet, jobVars
<1> QED  BY <1>14, <1>3, <1>5, <1>6, <1>7, <1>9, <1>10, <1>12, <1>13, LivesFrame

(* An upgrade does: the fresh code lives to the next pass.                 *)
LEMMA UpgradeStep ==
    ASSUME RentInv, NEW c, upgrade(c)
    PROVE  RentInv'
<1> USE DEF RentInv
<1>1. now \in Nat /\ now \in 0 .. MaxNow
  BY Numbers DEF JobOK
<1>2. Quiet /\ policies' = policies /\ debts' = debts /\ bound' = bound
  BY DEF upgrade, Quiet
<1>3. Grows /\ Adds({}, {})
  BY <1>1, UpgradeAdds
<1>4. JobOK'
  BY <1>2, JobFrame
<1>5. RecordsOK'
  BY <1>1, <1>2, SameRecords DEF Quiet
<1>6. EntriesOK' /\ AdaptersOK'
  BY <1>2, <1>3, SameEntries
<1>7. ContractsKept'
  <2>1. ReplacedAdapters' \subseteq ReplacedAdapters
    BY <1>2 DEF ReplacedAdapters, OpenDebts
  <2> QED  BY <1>2, <1>3, <2>1, ContractsStep
<1>8. DebtsKept'
  BY <1>2, <1>3, DebtsStep
<1>9. OpenPolicies' = OpenPolicies
  BY <1>2 DEF OpenPolicies
<1>10. OwnKept' /\ SharedKept'
  BY <1>2, <1>3, <1>5, <1>9, OwnFrame, SharedFrame
<1>11. TasksOK'
  BY <1>2, <1>3, TasksStep DEF Quiet, jobVars
<1> QED  BY <1>11, <1>3, <1>4, <1>5, <1>6, <1>7, <1>8, <1>10, LivesFrame

(* A swap does: the new adapter is fresh, and the one it replaces waits    *)
(* for step 3 if the pass has not come to it.                              *)
LEMMA SwapStep ==
    ASSUME RentInv, NEW a \in Adapters, set_settlement_adapter(a)
    PROVE  RentInv'
<1> USE DEF RentInv
<1>1. now \in Nat /\ now \in 0 .. MaxNow
  BY Numbers DEF JobOK
<1>2. Quiet /\ policies' = policies /\ debts' = debts /\ bound' = a /\ ~Deployed(a)
  BY DEF set_settlement_adapter, Quiet
<1>3. Grows /\ Adds(ContractKeys(a), {})
  BY <1>1, SwapEffect
<1>4. ContractKeys(a) \cap DOMAIN live = {} /\ ContractKeys(a) \subseteq DOMAIN live'
  BY <1>2, <1>3 DEF AdaptersOK, Adds
<1>5. \A i \in DOMAIN debts : debts[i].adapter # a /\ debts[i].adapter \in Adapters
  BY <1>2 DEF AdaptersOK, RecordsOK, DebtRecords
<1>6. JobOK'
  BY <1>2, JobFrame
<1>7. RecordsOK'
  <2>1. now' = now
    BY <1>2 DEF Quiet
  <2>2. \A i \in DOMAIN policies' : PolicyOK(policies[i])'
    BY <1>2, <2>1 DEF RecordsOK, PolicyOK
  <2> QED  BY <1>2, <2>2 DEF RecordsOK
<1>8. EntriesOK'
  <2>1. ASSUME NEW i \in Nat
        PROVE  EntriesOf(i)'
    <3>1. EntriesOf(i)
      BY DEF EntriesOK
    <3>2. (ContractKeys(a) \cup {}) \cap KeysOf(i) = {}
      BY KeysApart
    <3> QED  BY <1>2, <1>3, <3>1, <3>2, EntriesFrame
  <2> QED  BY <2>1 DEF EntriesOK
<1>9. AdaptersOK'
  <2>1. ASSUME NEW b \in Adapters, b # a
        PROVE  /\ Deployed(b)' <=> Deployed(b)
               /\ ContractKeys(b) \cap DOMAIN live' = ContractKeys(b) \cap DOMAIN live
    <3>1. (ContractKeys(a) \cup {}) \cap ContractKeys(b) = {}
      BY <2>1, DebtKeysAre
    <3> QED  BY <1>3, <3>1, AdapterFrame
  <2>2. Deployed(a)'
    BY <1>4 DEF Deployed
  <2>3. ASSUME NEW i \in DOMAIN debts'
        PROVE  Deployed(debts[i].adapter)'
    <3>1. PICK b \in Adapters : b = debts[i].adapter /\ b # a /\ Deployed(b)
      BY <1>2, <1>5 DEF AdaptersOK
    <3>2. Deployed(b)'
      BY <2>1, <3>1
    <3> QED  BY <1>2, <3>1, <3>2 DEF Deployed
  <2>4. Deployed(bound)'
    BY <1>2, <2>2 DEF Deployed
  <2>5. \A b \in Adapters : Deployed(b)' \/ ContractKeys(b) \cap DOMAIN live' = {}
    BY <2>1, <2>2 DEF AdaptersOK
  <2> QED  BY <2>3, <2>4, <2>5 DEF AdaptersOK
<1>10. ContractsKept'
  <2>1. ASSUME NEW c \in InUse', c # a
        PROVE  c \in InUse
    BY <1>2, <2>1 DEF InUse, ReplacedAdapters, OpenDebts
  <2>2. ASSUME NEW c, c # a, AdapterAwaits(c)
        PROVE  AdapterAwaits(c)'
    BY <1>2, <2>2 DEF AdapterAwaits, Quiet, jobVars
  <2>3. \A c \in InUse' : \/ c \in InUse /\ (AdapterAwaits(c) => AdapterAwaits(c)')
                          \/ ContractKeys(c) \subseteq ContractKeys(a) /\ ContractKeys(c) \cap DOMAIN live = {}
    BY <1>4, <2>1, <2>2
  <2>4. \A c : {} \cap ContractKeys(c) = {}
    OBVIOUS
  <2> QED  BY <1>2, <1>3, <2>3, <2>4, ContractsFrame
<1>11. DebtsKept'
  <2>1. OpenDebts' = OpenDebts
    BY <1>2 DEF OpenDebts
  <2>2. ASSUME NEW i \in OpenDebts
        PROVE  EntriesOfDebt(i)' = EntriesOfDebt(i) /\ (DebtAwaits(i) => DebtAwaits(i)')
    BY <1>2, <1>5 DEF EntriesOfDebt, DebtAwaits, Quiet, jobVars, OpenDebts
  <2> QED  BY <1>2, <1>3, <2>1, <2>2, DebtsFrame
<1>12. OpenPolicies' = OpenPolicies
  BY <1>2 DEF OpenPolicies
<1>13. OwnKept' /\ SharedKept'
  BY <1>2, <1>3, <1>7, <1>12, OwnFrame, SharedFrame
<1>14. TasksOK'
  BY <1>2, <1>3, TasksStep DEF Quiet, jobVars
<1> QED  BY <1>14, <1>3, <1>6, <1>7, <1>8, <1>9, <1>10, <1>11, <1>13, LivesFrame

(* What the job does not list has enough left.                             *)
LEMMA NotLow ==
    ASSUME now \in Nat, LivesOK, NEW keys, ~RunsLow(keys), NEW k \in keys, k \in DOMAIN live
    PROVE  Kept(k, now)
BY Numbers DEF RunsLow, Existing, Kept, LivesOK

(* The start of a pass preserves the invariant.                            *)
LEMMA StartStep ==
    ASSUME RentInv, KeeperStarts
    PROVE  RentInv'
<1> USE DEF RentInv
<1>1. /\ now \in Nat /\ now \in 0 .. MaxNow /\ lastPass \in Nat /\ lastPass <= now
      /\ now <= lastPass + MaxLapse
  BY Numbers DEF JobOK
<1>2. /\ now' = now /\ policies' = policies /\ debts' = debts /\ bound' = bound /\ lastPass' = lastPass
      /\ stage' = "policies" /\ began' = now /\ todo' = {"policy"} \X DuePolicies
  BY DEF KeeperStarts
<1>3. /\ Grows /\ Adds({}, {})
      /\ \A c \in {"PolicyManager", "PolicyNft", "PayoutReceiver", bound} :
            \A k \in ContractKeys(c) : live'[k] >= now + MaxLapse
  BY <1>1, StartTask DEF KeeperStarts
<1>4. DOMAIN live \subseteq DOMAIN live'
  BY <1>3 DEF Adds
<1>5. DuePolicies \subseteq DOMAIN policies
  BY DEF DuePolicies, OpenPolicies, OpenDebts, RecordsOK
<1>6. JobOK'
  BY <1>1, <1>2, <1>5 DEF JobOK
<1>7. RecordsOK' /\ EntriesOK' /\ AdaptersOK'
  BY <1>1, <1>2, <1>3, SameRecords, SameEntries
<1>8. ContractsKept'
  <2>1. InUse' = InUse
    BY <1>2 DEF InUse, ReplacedAdapters, OpenDebts
  <2>2. ASSUME NEW c \in InUse, NEW k \in ContractKeys(c)
        PROVE  /\ k \in DOMAIN live' /\ live'[k] >= lastPass + MaxLapse
               /\ AdapterAwaits(c)' \/ live'[k] >= now + MaxLapse
    <3>1. k \in DOMAIN live /\ Kept(k, lastPass)
      BY DEF ContractsKept
    <3>2. k \in DOMAIN live' /\ live'[k] >= lastPass + MaxLapse
      BY <1>1, <1>3, <1>4, <3>1, StaysKept
    <3>3. c \in ReplacedAdapters => c \in Adapters \ {bound}
      BY DEF ReplacedAdapters, OpenDebts, RecordsOK, DebtRecords
    <3>4. AdapterAwaits(c)' \/ live'[k] >= now + MaxLapse
      BY <1>2, <1>3, <3>3 DEF InUse, AdapterAwaits
    <3> QED  BY <3>2, <3>4
  <2> QED  BY <1>2, <2>1, <2>2 DEF ContractsKept, Kept
<1>9. DebtsKept'
  <2>1. OpenDebts' = OpenDebts /\ \A i : EntriesOfDebt(i)' = EntriesOfDebt(i)
    BY <1>2 DEF OpenDebts, EntriesOfDebt
  <2>2. ASSUME NEW i \in OpenDebts, NEW k \in EntriesOfDebt(i)
        PROVE  /\ k \in DOMAIN live' /\ live'[k] >= lastPass + MaxLapse
               /\ DebtAwaits(i)' \/ live'[k] >= now + MaxLapse
    <3>1. k \in DOMAIN live /\ Kept(k, lastPass)
      BY DEF DebtsKept
    <3>2. k \in DOMAIN live' /\ live'[k] >= lastPass + MaxLapse
      BY <1>1, <1>3, <1>4, <3>1, StaysKept
    <3>3. CASE i \in DuePolicies
      BY <1>2, <3>2, <3>3 DEF DebtAwaits
    <3>4. CASE i \notin DuePolicies
      <4>1. ~RunsLow(EntriesOfDebt(i))
        BY <3>4 DEF DuePolicies, EntriesOfDebt
      <4>2. Kept(k, now)
        BY <1>1, <3>1, <4>1, NotLow
      <4> QED  BY <1>1, <1>3, <3>2, <4>2, StaysKept
    <3> QED  BY <3>3, <3>4
  <2> QED  BY <1>2, <2>1, <2>2 DEF DebtsKept, Kept
<1>10. OpenPolicies' = OpenPolicies
  BY <1>2 DEF OpenPolicies
<1>11. ASSUME NEW i \in OpenPolicies, i \notin DuePolicies,
              NEW k \in OwnEntries(i) \cup FarmerAndOrgEntries, k \in DOMAIN live'
       PROVE  live'[k] >= now + MaxLapse
  <2>1. ~RunsLow(OwnEntries(i) \cup FarmerAndOrgEntries)
    BY <1>11 DEF DuePolicies
  <2>2. k \in DOMAIN live => Kept(k, now)
    BY <1>1, <2>1, NotLow
  <2> QED  BY <1>1, <1>3, <1>11, <2>2, StaysKept
<1>12. OwnKept'
  <2>1. ASSUME NEW i \in OpenPolicies, NEW k \in OwnEntries(i), k \in DOMAIN live'
        PROVE  /\ live'[k] >= lastPass + MaxLapse \/ live'[k] >= Needed(i)
               /\ <<"policy", i>> \in todo' \/ live'[k] >= now + MaxLapse
    <3>1. policies[i].end \in Nat
      <4>1. i \in DOMAIN policies
        BY DEF OpenPolicies
      <4> QED  BY <4>1, KnownPolicy DEF PolicyOK, PolicyRecords
    <3>2. PICK n \in Int : n = Needed(i)
      BY <3>1, Numbers DEF Needed
    <3>3. k \in DOMAIN live => Kept(k, lastPass) \/ live[k] >= n
      BY <3>2 DEF OwnKept, Existing, Suffices, Needed
    <3>4. live'[k] >= lastPass + MaxLapse \/ live'[k] >= n
      BY <1>1, <1>3, <2>1, <3>3, StaysLong
    <3>5. <<"policy", i>> \in todo' \/ live'[k] >= now + MaxLapse
      BY <1>2, <1>11, <2>1
    <3> QED  BY <3>2, <3>4, <3>5
  <2> QED  BY <1>2, <1>10, <2>1 DEF OwnKept, Existing, Kept, Suffices, Needed
<1>13. SharedKept'
  <2>1. ASSUME NEW i \in OpenPolicies, NEW k \in FarmerAndOrgEntries, k \in DOMAIN live'
        PROVE  /\ policies[i].sold < lastPass => live'[k] >= lastPass + MaxLapse
               /\ <<"policy", i>> \in todo' \/ live'[k] >= now + MaxLapse
    <3>1. k \in DOMAIN live => (policies[i].sold < lastPass => Kept(k, lastPass))
      BY DEF SharedKept, Existing
    <3>2. policies[i].sold < lastPass => live'[k] >= lastPass + MaxLapse
      BY <1>1, <1>3, <2>1, <3>1, StaysKept
    <3>3. <<"policy", i>> \in todo' \/ live'[k] >= now + MaxLapse
      BY <1>2, <1>11, <2>1
    <3> QED  BY <3>2, <3>3
  <2> QED  BY <1>2, <1>10, <2>1 DEF SharedKept, Existing, Kept
<1>14. TasksOK'
  BY <1>2 DEF TasksOK
<1> QED  BY <1>14, <1>3, <1>6, <1>7, <1>8, <1>9, <1>12, <1>13, LivesFrame

(* The turn to step 3 does.                                                *)
LEMMA TurnStep ==
    ASSUME RentInv, KeeperTurns
    PROVE  RentInv'
<1> USE DEF RentInv
<1>1. now \in Nat /\ stage = "policies" /\ todo = {}
  BY DEF JobOK, KeeperTurns
<1>2. /\ now' = now /\ live' = live /\ policies' = policies /\ debts' = debts /\ bound' = bound
      /\ lastPass' = lastPass /\ began' = began /\ stage' = "replaced"
      /\ todo' = ({"adapter"} \X ReplacedAdapters)
                 \cup ({"debt"} \X {id \in OpenDebts : debts[id].adapter # bound})
  BY DEF KeeperTurns
<1>3. ReplacedAdapters \subseteq Adapters \ {bound} /\ OpenDebts \subseteq DOMAIN debts
  BY DEF ReplacedAdapters, OpenDebts, RecordsOK, DebtRecords
<1>4. JobOK'
  <2>1. todo' \subseteq ({"adapter"} \X Adapters) \cup ({"debt"} \X DOMAIN debts)
    BY <1>2, <1>3
  <2> QED  BY <1>2, <2>1 DEF JobOK
<1>5. LivesOK' /\ Adds({}, {})
  BY <1>2 DEF LivesOK, Adds
<1>6. RecordsOK' /\ EntriesOK' /\ AdaptersOK'
  BY <1>1, <1>2, <1>5, SameRecords, SameEntries
<1>7. ContractsKept'
  <2>1. InUse' = InUse
    BY <1>2 DEF InUse, ReplacedAdapters, OpenDebts
  <2>2. ASSUME NEW c \in InUse, AdapterAwaits(c)
        PROVE  AdapterAwaits(c)'
    <3>1. c \in Adapters \ {bound}
      BY <1>1, <2>2 DEF AdapterAwaits
    <3>2. c \in ReplacedAdapters
      BY <3>1, RentAssumption DEF InUse
    <3> QED  BY <1>2, <3>2 DEF AdapterAwaits
  <2> QED  BY <1>2, <2>1, <2>2 DEF ContractsKept, Kept
<1>8. DebtsKept'
  <2>1. OpenDebts' = OpenDebts /\ \A i : EntriesOfDebt(i)' = EntriesOfDebt(i)
    BY <1>2 DEF OpenDebts, EntriesOfDebt
  <2>2. ASSUME NEW i \in OpenDebts, DebtAwaits(i)
        PROVE  DebtAwaits(i)'
    BY <1>1, <1>2, <2>2 DEF DebtAwaits
  <2> QED  BY <1>2, <2>1, <2>2 DEF DebtsKept, Kept
<1>9. OpenPolicies' = OpenPolicies
  BY <1>2 DEF OpenPolicies
<1>10. OwnKept'
  BY <1>1, <1>2, <1>9 DEF OwnKept, Existing, Kept, Suffices
<1>11. SharedKept'
  BY <1>1, <1>2, <1>9 DEF SharedKept, Existing, Kept
<1>12. TasksOK'
  BY <1>2 DEF TasksOK, Deployed, ReplacedAdapters, OpenDebts, AdaptersOK
<1> QED  BY <1>12, <1>4, <1>5, <1>6, <1>7, <1>8, <1>10, <1>11

(* The end of a pass does: nothing waits any more.                         *)
LEMMA EndStep ==
    ASSUME RentInv, KeeperEnds
    PROVE  RentInv'
<1> USE DEF RentInv
<1>1. /\ now \in Nat /\ lastPass \in Nat /\ began \in Nat
      /\ lastPass <= began /\ began <= now /\ now <= lastPass + MaxLapse
      /\ stage = "replaced" /\ todo = {}
  BY DEF JobOK, KeeperEnds
<1>2. /\ now' = now /\ live' = live /\ policies' = policies /\ debts' = debts /\ bound' = bound
      /\ lastPass' = began /\ began' = began /\ stage' = "idle" /\ todo' = {}
  BY <1>1 DEF KeeperEnds
<1>3. JobOK'
  BY <1>1, <1>2, Numbers DEF JobOK
<1>4. LivesOK' /\ Adds({}, {})
  BY <1>2 DEF LivesOK, Adds
<1>5. RecordsOK' /\ EntriesOK' /\ AdaptersOK'
  BY <1>1, <1>2, <1>4, SameRecords, SameEntries
<1>6. ContractsKept'
  <2>1. InUse' = InUse
    BY <1>2 DEF InUse, ReplacedAdapters, OpenDebts
  <2>2. \A c : ~AdapterAwaits(c)
    BY <1>1 DEF AdapterAwaits
  <2> QED  BY <1>2, <2>1, <2>2 DEF ContractsKept, Kept
<1>7. DebtsKept'
  <2>1. OpenDebts' = OpenDebts /\ \A i : EntriesOfDebt(i)' = EntriesOfDebt(i)
    BY <1>2 DEF OpenDebts, EntriesOfDebt
  <2>2. \A i : ~DebtAwaits(i)
    BY <1>1 DEF DebtAwaits
  <2> QED  BY <1>2, <2>1, <2>2 DEF DebtsKept, Kept
<1>8. OpenPolicies' = OpenPolicies
  BY <1>2 DEF OpenPolicies
<1>9. OwnKept'
  BY <1>1, <1>2, <1>8 DEF OwnKept, Existing, Kept, Suffices
<1>10. SharedKept'
  BY <1>1, <1>2, <1>8 DEF SharedKept, Existing, Kept
<1>11. TasksOK'
  BY <1>2 DEF TasksOK
<1> QED  BY <1>11, <1>3, <1>4, <1>5, <1>6, <1>7, <1>9, <1>10

(* So does time: the clock stops where the next pass is due.               *)
LEMMA CloseLedgersStep ==
    ASSUME RentInv, LedgersClose
    PROVE  RentInv'
<1> USE DEF RentInv
<1>1. /\ now \in Nat /\ lastPass \in Nat /\ began \in Nat /\ now < MaxNow
      /\ lastPass <= began /\ began <= now /\ now - lastPass < MaxLapse
      /\ now' = now + 1
  BY DEF JobOK, LedgersClose
<1>2. /\ live' = live /\ policies' = policies /\ debts' = debts /\ bound' = bound
      /\ lastPass' = lastPass /\ began' = began /\ stage' = stage /\ todo' = todo
  BY DEF LedgersClose, jobVars
<1>3. JobOK'
  <2>1. now' \in Nat /\ began <= now' /\ now' <= lastPass + MaxLapse /\ now' <= MaxNow
    BY <1>1, Numbers
  <2> QED  BY <1>2, <2>1 DEF JobOK
<1>4. LivesOK' /\ Adds({}, {})
  BY <1>2 DEF LivesOK, Adds
<1>5. RecordsOK' /\ EntriesOK' /\ AdaptersOK'
  BY <1>1, <1>2, <1>4, SameRecords, SameEntries
<1>6. ContractsKept'
  BY <1>2 DEF ContractsKept, Kept, InUse, ReplacedAdapters, OpenDebts, AdapterAwaits
<1>7. DebtsKept'
  BY <1>2 DEF DebtsKept, Kept, OpenDebts, EntriesOfDebt, DebtAwaits
<1>8. OwnKept' /\ SharedKept'
  BY <1>2 DEF OwnKept, SharedKept, OpenPolicies, Existing, Kept, Suffices
<1>9. TasksOK'
  BY <1>2 DEF TasksOK, Deployed
<1> QED  BY <1>9, <1>3, <1>4, <1>5, <1>6, <1>7, <1>8

(* A call of the job preserves the invariant if it keeps what its task     *)
(* stands for.                                                             *)
LEMMA TaskStep ==
    ASSUME RentInv, NEW task \in todo, Grows, Adds({}, {}), todo' = todo \ {task},
           UNCHANGED <<now, policies, debts, bound, lastPass, stage, began>>,
           \A c : task = <<"adapter", c>> => \A k \in ContractKeys(c) : live'[k] >= now + MaxLapse,
           \A i \in OpenDebts :
              task = <<"debt", i>> \/ (task = <<"policy", i>> /\ debts[i].adapter = bound)
                 => \A k \in EntriesOfDebt(i) : live'[k] >= now + MaxLapse,
           \A i : task = <<"policy", i>> =>
              /\ stage = "policies"
              /\ \A k \in Existing(OwnEntries(i)) :
                    live'[k] >= now + MaxLapse \/ live'[k] >= Needed(i)
              /\ \A k \in Existing(FarmerAndOrgEntries) : live'[k] >= now + MaxLapse
    PROVE  RentInv'
<1> USE DEF RentInv
<1>1. /\ now \in Nat /\ now \in 0 .. MaxNow /\ lastPass \in Nat /\ lastPass <= now
      /\ began \in Nat /\ began <= now
  BY Numbers DEF JobOK
<1>2. /\ now' = now /\ policies' = policies /\ debts' = debts /\ bound' = bound
      /\ lastPass' = lastPass /\ began' = began /\ stage' = stage
  OBVIOUS
<1>3. DOMAIN live \subseteq DOMAIN live'
  BY DEF Adds
<1>4. ASSUME NEW k \in DOMAIN live', live'[k] >= now + MaxLapse
      PROVE  live'[k] >= began + MaxLapse
  BY <1>1, <1>4, Numbers DEF Grows
<1>5. JobOK'
  BY <1>2 DEF JobOK
<1>6. RecordsOK' /\ EntriesOK' /\ AdaptersOK'
  BY <1>1, <1>2, SameRecords, SameEntries
<1>7. ContractsKept'
  <2>1. InUse' = InUse
    BY <1>2 DEF InUse, ReplacedAdapters, OpenDebts
  <2>2. ASSUME NEW c \in InUse, NEW k \in ContractKeys(c)
        PROVE  /\ k \in DOMAIN live' /\ live'[k] >= lastPass + MaxLapse
               /\ AdapterAwaits(c)' \/ live'[k] >= began + MaxLapse
    <3>1. k \in DOMAIN live /\ Kept(k, lastPass) /\ (AdapterAwaits(c) \/ Kept(k, began))
      BY DEF ContractsKept
    <3>2. k \in DOMAIN live' /\ live'[k] >= lastPass + MaxLapse
      BY <1>1, <1>3, <3>1, StaysKept
    <3>3. CASE task = <<"adapter", c>>
      BY <1>4, <3>2, <3>3
    <3>4. CASE task # <<"adapter", c>> /\ AdapterAwaits(c)
      BY <1>2, <3>2, <3>4 DEF AdapterAwaits
    <3>5. CASE Kept(k, began)
      BY <1>1, <3>2, <3>5, StaysKept
    <3> QED  BY <3>1, <3>3, <3>4, <3>5
  <2> QED  BY <1>2, <2>1, <2>2 DEF ContractsKept, Kept
<1>8. DebtsKept'
  <2>1. OpenDebts' = OpenDebts /\ \A i : EntriesOfDebt(i)' = EntriesOfDebt(i)
    BY <1>2 DEF OpenDebts, EntriesOfDebt
  <2>2. ASSUME NEW i \in OpenDebts, NEW k \in EntriesOfDebt(i)
        PROVE  /\ k \in DOMAIN live' /\ live'[k] >= lastPass + MaxLapse
               /\ DebtAwaits(i)' \/ live'[k] >= began + MaxLapse
    <3>1. k \in DOMAIN live /\ Kept(k, lastPass) /\ (DebtAwaits(i) \/ Kept(k, began))
      BY DEF DebtsKept
    <3>2. k \in DOMAIN live' /\ live'[k] >= lastPass + MaxLapse
      BY <1>1, <1>3, <3>1, StaysKept
    <3>3. CASE task = <<"debt", i>> \/ (task = <<"policy", i>> /\ debts[i].adapter = bound)
      BY <1>4, <3>2, <3>3
    <3>4. CASE task = <<"policy", i>> /\ debts[i].adapter # bound
      <4>1. stage = "policies"
        BY <3>4
      <4> QED  BY <1>2, <3>2, <3>4, <4>1 DEF DebtAwaits
    <3>5. CASE task # <<"debt", i>> /\ task # <<"policy", i>> /\ DebtAwaits(i)
      BY <1>2, <3>2, <3>5 DEF DebtAwaits
    <3>6. CASE Kept(k, began)
      BY <1>1, <3>2, <3>6, StaysKept
    <3> QED  BY <3>1, <3>3, <3>4, <3>5, <3>6
  <2> QED  BY <1>2, <2>1, <2>2 DEF DebtsKept, Kept
<1>9. OpenPolicies' = OpenPolicies
  BY <1>2 DEF OpenPolicies
<1>10. OwnKept'
  <2>1. ASSUME NEW i \in OpenPolicies, NEW k \in OwnEntries(i), k \in DOMAIN live'
        PROVE  /\ live'[k] >= lastPass + MaxLapse \/ live'[k] >= Needed(i)
               /\ <<"policy", i>> \in todo' \/ live'[k] >= began + MaxLapse \/ live'[k] >= Needed(i)
    <3>1. policies[i].end \in Nat
      <4>1. i \in DOMAIN policies
        BY DEF OpenPolicies
      <4> QED  BY <4>1, KnownPolicy DEF PolicyOK, PolicyRecords
    <3>2. PICK n \in Int : n = Needed(i)
      BY <3>1, Numbers DEF Needed
    <3>3. k \in DOMAIN live =>
             /\ Kept(k, lastPass) \/ live[k] >= n
             /\ <<"policy", i>> \in todo \/ Kept(k, began) \/ live[k] >= n
      BY <3>2 DEF OwnKept, Existing, Suffices, Needed
    <3>4. live'[k] >= lastPass + MaxLapse \/ live'[k] >= n
      BY <1>1, <2>1, <3>3, StaysLong
    <3>5. CASE k \in DOMAIN live /\ task = <<"policy", i>>
      <4>1. live'[k] >= now + MaxLapse \/ live'[k] >= n
        BY <3>2, <3>5 DEF Existing
      <4> QED  BY <1>4, <2>1, <3>2, <3>4, <4>1
    <3>6. CASE k \notin DOMAIN live \/ task # <<"policy", i>>
      <4>1. <<"policy", i>> \in todo' \/ (k \in DOMAIN live => Kept(k, began) \/ live[k] >= n)
        BY <3>3, <3>6
      <4>2. <<"policy", i>> \in todo' \/ live'[k] >= began + MaxLapse \/ live'[k] >= n
        BY <1>1, <2>1, <4>1, StaysLong
      <4> QED  BY <3>2, <3>4, <4>2
    <3> QED  BY <3>5, <3>6
  <2> QED  BY <1>2, <1>9, <2>1 DEF OwnKept, Existing, Kept, Suffices, Needed
<1>11. SharedKept'
  <2>1. ASSUME NEW i \in OpenPolicies, NEW k \in FarmerAndOrgEntries, k \in DOMAIN live'
        PROVE  /\ policies[i].sold < lastPass => live'[k] >= lastPass + MaxLapse
               /\ policies[i].sold < began => <<"policy", i>> \in todo' \/ live'[k] >= began + MaxLapse
    <3>1. k \in DOMAIN live => /\ policies[i].sold < lastPass => Kept(k, lastPass)
                               /\ policies[i].sold < began => <<"policy", i>> \in todo \/ Kept(k, began)
      BY DEF SharedKept, Existing
    <3>2. policies[i].sold < lastPass => live'[k] >= lastPass + MaxLapse
      BY <1>1, <2>1, <3>1, StaysKept
    <3>3. CASE k \in DOMAIN live /\ task = <<"policy", i>>
      <4>1. live'[k] >= now + MaxLapse
        BY <3>3, <2>1 DEF Existing
      <4> QED  BY <1>4, <2>1, <3>2, <4>1
    <3>4. CASE k \notin DOMAIN live \/ task # <<"policy", i>>
      <4>1. policies[i].sold < began =>
               <<"policy", i>> \in todo' \/ (k \in DOMAIN live => Kept(k, began))
        BY <3>1, <3>4
      <4>2. policies[i].sold < began => <<"policy", i>> \in todo' \/ live'[k] >= began + MaxLapse
        BY <1>1, <2>1, <4>1, StaysKept
      <4> QED  BY <3>2, <4>2
    <3> QED  BY <3>3, <3>4
  <2> QED  BY <1>2, <1>9, <2>1 DEF SharedKept, Existing, Kept
<1>12. TasksOK'
  BY TasksStep
<1> QED  BY <1>12, <1>5, <1>6, <1>7, <1>8, <1>10, <1>11, LivesFrame

(* Each call of the job does.                                              *)
LEMMA CallStep ==
    ASSUME RentInv, KeeperCalls
    PROVE  RentInv'
<1> USE DEF RentInv
<1>1. now \in 0 .. MaxNow
  BY Numbers DEF JobOK
<1>2. PICK task \in todo :
        /\ \/ task[1] = "policy" /\ Apply(PrExtendPolicyTtl(task[2]), {})
           \/ task[1] = "adapter" /\ Apply(keep_contract_alive(task[2]), {})
           \/ task[1] = "debt" /\ Apply(extend_obligation_ttl(task[2]), {})
        /\ todo' = todo \ {task}
        /\ UNCHANGED <<now, policies, debts, bound, lastPass, stage, began>>
  BY DEF KeeperCalls
<1>3. CASE task[1] = "policy" /\ Apply(PrExtendPolicyTtl(task[2]), {})
  <2>1. stage = "policies" /\ task \in {"policy"} \X DOMAIN policies
    BY <1>2, <1>3 DEF JobOK
  <2>2. PICK id \in DOMAIN policies : task = <<"policy", id>>
    BY <2>1
  <2>3. /\ Grows /\ Adds({}, {})
        /\ \A k \in Existing(OwnEntries(id)) :
              live'[k] >= now + MaxLapse \/ live'[k] >= Needed(id)
        /\ \A k \in Existing(FarmerAndOrgEntries) : live'[k] >= now + MaxLapse
        /\ \A k \in FoundDebt(id) : live'[k] >= now + MaxLapse
    BY <1>1, <1>3, <2>2, PolicyTask
  <2>4. \A c : task # <<"adapter", c>> /\ task # <<"debt", c>>
    BY <2>2
  <2>5. \A i : task = <<"policy", i>> => i = id
    BY <2>2
  <2>6. \A i \in OpenDebts :
          task = <<"policy", i>> /\ debts[i].adapter = bound
             => \A k \in EntriesOfDebt(i) : live'[k] >= now + MaxLapse
    BY <2>3, <2>5 DEF FoundDebt
  <2> QED  BY <1>2, <2>1, <2>3, <2>4, <2>5, <2>6, TaskStep
<1>4. CASE task[1] = "adapter" /\ Apply(keep_contract_alive(task[2]), {})
  <2>1. task \in {"adapter"} \X Adapters
    BY <1>2, <1>4 DEF JobOK
  <2>2. PICK a \in Adapters : task = <<"adapter", a>>
    BY <2>1
  <2>3. Deployed(a)
    BY <2>2 DEF TasksOK
  <2>4. /\ Grows /\ Adds({}, {})
        /\ \A k \in ContractKeys(a) : live'[k] >= now + MaxLapse
    BY <1>1, <1>4, <2>2, <2>3, AdapterTask
  <2>5. \A c : task # <<"debt", c>> /\ task # <<"policy", c>>
    BY <2>2
  <2>6. \A c : task = <<"adapter", c>> => c = a
    BY <2>2
  <2> QED  BY <1>2, <2>4, <2>5, <2>6, TaskStep
<1>5. CASE task[1] = "debt" /\ Apply(extend_obligation_ttl(task[2]), {})
  <2>1. task \in {"debt"} \X DOMAIN debts
    BY <1>2, <1>5 DEF JobOK
  <2>2. PICK id \in DOMAIN debts : task = <<"debt", id>>
    BY <2>1
  <2>3. /\ Grows /\ Adds({}, {})
        /\ id \in OpenDebts => \A k \in EntriesOfDebt(id) : live'[k] >= now + MaxLapse
    BY <1>1, <1>5, <2>2, DebtTask
  <2>4. \A c : task # <<"adapter", c>> /\ task # <<"policy", c>>
    BY <2>2
  <2>5. \A i : task = <<"debt", i>> => i = id
    BY <2>2
  <2> QED  BY <1>2, <2>3, <2>4, <2>5, TaskStep
<1> QED  BY <1>2, <1>3, <1>4, <1>5

(* The invariant holds after deploy.sh.                                    *)
LEMMA RentInit ==
    ASSUME Init
    PROVE  RentInv
<1>1. /\ now = 0 /\ policies = << >> /\ debts = << >> /\ bound = FirstAdapter
      /\ lastPass = 0 /\ stage = "idle" /\ began = 0 /\ todo = {}
  BY DEF Init
<1>2. PICK C : C = {"PolicyManager", "PolicyNft", "PayoutReceiver", FirstAdapter}
  OBVIOUS
<1>3. Contracts \ (Adapters \ {FirstAdapter}) = C
  BY <1>2, RentAssumption DEF Contracts
<1>4. DOMAIN live = UNION {ContractKeys(c) : c \in C}
  BY <1>3 DEF Init
<1>5. \A k \in DOMAIN live : live[k] = Least(KEEPER_TARGET, MAX_TTL)
  BY DEF Init
<1>6. Least(KEEPER_TARGET, MAX_TTL) \in 0 .. MaxNow + MAX_TTL /\ Least(KEEPER_TARGET, MAX_TTL) >= MaxLapse
  BY Numbers DEF Least
<1>7. DOMAIN policies = {} /\ DOMAIN debts = {} /\ policies \in Seq(PolicyRecords) /\ Len(policies) = 0
  BY <1>1
<1>8. JobOK /\ LivesOK
  BY <1>1, <1>5, <1>6, Numbers DEF JobOK, LivesOK
<1>9. RecordsOK
  BY <1>1, <1>7, RentAssumption DEF RecordsOK
<1>10. EntriesOK
  <2>1. ASSUME NEW id \in Nat
        PROVE  EntriesOf(id)
    <3>1. \A k \in KeysOf(id) : k \notin DOMAIN live
      BY <1>4, KeysApart
    <3>2. /\ <<"Policy", id>> \in KeysOf(id) /\ <<"PendingCounted", id>> \in KeysOf(id)
          /\ CertificateKeys(id) \subseteq KeysOf(id)
          /\ SettledKeys(id) \cup DebtKeys(id) \subseteq KeysOf(id)
      BY DEF KeysOf, SaleKeys
    <3> QED  BY <1>7, <3>1, <3>2 DEF EntriesOf
  <2> QED  BY <2>1 DEF EntriesOK
<1>11. AdaptersOK
  <2>1. ASSUME NEW a \in Adapters, a # FirstAdapter
        PROVE  ContractKeys(a) \cap DOMAIN live = {}
    <3>1. a \notin C
      BY <1>2, <2>1, RentAssumption
    <3>2. \A c : c # a => ContractKeys(a) \cap ContractKeys(c) = {}
      BY DebtKeysAre
    <3> QED  BY <1>4, <3>1, <3>2
  <2>2. Deployed(FirstAdapter)
    BY <1>2, <1>4 DEF Deployed
  <2> QED  BY <1>1, <1>7, <2>1, <2>2 DEF AdaptersOK
<1>12. TasksOK
  BY <1>1 DEF TasksOK
<1>13. ContractsKept
  <2>1. OpenDebts = {}
    BY <1>7 DEF OpenDebts
  <2>2. InUse = C
    BY <1>1, <1>2, <2>1 DEF InUse, ReplacedAdapters
  <2>3. \A c \in C : \A k \in ContractKeys(c) : k \in DOMAIN live
    BY <1>4
  <2> QED  BY <1>1, <1>5, <1>6, <2>2, <2>3, Numbers DEF ContractsKept, Kept
<1>14. DebtsKept /\ OwnKept /\ SharedKept
  BY <1>7 DEF DebtsKept, OwnKept, SharedKept, OpenDebts, OpenPolicies
<1> QED  BY <1>8, <1>9, <1>10, <1>11, <1>12, <1>13, <1>14 DEF RentInv

(* Every step preserves it.                                                *)
LEMMA RentStep ==
    ASSUME RentInv, [Next]_rentVars
    PROVE  RentInv'
<1>1. CASE UNCHANGED rentVars
  BY <1>1 DEF rentVars, jobVars, RentInv, JobOK, LivesOK, RecordsOK, PolicyOK, EntriesOK, EntriesOf,
              AdaptersOK, Deployed, TasksOK, ContractsKept, InUse, ReplacedAdapters, OpenDebts,
              AdapterAwaits, Kept, DebtsKept, EntriesOfDebt, DebtAwaits, OwnKept, OpenPolicies,
              Existing, Suffices, SharedKept
<1>2. CASE UserCall
  <2>1. CASE \E d \in Durations : WithinLoad /\ create_policy(d)
    BY <2>1, CreateStep
  <2>2. CASE \E id \in DOMAIN policies : activate_policy(id)
    BY <2>2, ActivateStep
  <2>3. CASE \E id \in DOMAIN policies : settle_verified(id)
    BY <2>3, SettleStep
  <2>4. CASE \E id \in DOMAIN policies : \E s \in {"Cancelled", "Expired"} : ClosePolicy(id, s)
    BY <2>4, CloseStep
  <2>5. CASE \E id \in DOMAIN debts, s \in {"Funded", "Settled"} : MarkDebt(id, s)
    BY <2>5, MarkStep
  <2> QED  BY <1>2, <2>1, <2>2, <2>3, <2>4, <2>5 DEF UserCall
<1>3. CASE \E a \in Adapters : WithinLoad /\ set_settlement_adapter(a)
  BY <1>3, SwapStep
<1>4. CASE \E c \in Upgrades : upgrade(c)
  BY <1>4, UpgradeStep
<1>5. CASE KeeperStarts \/ KeeperTurns \/ KeeperCalls \/ KeeperEnds
  BY <1>5, StartStep, TurnStep, CallStep, EndStep
<1>6. CASE LedgersClose
  BY <1>6, CloseLedgersStep
<1> QED  BY <1>1, <1>2, <1>3, <1>4, <1>5, <1>6 DEF Next

(* The invariant is inductive: in every reachable state all that is in use *)
(* outlives the next pass.                                                 *)
THEOREM RentInvariant == Spec => []RentInv
<1>1. Init => RentInv
  BY RentInit
<1>2. RentInv /\ [Next]_rentVars => RentInv'
  BY RentStep
<1> QED  BY <1>1, <1>2, PTL DEF Spec

(* An entry exists exactly as long as the state it belongs to, and no      *)
(* entry outlives what the network allows.                                 *)
THEOREM RentTypeCorrect == Spec => []RentTypeOK
<1>1. RentInv => RentTypeOK
  <2> SUFFICES ASSUME RentInv PROVE RentTypeOK
    OBVIOUS
  <2>1. now \in 0 .. MaxNow
    BY Numbers DEF RentInv, JobOK
  <2>2. \A k \in DOMAIN live : live[k] \in 0 .. MaxNow + MAX_TTL
    BY DEF RentInv, LivesOK
  <2>3. ASSUME NEW id \in DOMAIN policies
        PROVE  /\ {<<"Policy", id>>, <<"FarmerPolicyAt", id>>} \subseteq DOMAIN live
               /\ <<"PendingCounted", id>> \in DOMAIN live <=> policies[id].status = "Pending"
               /\ policies[id].status \in {"Active", "Claimed"} =>
                      CertificateKeys(id) \subseteq DOMAIN live
               /\ policies[id].status = "Claimed" <=> id \in DOMAIN debts
               /\ id \in DOMAIN debts => SettledKeys(id) \cup DebtKeys(id) \subseteq DOMAIN live
    <3>1. EntriesOf(id) /\ (id \in DOMAIN debts => policies[id].status = "Claimed")
      BY KnownPolicy DEF RentInv, RecordsOK
    <3> QED  BY <3>1 DEF EntriesOf
  <2> QED  BY <2>1, <2>2, <2>3 DEF RentTypeOK
<1> QED  BY <1>1, RentInvariant, PTL

(* Code and instance of every contract in use never archive, through swaps *)
(* and upgrades.                                                           *)
THEOREM ContractsLive == Spec => []ContractsStayLive
<1>1. RentInv => ContractsStayLive
  <2> SUFFICES ASSUME RentInv PROVE ContractsStayLive
    OBVIOUS
  <2>1. ASSUME NEW c \in InUse, NEW k \in ContractKeys(c)
        PROVE  Alive(k)
    <3>1. k \in DOMAIN live /\ live[k] >= lastPass + MaxLapse
      BY DEF RentInv, ContractsKept, Kept
    <3>2. live[k] \in Int /\ now \in Nat /\ lastPass \in Nat /\ now <= lastPass + MaxLapse
      BY <3>1, Numbers DEF RentInv, LivesOK, JobOK
    <3> QED  BY <3>1, <3>2, Numbers DEF Alive
  <2> QED  BY <2>1 DEF ContractsStayLive, InUse
<1> QED  BY <1>1, RentInvariant, PTL

(* Nothing an open policy needs is archived while it needs it.             *)
THEOREM PoliciesLive == Spec => []OpenPolicyStaysLive
<1>1. RentInv => OpenPolicyStaysLive
  <2> SUFFICES ASSUME RentInv, NEW id \in DOMAIN policies, InNeed(id)
               PROVE  /\ \A k \in Existing(OwnEntries(id)) : Alive(k)
                      /\ policies[id].sold < lastPass => \A k \in Existing(FarmerAndOrgEntries) : Alive(k)
    BY DEF OpenPolicyStaysLive
  <2>1. /\ id \in OpenPolicies /\ now <= Needed(id)
        /\ now \in Nat /\ lastPass \in Nat /\ now <= lastPass + MaxLapse
    BY DEF InNeed, Needed, RentInv, JobOK
  <2>2. Needed(id) \in Int
    <3>1. policies[id].end \in Nat
      BY KnownPolicy DEF RentInv, PolicyOK, PolicyRecords
    <3> QED  BY <3>1, Numbers DEF Needed
  <2>3. ASSUME NEW k \in Existing(OwnEntries(id))
        PROVE  Alive(k)
    <3>1. k \in DOMAIN live /\ live[k] \in Int
      BY Numbers DEF Existing, RentInv, LivesOK
    <3>2. live[k] >= lastPass + MaxLapse \/ live[k] >= Needed(id)
      BY <2>1 DEF RentInv, OwnKept, Kept, Suffices, Needed
    <3> QED  BY <2>1, <2>2, <3>1, <3>2, Numbers DEF Alive
  <2>4. ASSUME policies[id].sold < lastPass, NEW k \in Existing(FarmerAndOrgEntries)
        PROVE  Alive(k)
    <3>1. k \in DOMAIN live /\ live[k] \in Int
      BY Numbers DEF Existing, RentInv, LivesOK
    <3>2. live[k] >= lastPass + MaxLapse
      BY <2>1, <2>4 DEF RentInv, SharedKept, Kept
    <3> QED  BY <2>1, <3>1, <3>2, Numbers DEF Alive
  <2> QED  BY <2>3, <2>4
<1> QED  BY <1>1, RentInvariant, PTL

(* An open debt stays readable until it is paid, also in an adapter the    *)
(* receiver no longer points to.                                           *)
THEOREM DebtsLive == Spec => []OpenDebtStaysLive
<1>1. RentInv => OpenDebtStaysLive
  <2> SUFFICES ASSUME RentInv PROVE OpenDebtStaysLive
    OBVIOUS
  <2>1. ASSUME NEW id \in OpenDebts, NEW k \in EntriesOfDebt(id)
        PROVE  Alive(k)
    <3>1. k \in DOMAIN live /\ live[k] >= lastPass + MaxLapse
      BY DEF RentInv, DebtsKept, Kept
    <3>2. live[k] \in Int /\ now \in Nat /\ lastPass \in Nat /\ now <= lastPass + MaxLapse
      BY <3>1, Numbers DEF RentInv, LivesOK, JobOK
    <3> QED  BY <3>1, <3>2, Numbers DEF Alive
  <2> QED  BY <2>1 DEF OpenDebtStaysLive, EntriesOfDebt
<1> QED  BY <1>1, RentInvariant, PTL
=============================================================================
