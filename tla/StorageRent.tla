---------------------------- MODULE StorageRent ----------------------------
(***************************************************************************)
(* The storage rent policy (crates/shared/src/ttl.rs) and the extensions   *)
(* the four contracts make: how long each ledger entry of a policy and its *)
(* debt lives, who extends it, and what the backend's keeper has to do.    *)
(*                                                                         *)
(* live[k] is the last ledger entry k lives through.  A call that reads an *)
(* archived entry restores it first (RPC simulation adds the restore), so  *)
(* archival costs a restore and changes no outcome: the properties say     *)
(* when that cost is never met.  One farmer, one org, one distributor:     *)
(* the shared entries are the ones all policies meet in.  What the other   *)
(* modules say of values, roles and money is left out; a claim may come at *)
(* any time of the cover.                                                  *)
(***************************************************************************)
EXTENDS Integers, Sequences, FiniteSets

CONSTANTS
    Adapters, FirstAdapter,
    Durations,              \* terms a policy may be sold for
    Upgrades,               \* bound: the contracts a run may upgrade
    MaxLoad, MaxNow,        \* bounds: policies and swaps together, and the clock
    MaxLapse,               \* the last full keeper pass began at most this long ago
    DAY_LEDGERS,
    USER_THRESHOLD, USER_TARGET, KEEPER_THRESHOLD, KEEPER_TARGET,
    PENDING_THRESHOLD, PENDING_TARGET, SHARED_FLOOR, POLICY_GRACE, CLAIM_HISTORY,
    KEEPER_SELECTS,         \* the job extends what has less than this left
    MAX_TTL, MIN_TTL        \* network limits: max_entry_ttl, min_persistent_ttl

ASSUME RentAssumption ==
    /\ FirstAdapter \in Adapters
    /\ Adapters \cap {"PolicyManager", "PolicyNft", "PayoutReceiver"} = {}
    /\ Upgrades \subseteq {"PolicyManager", "PayoutReceiver"} \cup Adapters
    /\ Durations \subseteq Nat
    /\ {MaxLoad, MaxNow, MaxLapse, DAY_LEDGERS, USER_THRESHOLD, USER_TARGET,
        KEEPER_THRESHOLD, KEEPER_TARGET, PENDING_THRESHOLD, PENDING_TARGET, SHARED_FLOOR,
        POLICY_GRACE, CLAIM_HISTORY, KEEPER_SELECTS, MAX_TTL, MIN_TTL} \subseteq Nat
    /\ MIN_TTL \in 1 .. MAX_TTL
    /\ USER_THRESHOLD <= USER_TARGET /\ USER_TARGET < KEEPER_THRESHOLD
    /\ KEEPER_THRESHOLD <= KEEPER_TARGET /\ PENDING_THRESHOLD <= PENDING_TARGET

(* A pass comes round before anything it leaves alone, or has just         *)
(* extended, runs out.                                                     *)
ASSUME KeeperKeepsUp ==
    \A n \in {MIN_TTL, KEEPER_SELECTS, KEEPER_THRESHOLD, PENDING_THRESHOLD, MAX_TTL - DAY_LEDGERS,
              SHARED_FLOOR - DAY_LEDGERS} : MaxLapse <= n

VARIABLES
    now,
    live,       \* existing entry -> last ledger it lives through
    policies,   \* [status, sold, start, end] of each policy, in the order of ids
    debts,      \* id of a claimed policy -> [adapter, status]
    bound,      \* the adapter PayoutReceiver records in
    lastPass,   \* when the last full pass of the keeper job began
    stage,      \* the part of its pass the job is in
    began,      \* when that pass began
    todo        \* the calls left in this part

jobVars == <<lastPass, stage, began, todo>>
rentVars == <<now, live, policies, debts, bound, jobVars>>

Contracts == {"PolicyManager", "PolicyNft", "PayoutReceiver"} \cup Adapters

ContractKeys(c) == {"Instance", "Code"} \X {c}
CertificateKeys(id) == {"Certificate", "PolicyToToken", "Owner"} \X {id}
SettledKeys(id) == {"PolicyPaid", "Report"} \X {id}
DebtKeys(id) == {"Obligation", "ObligationOf", "OrgObligationAt"} \X {id}
ClaimTimes == <<"FarmerClaimTimes", "farmer">>
(* The per-farmer and per-org entries PolicyManager's keeper extends.      *)
SharedKeys ==
    {<<"FarmerActiveCount", "farmer">>, <<"FarmerPendingCount", "farmer">>,
     <<"FarmerPolicyCount", "farmer">>, <<"OrgOutstanding", "org">>}

-----------------------------------------------------------------------------
(* ttl.rs.  A call is a function from the entries it writes or extends to  *)
(* the rule [threshold, target] it extends them by.                        *)

Least(a, b) == IF a <= b THEN a ELSE b
Greatest(a, b) == IF a >= b THEN a ELSE b

Rule(keys, threshold, target) ==
    [k \in keys |-> [threshold |-> Least(threshold, MAX_TTL),
                     target |-> Least(target, MAX_TTL)]]

(* Both calls in one transaction; what both extend, f does first.          *)
f ++ g == [k \in DOMAIN f \cup DOMAIN g |-> IF k \in DOMAIN f THEN f[k] ELSE g[k]]

touch_contract(c) == Rule(ContractKeys(c), USER_THRESHOLD, USER_TARGET)

(* keep_contract_alive of one's own, keep_other_contract_alive of another. *)
keep_contract_alive(c) == Rule(ContractKeys(c), KEEPER_THRESHOLD, KEEPER_TARGET)

ledgers_until(t) == IF t <= now THEN 0 ELSE Least(t - now, MAX_TTL)

(* Threshold one day under the target; n = 0 extends nothing.              *)
extend_to(keys, n) ==
    LET m == Least(n, MAX_TTL) IN Rule(keys, Greatest(m - DAY_LEDGERS, 0), m)

extend_for_policy(keys, end) == extend_to(keys, ledgers_until(end + POLICY_GRACE))

extend_pending(keys) == Rule(keys, PENDING_THRESHOLD, PENDING_TARGET)

extend_shared(keys, end) ==
    extend_to(keys, Greatest(ledgers_until(end + POLICY_GRACE), SHARED_FLOOR))

extend_shared_no_policy(keys) == extend_to(keys, SHARED_FLOOR)

extend_for_secs(keys, secs) ==
    extend_to(keys, Greatest(ledgers_until(now + secs), SHARED_FLOOR))

-----------------------------------------------------------------------------
(* The host.  A new entry, and one restored from the archive, has the      *)
(* network minimum left.                                                   *)

Alive(k) == k \in DOMAIN live /\ live[k] >= now

extend_ttl(k, rule) ==
    LET until == IF Alive(k) THEN live[k] ELSE now + MIN_TTL IN
    IF until - now <= rule.threshold THEN Greatest(until, now + rule.target) ELSE until

(* One transaction writes or extends the entries of a call and removes     *)
(* some.                                                                   *)
Apply(call, removed) ==
    live' = [k \in (DOMAIN live \cup DOMAIN call) \ removed |->
                IF k \in DOMAIN call THEN extend_ttl(k, call[k]) ELSE live[k]]

Existing(keys) == keys \cap DOMAIN live

(* Read and not extended: only restored when archived.                     *)
Unextended == [threshold |-> 0, target |-> 0]
Read(keys) == [k \in Existing(keys) |-> Unextended]

-----------------------------------------------------------------------------
(* What the operations extend.                                             *)

(* The Policy entry of open cover lives with its end; of closed cover, as  *)
(* long as it has.  The rule with target 0 extends nothing.                *)
bump_policy(id, p) ==
    IF p.status \in {"Pending", "Active"}
    THEN extend_for_policy({<<"Policy", id>>}, p.end)
    ELSE extend_to({<<"Policy", id>>}, 0)

create_policy(duration) ==
    LET id == Len(policies) + 1
        p == [status |-> "Pending", sold |-> now, start |-> now, end |-> now + duration]
    IN
    /\ policies' = Append(policies, p)
    /\ Apply(bump_policy(id, p)
             ++ extend_for_policy({"FarmerPolicyAt", "PendingCounted"} \X {id}, p.end)
             ++ extend_shared({<<"FarmerPolicyCount", "farmer">>, <<"OrgOutstanding", "org">>,
                               <<"FarmerPendingCount", "farmer">>}, p.end)
             ++ Read({<<"FarmerActiveCount", "farmer">>, ClaimTimes})
             ++ touch_contract("PolicyManager"), {})
    /\ UNCHANGED <<now, debts, bound, jobVars>>

mint_policy_NoOwner(id, end) ==        \* mutant: the token has no owner entry
    extend_for_policy({"Certificate", "PolicyToToken", "DistributorPolicy"} \X {id}, end)
    ++ extend_shared({<<"DistributorCount", "distributor">>}, end)
    ++ touch_contract("PolicyNft")

mint_policy(id, end) ==
    extend_for_policy(CertificateKeys(id) \cup {<<"DistributorPolicy", id>>}, end)
    ++ extend_shared({<<"DistributorCount", "distributor">>}, end)
    ++ touch_contract("PolicyNft")

activate_policy(id) ==
    LET old == policies[id]
        p == [old EXCEPT !.status = "Active", !.start = now,
                         !.end = now + (old.end - old.start)]
    IN
    /\ old.status = "Pending" /\ now <= old.end
    /\ policies' = [policies EXCEPT ![id] = p]
    /\ Apply(bump_policy(id, p) ++ extend_shared(SharedKeys, p.end) ++ mint_policy(id, p.end)
             ++ touch_contract("PolicyManager"), {<<"PendingCounted", id>>})
    /\ UNCHANGED <<now, debts, bound, jobVars>>

update_policy_status(id) ==
    extend_for_policy({<<"Certificate", id>>}, policies[id].end)
    ++ Read({<<"PolicyToToken", id>>}) ++ touch_contract("PolicyNft")

(* Leaving ACTIVE releases the slot and the exposure and deactivates the   *)
(* certificate; load_policy extended the policy while it was open.         *)
LeaveActive(id) ==
    bump_policy(id, policies[id])
    ++ extend_shared({<<"FarmerActiveCount", "farmer">>, <<"OrgOutstanding", "org">>},
                     policies[id].end)
    ++ update_policy_status(id) ++ touch_contract("PolicyManager")

LeavePending(id) ==
    bump_policy(id, policies[id])
    ++ extend_shared({<<"FarmerPendingCount", "farmer">>, <<"OrgOutstanding", "org">>},
                     policies[id].end)
    ++ touch_contract("PolicyManager")

extend_entries_NoLookup(id, a) ==      \* mutant: ObligationOf is not extended
    extend_pending({<<"Obligation", id>>, <<"OrgObligationAt", id>>})
    ++ extend_to({<<"ObligationOf", id>>}, 0)
    ++ extend_shared_no_policy({<<"OrgObligationCount", a>>})

(* Every entry of the debt: itself, its lookup, its place in the org's     *)
(* index and the org's count.                                              *)
extend_entries(id, a) ==
    extend_pending(DebtKeys(id)) ++ extend_shared_no_policy({<<"OrgObligationCount", a>>})

settle_verified(id) ==
    LET p == policies[id] IN
    /\ p.status = "Active" /\ now <= p.end
    /\ policies' = [policies EXCEPT ![id].status = "Claimed"]
    /\ debts' = debts ++ [i \in {id} |-> [adapter |-> bound, status |-> "Owed"]]
    /\ Apply(touch_contract("PayoutReceiver") ++ extend_for_policy(SettledKeys(id), p.end)
             ++ touch_contract(bound) ++ extend_entries(id, bound) ++ LeaveActive(id)
             ++ extend_for_secs({ClaimTimes}, CLAIM_HISTORY), {})
    /\ UNCHANGED <<now, bound, jobVars>>

(* cancel_policy at any time, expire_policy after the end.                 *)
ClosePolicy(id, status) ==
    /\ policies[id].status \in {"Pending", "Active"}
    /\ status = "Expired" => now > policies[id].end
    /\ policies' = [policies EXCEPT ![id].status = status]
    /\ IF policies[id].status = "Active"
       THEN Apply(LeaveActive(id), {})
       ELSE Apply(LeavePending(id), {<<"PendingCounted", id>>})
    /\ UNCHANGED <<now, debts, bound, jobVars>>

(* mark_funded and mark_settled.                                           *)
MarkDebt(id, status) ==
    /\ <<debts[id].status, status>> \in
           {<<"Owed", "Funded">>, <<"Owed", "Settled">>, <<"Funded", "Settled">>}
    /\ debts' = [debts EXCEPT ![id].status = status]
    /\ Apply(touch_contract(debts[id].adapter) ++ extend_entries(id, debts[id].adapter), {})
    /\ UNCHANGED <<now, policies, bound, jobVars>>

Deployed(c) == ContractKeys(c) \subseteq DOMAIN live

(* The swap of the runbook: an adapter deployed for it is bound to the     *)
(* receiver (set_payout_receiver and grant_role touch it), then the        *)
(* receiver, which touches itself, to the adapter.                         *)
set_settlement_adapter(a) ==
    /\ ~Deployed(a)
    /\ bound' = a
    /\ Apply(touch_contract(a) ++ touch_contract("PayoutReceiver"), {})
    /\ UNCHANGED <<now, policies, debts, jobVars>>

(* The contract now runs from a code entry of its own, uploaded for it.    *)
upgrade(c) ==
    /\ Deployed(c)
    /\ live' = [live EXCEPT ![<<"Code", c>>] = now + MIN_TTL,
                            ![<<"Instance", c>>] = extend_ttl(<<"Instance", c>>, Unextended)]
    /\ UNCHANGED <<now, policies, debts, bound, jobVars>>

-----------------------------------------------------------------------------
(* The permissionless keepers.                                             *)

PmExtendContractTtl ==
    keep_contract_alive("PolicyManager") ++ keep_contract_alive("PolicyNft")

PrExtendContractTtl_NoAdapter ==       \* mutant: the adapter is not reached
    keep_contract_alive("PayoutReceiver") ++ PmExtendContractTtl

PrExtendContractTtl ==
    keep_contract_alive("PayoutReceiver") ++ keep_contract_alive(bound) ++ PmExtendContractTtl

(* A Settled debt is left to archive.                                      *)
extend_obligation_ttl(id) ==
    touch_contract(debts[id].adapter)
    ++ IF debts[id].status = "Settled" THEN << >>
       ELSE extend_entries(id, debts[id].adapter)

NftExtendPolicyTtl(id) ==
    touch_contract("PolicyNft")
    ++ extend_for_policy(Existing(CertificateKeys(id)), policies[id].end)

PmExtendPolicyTtl_OwnOnly(id) ==       \* mutant: the shared entries are left out
    extend_for_policy({<<"Policy", id>>} \cup Existing({<<"PendingCounted", id>>}),
                      policies[id].end)
    ++ touch_contract("PolicyManager") ++ NftExtendPolicyTtl(id)

PmExtendPolicyTtl(id) ==
    extend_for_policy({<<"Policy", id>>} \cup Existing({<<"PendingCounted", id>>}),
                      policies[id].end)
    ++ extend_shared(Existing(SharedKeys), policies[id].end)
    ++ extend_for_secs(Existing({ClaimTimes}), CLAIM_HISTORY)
    ++ touch_contract("PolicyManager") ++ NftExtendPolicyTtl(id)

(* find_obligation asks the bound adapter, which knows only its own debts. *)
PrExtendPolicyTtl(id) ==
    touch_contract("PayoutReceiver")
    ++ extend_for_policy(Existing(SettledKeys(id)), policies[id].end)
    ++ (IF id \in DOMAIN debts /\ debts[id].adapter = bound
        THEN extend_obligation_ttl(id) ELSE << >>)
    ++ PmExtendPolicyTtl(id)

-----------------------------------------------------------------------------
(* The backend's keeper job (docs/DEPLOYMENT_RUNBOOK.md, "Storage rent"):  *)
(* step 1 for the contracts, step 2 for every open policy and every policy *)
(* with an open debt that runs low, step 3 for replaced adapters.          *)

OpenPolicies == {id \in DOMAIN policies : policies[id].status \in {"Pending", "Active"}}
OpenDebts == {id \in DOMAIN debts : debts[id].status # "Settled"}
ReplacedAdapters == {debts[id].adapter : id \in OpenDebts} \ {bound}

RunsLow(keys) == \E k \in Existing(keys) : live[k] - now < KEEPER_SELECTS

OwnEntries(id) ==
    ({"Policy", "PendingCounted"} \X {id}) \cup CertificateKeys(id) \cup SettledKeys(id)

FarmerAndOrgEntries == SharedKeys \cup {ClaimTimes}

DuePolicies ==
    {id \in OpenPolicies \cup OpenDebts :
        \/ RunsLow(OwnEntries(id) \cup FarmerAndOrgEntries)
        \/ id \in OpenDebts /\ RunsLow(DebtKeys(id) \cup {<<"OrgObligationCount", debts[id].adapter>>})}

(* A pass starts with step 1 and lists the policies of step 2.             *)
KeeperStarts ==
    /\ stage = "idle" /\ now > lastPass
    /\ Apply(PrExtendContractTtl, {})
    /\ stage' = "policies" /\ began' = now /\ todo' = {"policy"} \X DuePolicies
    /\ UNCHANGED <<now, policies, debts, bound, lastPass>>

(* The calls of step 2 done, it lists those of step 3.                     *)
KeeperTurns ==
    /\ stage = "policies" /\ todo = {}
    /\ stage' = "replaced"
    /\ todo' = ({"adapter"} \X ReplacedAdapters)
               \cup ({"debt"} \X {id \in OpenDebts : debts[id].adapter # bound})
    /\ UNCHANGED <<now, live, policies, debts, bound, lastPass, began>>

(* One call; users, and other jobs, may come between two of them.          *)
KeeperCalls ==
    /\ \E task \in todo :
          /\ \/ task[1] = "policy" /\ Apply(PrExtendPolicyTtl(task[2]), {})
             \/ task[1] = "adapter" /\ Apply(keep_contract_alive(task[2]), {})
             \/ task[1] = "debt" /\ Apply(extend_obligation_ttl(task[2]), {})
          /\ todo' = todo \ {task}
    /\ UNCHANGED <<now, policies, debts, bound, lastPass, stage, began>>

KeeperEnds ==
    /\ stage = "replaced" /\ todo = {}
    /\ stage' = "idle" /\ lastPass' = began
    /\ UNCHANGED <<now, live, policies, debts, bound, began, todo>>

LedgersClose ==
    /\ now < MaxNow
    /\ now - lastPass < MaxLapse
    /\ now' = now + 1
    /\ UNCHANGED <<live, policies, debts, bound, jobVars>>

(* deploy.sh ends with one call of the contract keeper.                    *)
Init ==
    /\ now = 0
    /\ live = [k \in UNION {ContractKeys(c) : c \in Contracts \ (Adapters \ {FirstAdapter})}
                |-> Least(KEEPER_TARGET, MAX_TTL)]
    /\ policies = << >>
    /\ debts = << >>
    /\ bound = FirstAdapter
    /\ lastPass = 0 /\ stage = "idle" /\ began = 0 /\ todo = {}

(* Bound: what a behaviour has to keep alive.                              *)
WithinLoad ==
    Len(policies) + Cardinality({a \in Adapters \ {FirstAdapter} : Deployed(a)}) < MaxLoad

UserCall ==
    \/ \E d \in Durations : WithinLoad /\ create_policy(d)
    \/ \E id \in DOMAIN policies :
          \/ activate_policy(id)
          \/ settle_verified(id)
          \/ \E s \in {"Cancelled", "Expired"} : ClosePolicy(id, s)
    \/ \E id \in DOMAIN debts, s \in {"Funded", "Settled"} : MarkDebt(id, s)

Next ==
    \/ UserCall
    \/ \E a \in Adapters : WithinLoad /\ set_settlement_adapter(a)
    \/ \E c \in Upgrades : upgrade(c)
    \/ KeeperStarts \/ KeeperTurns \/ KeeperCalls \/ KeeperEnds
    \/ LedgersClose

Spec == Init /\ [][Next]_rentVars

-----------------------------------------------------------------------------
(* Properties.                                                             *)

(* An entry exists exactly as long as the state it belongs to: a marker    *)
(* while the policy is PENDING, a certificate once it was activated, the   *)
(* receiver's and the adapter's entries once it was claimed.               *)
RentTypeOK ==
    /\ now \in 0 .. MaxNow
    /\ \A k \in DOMAIN live : live[k] \in 0 .. MaxNow + MAX_TTL
    /\ \A id \in DOMAIN policies :
          /\ {<<"Policy", id>>, <<"FarmerPolicyAt", id>>} \subseteq DOMAIN live
          /\ <<"PendingCounted", id>> \in DOMAIN live <=> policies[id].status = "Pending"
          /\ policies[id].status \in {"Active", "Claimed"} =>
                 CertificateKeys(id) \subseteq DOMAIN live
          /\ policies[id].status = "Claimed" <=> id \in DOMAIN debts
          /\ id \in DOMAIN debts => SettledKeys(id) \cup DebtKeys(id) \subseteq DOMAIN live

(* The code and instance of every contract in use, also of an adapter that *)
(* was replaced while a debt in it is open, never archive: not even the    *)
(* fresh code of an upgrade, which starts at the network minimum.          *)
ContractsStayLive ==
    \A c \in {"PolicyManager", "PolicyNft", "PayoutReceiver", bound} \cup ReplacedAdapters :
        \A k \in ContractKeys(c) : Alive(k)

(* When a policy needs its entries: until a day short of its end plus the  *)
(* grace, the slack extend_to leaves.                                      *)
InNeed(id) == id \in OpenPolicies /\ now <= policies[id].end + POLICY_GRACE - DAY_LEDGERS

(* Nothing that activation, claim, cancellation or expiry of an open       *)
(* policy reads is archived, though the network caps every extension below *)
(* the term of the cover and activation moves its end: its own entries     *)
(* from the sale on, those shared with other policies from the first       *)
(* keeper pass after it.                                                   *)
OpenPolicyStaysLive ==
    \A id \in DOMAIN policies :
        InNeed(id) =>
            /\ \A k \in Existing(OwnEntries(id)) : Alive(k)
            /\ policies[id].sold < lastPass => \A k \in Existing(FarmerAndOrgEntries) : Alive(k)

(* An open debt stays readable and findable for as long as it is unpaid:   *)
(* past the end of its policy, whose own entries are left to archive, and  *)
(* in an adapter the receiver no longer points to.                         *)
OpenDebtStaysLive ==
    \A id \in OpenDebts :
        \A k \in DebtKeys(id) \cup {<<"OrgObligationCount", debts[id].adapter>>} : Alive(k)
=============================================================================
