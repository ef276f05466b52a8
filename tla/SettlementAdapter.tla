------------------------- MODULE SettlementAdapter -------------------------
(***************************************************************************)
(* The obligation register (crates/settlement-adapter): what an org owes   *)
(* for each settled policy, and the paying agent's attestations that it    *)
(* was funded and settled.  Every deployed adapter at once, indexed by     *)
(* address, because a PayoutReceiver can be moved to another one.          *)
(***************************************************************************)
EXTENDS SorobanHost

CONSTANTS
    Adapters,       \* the deployed SettlementAdapter contracts
    Receivers,      \* the deployed PayoutReceiver contracts
    References,     \* reference hashes an attestation may carry
    ZeroReference,  \* the all-zero hash
    SaGrants,       \* <<role, holder>> pairs the admin may grant and revoke
    SaWiring        \* what the deployment left: adapter -> [grants, receiver]

ASSUME SaAssumption ==
    /\ Receivers \cap Accounts = {}
    /\ Receivers \cap Adapters = {}
    /\ None \notin Receivers \cup References \cup {ZeroReference}
    /\ \A a \in Adapters : SaWiring[a].receiver \in Receivers \cup {None}

VARIABLES
    saRoles,            \* adapter -> role registry
    saPayoutReceiver,   \* adapter -> the receiver it accepts obligations from
    nextObligationId,   \* adapter -> id
    obligations,        \* adapter -> id -> Obligation
    obligationOf,       \* adapter -> <<receiver, policy id>> -> id
    orgObligations      \* adapter -> org -> ids, oldest first

recordVars == <<nextObligationId, obligations, obligationOf, orgObligations>>
saVars == <<saRoles, saPayoutReceiver, recordVars>>

SaInit ==
    /\ saRoles = [a \in Adapters |->
                     {<<"Admin", Admin>>, <<"Upgrader", Admin>>} \cup SaWiring[a].grants]
    /\ saPayoutReceiver = [a \in Adapters |-> SaWiring[a].receiver]
    /\ nextObligationId = [a \in Adapters |-> 1]
    /\ obligations = [a \in Adapters |-> [id \in {} |-> None]]
    /\ obligationOf = [a \in Adapters |-> [claim \in {} |-> None]]
    /\ orgObligations = [a \in Adapters |-> [o \in Orgs |-> << >>]]

-----------------------------------------------------------------------------
(* A repeated call with the same terms changes nothing; with other terms   *)
(* it is refused.                                                          *)
SameObligation(ob, org, amount, digest) ==
    ob.org = org /\ ob.amount = amount /\ ob.determination_digest = digest

ObligationKey_PolicyOnly(caller, policyId) ==  \* mutant: receivers share a key
    <<None, policyId>>

ObligationKey(caller, policyId) == <<caller, policyId>>

MayRecord_Zero(a, caller, amount) ==           \* mutant: InvalidAmount is dropped
    saPayoutReceiver[a] = caller

MayRecord(a, caller, amount) == saPayoutReceiver[a] = caller /\ amount > 0

NextOrgIndex_OffByOne(a, org) ==               \* mutant: the new count is stored
    Len(orgObligations[a][org]) + 1

NextOrgIndex(a, org) == Len(orgObligations[a][org])

record_obligation(a, caller, policyId, org, amount, digest) ==
    LET claim == ObligationKey(caller, policyId)
        id == nextObligationId[a]
    IN
    /\ MayRecord(a, caller, amount)
    /\ \/ /\ claim \in DOMAIN obligationOf[a]
          /\ SameObligation(obligations[a][obligationOf[a][claim]], org, amount, digest)
          /\ UNCHANGED recordVars
       \/ /\ claim \notin DOMAIN obligationOf[a]
          /\ nextObligationId' = [nextObligationId EXCEPT ![a] = id + 1]
          /\ obligations' = [obligations EXCEPT ![a] = Put(@, id,
                 [payout_receiver |-> caller, policy_id |-> policyId, org |-> org,
                  amount |-> amount, determination_digest |-> digest,
                  status |-> "Owed", recorded_at |-> now,
                  org_index |-> NextOrgIndex(a, org),
                  funded_by |-> None, funded_at |-> 0, funding_reference |-> None,
                  settled_by |-> None, settled_at |-> 0, settlement_reference |-> None])]
          /\ obligationOf' = [obligationOf EXCEPT ![a] = Put(@, claim, id)]
          /\ orgObligations' = [orgObligations EXCEPT ![a][org] = Append(@, id)]
    /\ UNCHANGED <<saRoles, saPayoutReceiver>>

(* What record_obligation hands back to the receiver that called it.       *)
RecordedObligation(a, caller, policyId) ==
    obligations'[a][obligationOf'[a][ObligationKey(caller, policyId)]]

begin_mark(a, caller, id, reference) ==
    /\ reference # ZeroReference
    /\ has_role(saRoles[a], "Funder", caller)
    /\ id \in DOMAIN obligations[a]

Fundable_Again(ob) == ob.status # "Settled"    \* mutant: a funded one is overwritten

Fundable(ob) == ob.status = "Owed"

(* Repeating a mark with its own reference is the no-op of both marks.     *)
mark_funded(a, caller, id, reference) ==
    /\ begin_mark(a, caller, id, reference)
    /\ Fundable(obligations[a][id])
    /\ obligations' = [obligations EXCEPT ![a][id] =
           [@ EXCEPT !.status = "Funded", !.funded_by = caller,
                     !.funded_at = now, !.funding_reference = reference]]
    /\ UNCHANGED <<saRoles, saPayoutReceiver, nextObligationId, obligationOf,
                   orgObligations>>

(* Funding may be implicit.                                                *)
mark_settled(a, caller, id, reference) ==
    /\ begin_mark(a, caller, id, reference)
    /\ obligations[a][id].status \in {"Owed", "Funded"}
    /\ obligations' = [obligations EXCEPT ![a][id] =
           [@ EXCEPT !.status = "Settled", !.settled_by = caller,
                     !.settled_at = now, !.settlement_reference = reference]]
    /\ UNCHANGED <<saRoles, saPayoutReceiver, nextObligationId, obligationOf,
                   orgObligations>>

(* The code takes any address but the adapter's own.  Receivers stand for  *)
(* it here: the address bound is always a PayoutReceiver contract.         *)
set_payout_receiver(a, caller, receiver) ==
    /\ has_role(saRoles[a], "Admin", caller)
    /\ receiver # a
    /\ saPayoutReceiver' = [saPayoutReceiver EXCEPT ![a] = receiver]
    /\ UNCHANGED <<saRoles, recordVars>>

sa_grant_role(a, caller, role, who) ==
    /\ has_role(saRoles[a], "Admin", caller)
    /\ saRoles' = [saRoles EXCEPT ![a] = with_role(@, role, who)]
    /\ UNCHANGED <<saPayoutReceiver, recordVars>>

sa_revoke_role(a, caller, role, who) ==
    /\ has_role(saRoles[a], "Admin", caller)
    /\ saRoles' = [saRoles EXCEPT ![a] = without_role(@, role, who)]
    /\ UNCHANGED <<saPayoutReceiver, recordVars>>

(* The calls accounts make; record_obligation is only ever a receiver's.   *)
SaStep ==
    \E a \in Adapters, caller \in Accounts :
        \/ \E id \in DOMAIN obligations[a], ref \in References \cup {ZeroReference} :
              mark_funded(a, caller, id, ref) \/ mark_settled(a, caller, id, ref)
        \/ \E r \in Receivers \cup {a} : set_payout_receiver(a, caller, r)
        \/ \E g \in SaGrants : sa_grant_role(a, caller, g[1], g[2])
        \/ \E g \in SaGrants : sa_revoke_role(a, caller, g[1], g[2])

-----------------------------------------------------------------------------
(* The adapters against receivers that may ask for anything, any number of *)
(* times: what the adapter guarantees without trusting its caller.         *)
CONSTANTS
    Claims,         \* [policy_id, org, amount, digest] a receiver may submit
    MaxObligations  \* bound: receivers record no more than this many in an adapter

(* org is an Address, amount an i128.                                      *)
ASSUME ClaimsAssumption == \A c \in Claims : c.org \in Orgs /\ c.amount \in Int

LedgerInit == now = 0 /\ SaInit

LedgerNext ==
    \/ SaStep /\ UNCHANGED now
    \/ /\ \E a \in Adapters, r \in Receivers, c \in Claims :
             /\ record_obligation(a, r, c.policy_id, c.org, c.amount, c.digest)
             /\ nextObligationId'[a] <= MaxObligations + 1
       /\ UNCHANGED now
    \/ Tick /\ UNCHANGED saVars

LedgerSpec == LedgerInit /\ [][LedgerNext]_<<now, saVars>>

-----------------------------------------------------------------------------
(* Properties.                                                             *)

ObligationFields ==
    {"payout_receiver", "policy_id", "org", "amount", "determination_digest", "status",
     "recorded_at", "org_index", "funded_by", "funded_at", "funding_reference",
     "settled_by", "settled_at", "settlement_reference"}

(* A stored obligation is complete, and it carries exactly the             *)
(* attestations its status says were made.                                 *)
ObligationOK(ob) ==
    /\ DOMAIN ob = ObligationFields
    /\ ob.payout_receiver \in Receivers
    /\ ob.org \in Orgs
    /\ ob.amount \in Nat \ {0}
    /\ ob.status \in {"Owed", "Funded", "Settled"}
    /\ ob.org_index \in Nat
    /\ ob.recorded_at \in 0 .. now
    /\ ob.funded_by \in Accounts \cup {None}
    /\ ob.settled_by \in Accounts \cup {None}
    /\ ob.status = "Settled" <=> ob.settled_by # None
    /\ ob.status = "Owed" => ob.funded_by = None
    /\ ob.status = "Funded" => ob.funded_by # None

(* Ids are dense from 1, and every obligation stored under one is complete *)
(* and attested as its status says.                                        *)
SaTypeOK ==
    /\ now \in Nat
    /\ saPayoutReceiver \in [Adapters -> Receivers \cup {None}]
    /\ nextObligationId \in [Adapters -> Nat \ {0}]
    /\ orgObligations \in [Adapters -> [Orgs -> Seq(Nat)]]
    /\ DOMAIN obligations = Adapters /\ DOMAIN obligationOf = Adapters
    /\ \A a \in Adapters :
          /\ DOMAIN obligations[a] = 1 .. nextObligationId[a] - 1
          /\ \A id \in DOMAIN obligations[a] : ObligationOK(obligations[a][id])

(* A receiver's policy has at most one obligation, and find_obligation     *)
(* leads to it and to nothing else, across receiver rotations and repeats. *)
LookupExact ==
    \A a \in Adapters :
        /\ \A claim \in DOMAIN obligationOf[a] :
              /\ obligationOf[a][claim] \in DOMAIN obligations[a]
              /\ LET ob == obligations[a][obligationOf[a][claim]]
                 IN  claim = <<ob.payout_receiver, ob.policy_id>>
        /\ \A id \in DOMAIN obligations[a] :
              LET claim == <<obligations[a][id].payout_receiver, obligations[a][id].policy_id>>
              IN  claim \in DOMAIN obligationOf[a] /\ obligationOf[a][claim] = id

(* The org's index lists exactly its obligations, and each obligation      *)
(* knows its place there: the keeper extends the index entry by it.        *)
OrgIndexExact ==
    \A a \in Adapters : \A o \in Orgs :
        LET ids == orgObligations[a][o] IN
        /\ \A i \in DOMAIN ids :
              /\ ids[i] \in DOMAIN obligations[a]
              /\ obligations[a][ids[i]].org = o
              /\ obligations[a][ids[i]].org_index = i - 1
        /\ \A id \in DOMAIN obligations[a] :
              obligations[a][id].org = o =>
                  /\ obligations[a][id].org_index + 1 \in DOMAIN ids
                  /\ ids[obligations[a][id].org_index + 1] = id

Attestation(by, at, reference) == IF by = None THEN {} ELSE {<<by, at, reference>>}

LedgerEntry(ob) ==
    [debt |-> [org |-> ob.org, amount |-> ob.amount,
               digest |-> ob.determination_digest, at |-> ob.recorded_at],
     funding |-> Attestation(ob.funded_by, ob.funded_at, ob.funding_reference),
     settlement |-> Attestation(ob.settled_by, ob.settled_at, ob.settlement_reference)]

AllClaims == UNION {{<<a, c[1], c[2]>> : c \in DOMAIN obligationOf[a]} : a \in Adapters}

LedgerOfObligations ==
    [claim \in AllClaims |->
        LedgerEntry(obligations[claim[1]][obligationOf[claim[1]][<<claim[2], claim[3]>>]])]

Ledger == INSTANCE ObligationLedger WITH ledger <- LedgerOfObligations

(* The adapters implement the abstract ledger: a debt never changes once   *)
(* recorded, and no attestation is ever replaced or made out of order.     *)
ImplementsLedger == Ledger!Spec
=============================================================================
