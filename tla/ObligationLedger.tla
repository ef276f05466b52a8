-------------------------- MODULE ObligationLedger --------------------------
(***************************************************************************)
(* What a SettlementAdapter promises: per claim (a receiver's policy) at   *)
(* most one debt, whose debtor, amount and evidence never change, and at   *)
(* most one funding and one settlement attestation, in that order.         *)
(***************************************************************************)
EXTENDS Integers

VARIABLE ledger     \* claim -> [debt, funding, settlement]; an attestation is a
                    \* set, empty until it is made

Init == ledger = [claim \in {} |-> {}]

Record(claim) ==
    /\ claim \notin DOMAIN ledger
    /\ DOMAIN ledger' = DOMAIN ledger \cup {claim}
    /\ ledger'[claim].debt.amount > 0
    /\ ledger'[claim].funding = {}
    /\ ledger'[claim].settlement = {}
    /\ \A c \in DOMAIN ledger : ledger'[c] = ledger[c]

(* One attestation of one claim is made; everything else stays.            *)
Attest(claim, part) ==
    /\ ledger[claim][part] = {}
    /\ ledger'[claim][part] # {}
    /\ ledger' = [ledger EXCEPT ![claim][part] = ledger'[claim][part]]

Fund(claim) == ledger[claim].settlement = {} /\ Attest(claim, "funding")

Settle(claim) == Attest(claim, "settlement")

Next ==
    \/ \E claim \in DOMAIN ledger' : Record(claim)
    \/ \E claim \in DOMAIN ledger : Fund(claim) \/ Settle(claim)

Spec == Init /\ [][Next]_ledger
=============================================================================
