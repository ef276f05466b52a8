---------------------------- MODULE MCRegisters ----------------------------
(***************************************************************************)
(* The two registers on their own: PolicyNft with accounts in the minter's *)
(* and the manager's place, SettlementAdapter facing unconstrained         *)
(* receivers, so that the interface of each is exercised in any order.     *)
(* They share no state, so a behaviour exercises one of them and leaves    *)
(* the other at rest.                                                      *)
(***************************************************************************)
EXTENDS PolicyNft, SettlementAdapter, TLC

CONSTANTS admin, operator, alice, bob, coop, nftA,
          receiver1, receiver2, adapterA, org1, org2, ref1, ref2

VARIABLE exercised

registerVars == <<exercised, now, nftVars, saVars>>

MCMinterGrant == {<<"Minter", operator>>}
MCFunderGrant == {<<"Funder", operator>>}
MCNftWiring == [grants |-> MCMinterGrant, manager |-> None]
MCSaWiring == [a \in Adapters |-> [grants |-> MCFunderGrant, receiver |-> None]]
MCRefSymmetry == Permutations(References)

Mint(f, id, d) ==
    [farmer |-> f, id |-> id, distributor |-> d, sum_insured |-> 1,
     start_date |-> 0, end_date |-> 1]

(* Id 0 is refused; id 2 is asked for by two distributors.                 *)
MCMints == {Mint(alice, 1, coop), Mint(alice, 2, coop), Mint(bob, 2, operator),
            Mint(bob, 0, coop)}

Claim(id, o, amount, digest) ==
    [policy_id |-> id, org |-> o, amount |-> amount, digest |-> digest]

(* Two claims, a conflict on each term of the first, and a zero amount.    *)
MCClaims ==
    {Claim(1, org1, 1, "d1"), Claim(1, org2, 1, "d1"), Claim(1, org1, 2, "d1"),
     Claim(1, org1, 1, "d2"), Claim(2, org1, 1, "d3"), Claim(2, org1, 0, "d3")}

RegistersInit == exercised \in {"certificates", "debts"} /\ NftAloneInit /\ SaInit

RegistersNext ==
    \/ exercised = "certificates" /\ NftNext /\ UNCHANGED <<exercised, saVars>>
    \/ exercised = "debts" /\ LedgerNext /\ UNCHANGED <<exercised, nftVars>>

RegistersSpec == RegistersInit /\ [][RegistersNext]_registerVars
=============================================================================
