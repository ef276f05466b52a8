---------------------------- MODULE SorobanHost ----------------------------
(***************************************************************************)
(* What every MicroCrop contract takes from the Soroban host and from      *)
(* crates/shared: the ledger clock, keyed storage, and the role registry   *)
(* that replaces OpenZeppelin's AccessControl.                             *)
(*                                                                         *)
(* A contract call is one atomic step: a panic anywhere in it, including   *)
(* in a contract it calls, undoes every write, so a call that reverts is   *)
(* simply not a step.  The time to live of storage entries is not modelled *)
(* here: an archived entry makes the call that reads it trap, it never     *)
(* reads as absent, so it removes steps and adds none.                     *)
(***************************************************************************)
EXTENDS Integers, Sequences, FiniteSets

CONSTANTS
    None,       \* an unset Option<..>
    Admin,      \* the account every constructor makes administrator
    Accounts,   \* the accounts that can sign a call of their own
    Orgs,       \* the organisations that back the cover and owe its payouts
    MaxTime     \* bound: the clock stops here

ASSUME HostAssumption ==
    /\ Admin \in Accounts
    /\ None \notin Accounts
    /\ MaxTime \in Nat

VARIABLE now    \* env.ledger().timestamp()

Roles == {"Admin", "Backend", "Oracle", "Relayer", "Upgrader", "Minter", "Funder"}

(* The host closes ledgers; time never goes back.                          *)
Tick == now < MaxTime /\ now' = now + 1

(* storage().set(key, value) on a map of keyed entries.                    *)
Put(store, key, value) ==
    [k \in DOMAIN store \cup {key} |-> IF k = key THEN value ELSE store[k]]

(* What an index of ids, kept as numbered entries, lists.                  *)
Elements(ids) == {ids[i] : i \in DOMAIN ids}

-----------------------------------------------------------------------------
(* The role registry: a set of (role, holder) pairs per contract.  The     *)
(* caller's require_auth is in who may make a step: an account makes calls *)
(* in its own name, a contract only those its code makes.                  *)

has_role(registry, role, who) == <<role, who>> \in registry

with_role(registry, role, who) == registry \cup {<<role, who>>}

without_role(registry, role, who) == registry \ {<<role, who>>}
=============================================================================
