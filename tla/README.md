# MicroCrop on Soroban: verification project

TLA+ models of the MicroCrop crop-insurance contracts (`crates/`), TLC runs that
check them on small instances, and theorems checked by TLAPS.

## 1. Inventory of the system

Four Soroban contracts, each with its own storage, driven by accounts that hold
roles (admin, backend, relayer, paying agent) and by an off-chain signer whose
secp256k1 key is the only authority for a payout. A contract call is one atomic
transaction: a panic anywhere in it, also in a contract it calls, undoes all its
writes.

| component | state | operations | calls |
|---|---|---|---|
| **PolicyManager** `policy-manager` | policies by id; per farmer: policy index, ACTIVE and PENDING counts, latest claim times; PENDING markers; per org: outstanding sum insured; roles; certificate contract address | `create_policy`, `activate_policy`, `mark_as_claimed`, `increment_claim_count`, `cancel_policy`, `expire_policy` (permissionless), `set_policy_nft`, roles, `upgrade`, keepers | PolicyNft: `mint_policy` (must succeed), `policy_nft_exists` (plain), `update_policy_status` (best effort) |
| **PolicyNft** `policy-nft` | certificates, owners, distributor index, wired manager, roles | `mint_policy`, `update_policy_status`, `transfer`, `set_policy_manager`, roles, keepers | none |
| **SettlementAdapter** `settlement-adapter` | obligations by id, (receiver, policy) -> id, org index, bound receiver, roles | `record_obligation`, `mark_funded`, `mark_settled`, `set_payout_receiver`, roles, `upgrade`, keepers | none |
| **PayoutReceiver** `payout-receiver` | bound adapter, signer, network domain, pause flag, enabled methodologies, `PolicyPaid`, reports, temporary replay markers, roles | `submit_drought_determination`, `submit_determination` (retired), setters, `pause`, roles, `upgrade`, keepers | PolicyManager, SettlementAdapter, in one transaction |
| **shared** `shared` | none of its own | role registry, drought index, digest encoding, time-to-live policy, types, errors | |
| **scripts** `scripts/` | a JSON state file of done steps | `deploy.sh` (resumable), verification scripts | the four contracts |
| **testnet fixture** `testnet-policy-fixture` | injected policies, claim counts, roles | `set_policy`, `mark_as_claimed`, `increment_claim_count` | none; on a testnet the receiver calls it instead of PolicyManager |
| integration tests | | read as a source of intended behaviour | |

What is hard here, and which property goes with it:

- *Counters beside the records.* Slots, markers and exposure are kept incrementally
  with saturating decrements, by five transitions reached in any order; an error
  is silent. They must equal what the policies say (`CountersMatchPolicies`,
  `ExposureMatchesOpenPolicies`).
- *Permissionless calls racing privileged ones.* Anyone may expire what the backend
  is about to activate. The lifecycle must be the promised one
  (`ImplementsLifecycle`) and must make progress without a role (`EndedPolicyCloses`).
- *Pointers that move.* The certificate contract, the adapter and the bound receiver
  can be replaced while policies are open or just paid (`ActiveCoverIsCertified`,
  `LookupExact`, `PaidExactlyOnce`).
- *Replays and rivals.* A determination can be delivered twice, after its temporary
  marker was evicted, and beside another valid determination (`PaidExactlyOnce`).
- *Checks spread over contracts.* A receiver check that is weaker than a sibling's
  would make a valid claim revert for ever (`SiblingsNeverRefuse`); the cap checked at
  the sale must still hold at the claim (`SoldCoverCanPay`, `RollingClaimCap`).
- *Integer money and integer science.* Floors, strict and non-strict boundaries
  (`ObligationsAreEarned`, `TracksYieldResponse`, `WetterNeverPaysMore`).
- *Evidence that must be about this cover.* The signer's word is not enough: the index is recomputed from the signed
  rain and the plot compared, each by one line, on two paths (`EvidenceFitsCover`, `EvidenceIsOfThePlot`).
- *Entries that run out.* Every extension is clamped below the length of a long cover, so
  open policies and open debts live only through keepers that must find them in time, also in a
  replaced adapter and after an upgrade (`OpenPolicyStaysLive`, `OpenDebtStaysLive`,
  `ContractsStayLive`).
- *A deployment that dies halfway.* The resumable script trusts its state file: the file must not run
  ahead of the chain, builds must not mix, and rerunning must get through (`RecordedIsOnChain`,
  `OneBuild`, `FinishedDeploymentVerifies`, `ResumingGetsThrough`); a failed write of the file
  is not always noticed (`ConfiguredIsRecorded`).
- *Bytes two programs must agree on.* (`DigestBindsEverything`, `WordsMatchEvmSlots`.)
- *Pages of an index that grows.* (`WalkIsExact`, `WalkCompletes`.)

The full list, at the lines where each bites, is `hazards` in `PROJECT.json`.

## 2. Modules

```
SorobanHost            clock, storage write, role registry
 |- PolicyNft          every certificate contract
 |   `- PolicyManager  lifecycle, with its calls to PolicyNft   => implements PolicyLifecycle
 |- SettlementAdapter  every adapter                            => implements ObligationLedger
DroughtIndex           crop-drought-rdi-1.0
PayoutReceiver         = PolicyManager + SettlementAdapter + DroughtIndex + receivers: the whole system
StorageRent            life of every entry, operations, keepers, the keeper job
Deployment             deploy.sh, its state file, verify-deployment.sh
DigestEncoding         the two signed preimages, word by word
IndexPaging            the three paginated views
MCBook, MCSettlement, MCRent, MCDeploy: small instances
MCRegisters            = PolicyNft or SettlementAdapter on its own, one of them at a time
MCAlgorithms           = MCDrought + MCDigest + IndexPaging, one of them at a time
```

How state and steps correspond to the code:

- **One action per entry point**, named as in the source, covering the whole handler
  and the calls it makes. A call that reverts is not a step, so guards are exactly the
  checks of the code. Who may sign is in the quantifiers of the `...Step` definitions:
  accounts act for themselves, contracts only through the calls their code makes.
  A call that succeeds without changing anything (expiring an expired policy,
  repeating a mark with its own reference) is a stuttering step.
- **Storage** is one variable per `DataKey` group. A counted index (`FarmerPolicyCount`
  with `FarmerPolicyAt`) is a sequence. `Certificate` and `PolicyToToken` are written
  together and never removed: one map. Certificate and adapter state is indexed by contract
  address, because the point of several properties is that there can be two.
- **`PolicyManager.Close`** is what `cancel_policy` and `expire_policy` share; the code
  repeats it in both.
- **`mark_as_claimed` and `increment_claim_count`** write disjoint variables, so a
  settlement is their conjunction with `record_obligation`: one transaction, one step.
- **Signatures and digests**: a signature is the key it recovers to; a digest is the
  tuple of what it hashes (methodology, fields, contract, network domain).
- **Eviction** of the temporary replay marker is an action of the host without any lower bound
  on its time: the properties do not rest on the marker.
- **Time** is `env.ledger().timestamp()`, advanced one unit at a time up to `MaxTime`.
- **The crop path** (`submit_determination`) is a second settling action. This build sells no cover it
  settles, so `LegacySpec` starts with a Comprehensive policy an earlier build left PENDING.
- **`StorageRent`** keeps, for each entry, the last ledger it lives through, and for each operation the
  rule (threshold, target) it applies to each entry it writes or extends, with one time unit for a
  second, a ledger and a day. A call that reads an archived entry restores it first, as the RPC
  simulation does, so the model shows when that cost is met and no operation is blocked. A transaction is a
  function from entries to rules; `f ++ g` is a transaction that makes both calls. The keeper job
  is the one the runbook describes; it is modelled from there, as external. A pass is a series of
  transactions: `KeeperStarts` (step 1, and the list of step 2), `KeeperCalls` in any order, `KeeperTurns` (the list of step 3), more
  `KeeperCalls`, `KeeperEnds`. Users and administrators may act between any two of them.
- **`Deployment`** splits each `deploy` and `step` of the script at the point where a transaction has gone through and is not yet
  recorded. `Crash` kills the script anywhere; the next run may have other arguments. `LoseRecord` is a
  `state_set` that fails in `deploy()`: that function runs in a command substitution, where bash drops `set -e`, so
  the script goes on with the address. Everywhere else a failed write stops the script, like a crash. A
  contract on the chain is its kind, its build and the arguments of the calls made to it.
- **`DigestEncoding`** writes a word as digits in base `Base`, so that sign extension and overflow are
  those of the code; a hash byte is a symbol that carries its message.

`PolicyLifecycle` is what a policy holder is promised (offered, in force for exactly the
term sold, closed once: paid inside the window, lapsed after it, or withdrawn).
`ObligationLedger` is what an auditor is promised (one debt per claim, never changed; each
attestation made once, funding never after settlement). Both are
checked as refinements with the mappings `Lifecycle` and `Ledger`.

## 3. Runs

| run | instance | shows |
|---|---|---|
| `registers` | a certificate contract with 4 accounts and 4 mint requests (one with id 0, two of one id), or an adapter with 2 receivers, 6 claims in conflict, 2 references, the Funder role granted and revoked | certificate storage, distributor index, lookup, org index, ledger refinement |
| `book` | 3 policies, 2 orgs, caps 2 and 1, ten sale requests of which eight are refused, certificate contract not wired at first | counters, exposure, indexes, certificate mirror, lifecycle refinement |
| `book_swap` | 2 policies of one day, 2 certificate contracts swapped at any time, the farmer as an account, the Backend role granted and revoked | cover in force is certified and not transferable; every ended policy closes |
| `book_stray` | 2 policies and an address that is no certificate contract | **violated**, see below |
| `settlement` | 3 policies, caps 2, window of 3 units, 18 valid and 14 refused determinations, submitted at any time | payouts are earned, both claim caps, siblings do not refuse |
| `rewiring` | 2 receivers, 2 adapters, rival determinations, eviction, pause, the Relayer role granted and revoked | paid once |
| `legacy` | one Comprehensive policy of an earlier build, one drought policy, crop and drought determinations of both, also of another plot or with a damage their measurements do not give; methodologies, signer and network domain changed at any time | each cover is settled once, for what it earned, by evidence of its own kind, recomputed, and of its own plot; siblings do not refuse |
| `algorithms` | rain up to 25 against references up to 22; words of 4 binary digits, every value of every field, 3 alterations; index and numbers up to 15, pages of 3 | the integer index against the exact rule; the digest binds everything and words are EVM slots; walks are exact and complete |
| `rent` | term 4, network maximum 3, grace 1, a keeper pass begun every unit; 2 policies, or 1 with a swap and upgrades of the new adapter | contracts, open policies and open debts stay live |
| `deploy` | 4 runs, 3 crashes, a failed write, a local build, 2 releases, a dry run | the state file is never ahead of the chain, one build, the result verifies, the same command again gets through |
| `deploy_domain` | 2 runs with 2 domains, 1 crash | **violated**, see below |
| `deploy_unrecorded` | 2 runs, 1 crash, 1 failed write | **violated**, see below |

Bounds and why they suffice. Cover lasts one to four units and the clock runs to 1..6, so
every boundary comparison (`now <= end_date`, `now < t + window`) is met below, at and above
its limit. A day is two units in `settlement` and `legacy`, so that the floor to the UTC day
differs from the identity; a season is one day. Caps of one or two are reached and exceeded with three policies.
In `settlement` the clock runs until two claims have left the claim window: a third policy is sold exactly on its edge, claims
when its season is over, and the list of claim times, as long as the cap, is truncated. Sums are 4 with payouts of
1.8 and 4, so the floor is not exact. The real constants satisfy the same
assumptions (`PmAssumption`, `SmallestPayout`). `SYMMETRY` is used in `registers` only, on
reference hashes, which no code compares except with each other. Deadlock is not checked: the clock
stops at `MaxTime` and the number of policies is bounded, so every behaviour of an instance ends.

In `rent` the network maximum (3) is below the need of a policy (term and grace, 5), as 180
days are below the longest cover, and every threshold of `ttl.rs` keeps its order with respect to the others and
to the keeper's interval; the clock runs past the end, the grace and one more keeper pass. The second policy (entries two policies
share) and the swap (entries the current adapter does not know) are separate questions: `MaxLoad`
bounds policies and swaps together. The theorems have no such bound. In the
deployment runs three crashes let a death hit a deployment, a step and a resumed
run; one failed write (`MaxLostWrites`) is enough to lose an address. The paged index reaches the largest number there is, where `start + limit` would wrap. Two binary digits per half word give
both ends of both integer ranges; no code looks at a digit's value, so the base does not matter.

Fairness (`LiveBookSpec`): weak fairness of `expire_policy` for each policy, and of nothing else.
It needs no role, so anyone, the org that wants its exposure back for one, can submit it; no fairness is
assumed of the admin, the backend, the oracle or the clock.
`deploy` (`LiveSpec`): a running script goes on until it dies, which is what a process does, and the operator
runs the script again until it has got through, which is what its header tells them to; `ResumingGetsThrough` is about
operators whose runs are all the same command. Crashes are
bounded by `MaxCrashes` and otherwise free. `algorithms`: a reader that keeps asking.

Each property has a mutant: a variant of one definition, with a plausible slip of the code,
under which TLC finds the property violated (`mutants` in `PROJECT.json`; the operators
marked `mutant:` in the modules). `EvidenceFitsCover` has two, one for the kind of evidence and one for the recomputation.
`SoulboundWhileActive`, the transfer guard of a certificate contract, is proved but not listed with a run:
`ActiveCoverIsCertified` (`book_swap`) finds the same slip, where it matters.

### Findings

`book_stray`: the docs of PolicyManager promise that the certificate update "never bricks the
lifecycle transition" (`policy-manager/src/lib.rs:20`, `:922`). Only the second of its
two cross-contract calls is a `try_` call. If the admin wires an address that is not a certificate contract
(`set_policy_nft` makes no handshake, unlike `set_settlement_adapter`), an ended ACTIVE policy can be neither
expired nor cancelled nor claimed until another address is wired. `book_swap` shows that the
swaps the check was written for, to another certificate contract, do not have this effect.

`deploy_domain`: a run of `deploy.sh` resumed with another `NETWORK_DOMAIN` skips `cfg_domain`, which is recorded as done, and
then records and prints its own domain as the one "the off-chain signer MUST use" (`deploy.sh:328`), while the contract
verifies with the earlier one.

`deploy_unrecorded`: "Addresses are recorded the moment they exist, so a crash between two steps never loses a deployed
contract" (`deploy.sh:78`). When the write of an address fails (`deploy.sh:235`), `deploy()` goes on, because it runs inside
`"$(...)"` (`deploy.sh:247-254`) and ends with an `echo`; the script then wires and configures that contract and records those steps as
done. A later run deploys another one and skips the steps, which `verify-deployment.sh` then reports. Unless a write
fails, the file is right (`RecordedIsOnChain`).

### Remarks

Behaviour of the modelled code that readers of its comments may not expect. It costs a restore, rent or a
repeated deployment, never a wrong value, and no property is about it.

- A sale reads `FarmerActiveCount` and `FarmerClaimTimes` without extending them, so for a returning
  farmer they can archive while the new cover is open (`policy-manager/src/lib.rs:342`). From the first keeper
  pass after the sale they stay live (`OpenPolicyStaysLive`, which says so).
- The claim history cannot be made to outlive the 365-day window (`ttl.rs:73`) by one extension: the
  network maximum is about 180 days, and only open policies and debts bring a keeper to it.
- The items of the farmer index and of the distributor index are extended once and clamped, so a long cover outlives its place
  in the index (`policy-manager/src/lib.rs:383`, `policy-nft/src/lib.rs:257`).
- An ordinary call can pay for the whole user target of 10 days (`ttl.rs:79`).
- `deploy.sh` records an address when the CLI returns it; a connection dropped between the
  transaction and the record leaves an orphaned contract. The wiring of what is recorded is still right.
- A dry run writes `network_domain` and `network` to the state file (`deploy.sh:311`).

## 4. Proofs

Eight modules hold theorems. They hold for every set of farmers, orgs, accounts, contracts, requests and
determinations, for every number of policies, obligations, runs and crashes, and for every value of the limits that the modules'
assumptions (`PmAssumption`, `NftAssumption`, `SaAssumption`, `PrAssumption`, ...) allow. Each module begins with the effect
of an operation, named and proved by one lemma per operation; the invariants are then proved from the effects.

| module | specification | theorem | what it says |
|---|---|---|---|
| `PolicyManagerProofs` | `NftSpec` | `NftTypeCorrect`, `DistributorIndexCorrect`, `SoulboundCorrect` | the certificates alone |
| | `BookSpec` | `BookTypeCorrect`, `CountersCorrect` | storage shape; slot counters and PENDING markers are exact |
| `PolicyBookProofs` | `BookSpec` | `ExposureCorrect`, `FarmerIndexCorrect`, `LifecycleRefinement` | exposure and farmer index are exact; the manager implements `PolicyLifecycle` |
| | | `CoverCertified`, `MirrorCorrect`, `ManagedSoulbound` | the certificates as the manager drives them |
| `SettlementAdapterProofs` | `LedgerSpec` | `RegisterTypeCorrect`, `LookupCorrect`, `OrgIndexCorrect`, `LedgerRefinement` | lookup and org index are exact; the adapter implements `ObligationLedger` |
| `PayoutReceiverProofs` | `Spec`, `LegacySpec` | `SystemCorrect`, `PrTypeCorrect`, `ObligationsEarned`, `EvidenceFits`, `EvidenceMeasuredAtPlot`, `PaidOnce` | the storage shape of all four contracts, and of the receivers; every debt was earned, on fitting evidence of its own plot, once |
| `CompositionProofs` | `Spec`, `LegacySpec` | `SystemBookCorrect`, `SystemLifecycle`, `SystemLedger`, `SystemCertified`, `SystemMirror`, `SoldCoverPays`, `CapKept`, `SiblingsAlwaysAccept` | what the parts promise alone, they keep together; both claim caps; no contract refuses what another verified |
| `DeploymentProofs` | `Spec` of `Deployment` | `FileIsOnChain`, `NeverMixed`, `FinishedVerifies` | the file is right and a finished deployment verifies, if every address could be written; builds never mix |
| `StorageRentProofs` | `Spec` of `StorageRent` | `RentTypeCorrect`, `ContractsLive`, `PoliciesLive`, `DebtsLive` | no entry in use archives, for any terms, loads and network limits the keeper keeps up with |
| `AlgorithmsProofs` | `AlgorithmsSpec` | `IndexTracksRule`, `IndexEndsExact`, `WetterPaysNoMore` | the drought index, at every rain and reference |
| | | `WalkCorrect` | the walk over a paginated index, at every limit, page bound and length |

### The inductive invariants

- *Book.* `PmTypeOK` is inductive because it says `start_date <= end_date`: `activate_policy` computes
  `end_date - start_date`, and the new end is a natural only if the old window was not reversed. `CountersMatchPolicies` is
  inductive with it; its conjunct on the markers (`pendingCounted` is the set of PENDING ids) is the strengthening the counts
  need, since `release_pending_slot` reads the marker. `MoveCounts` is the argument: rewriting one policy with another status takes it
  from one set of `PoliciesOf` and adds it to another, and as the set it leaves is not empty, the saturation at zero is never taken.
- *Exposure.* A sum over policies would need induction over data. It is stated as the cardinality of `OpenUnits`, the set of pairs of
  an open policy and a unit of its sum insured, and proved with the finite set theorems like the other counts. `UnitsFinite` is the strengthening.
- *Lifecycle.* `StartsInThePast` (no cover starts after the clock) is needed to map a settlement and an activation to steps of `PolicyLifecycle`.
- *Certificates.* `NftInv` adds that certificates are finitely many, for the count of the index. For the manager's view
  (`MirrorInv`) every certificate must be reachable for it (`CertificatesReachable`): its contract is one the manager may be wired to, the
  manager is wired to one, and it is wired back.
- *Register.* `RegisterInv` is the conjunction of the three properties. `LookupExact` makes the second call for a claim find the first
  one's debt; it needs the ids to be dense, which is in `SaTypeOK`.
- *System.* `SystemInv` is the shape of all four contracts and `DebtsArePaid`: the policy of every debt, in whatever adapter, is in `policyPaid`
  of the receiver that recorded it. It ties an adapter the receiver has left to the receiver. `DebtInv` adds that each debt rests on
  its receiver's report and on evidence of its policy's peril and plot (`Justified`), that what is paid is CLAIMED
  and that a policy has one debt in all adapters together: since CLAIMED is final and a claim starts from ACTIVE, a second
  settlement is impossible although the marker was evicted and the adapter replaced. `ClaimInv` is the other direction, what is
  CLAIMED is owed.
- *Caps.* `WithinCap` bounds open policies plus claims of the window; each transition of a policy moves one unit between the terms.
  `RollingClaimCap` counts the debts of every window, the manager's list has only the recent ones. `CapInv` connects them: the list is in the order of time (`Chronicle`),
  from any time whose window is still open it has at least as many entries as the farmer has debts (`DebtsListed`), and all
  windows so far are within the cap. `mark_as_claimed` and `increment_claim_count` are one transaction, so no debt
  is missing from the list; the list may have more, so the theorem needs no hypothesis on the Oracle role.
- *Rent.* The properties say that what is needed is alive now. `RentInv` says how long it will be: until `MaxLapse` after the beginning of the
  last pass whose calls have reached it. That is the last full pass (`lastPass`), or the one in progress (`began`) once the
  call for the entry is no longer to come; the entries of a policy may instead live to the end of its need (`Suffices`). `ContractsKept`, `DebtsKept`, `OwnKept` and `SharedKept` say so for the contracts, the debts, the
  entries of a policy and those policies share. The cases are the interleavings: an entry the job did not select had `KEEPER_SELECTS` left; one
  it lists is in `todo`, or was extended; one that came into being, or a debt that changed hands by a swap, after the list was made has what its own
  transaction gave it, or is on the list of step 3. `EntriesOK` ties the entries that exist to the status of the policy (an entry nobody
  listed would otherwise appear from nothing), `JobOK` and `TasksOK` say that what the job still has to do refers to
  policies, debts and adapters there are. The proof describes every call by the entries it writes (`Writes`) and how far it extends them (`Reaches`), each
  by a lemma per rule of `ttl.rs`.
- *Siblings.* `SettlementAccepted` collects every check of `settle_verified` and of what it calls, `SettlementWrites` every value it assigns; `AcceptedSettles`
  says that both together are a settlement. `SiblingsAlwaysAccept` derives the checks from those of the receiver. Two of them the receiver
  does not make itself: the adapter refuses a zero amount, and repeats an earlier record of the claim. The first needs
  `SumsInRange` (no sum insured is below the minimum) and `SmallestPayout`, the second `DebtsArePaid` and `LookupExact`.
- *Deployment.* `DeployInv` has the properties and, for the run in progress, where the script is (`RunOnChain`): the steps it has passed are in the file,
  and what it has sent and not yet recorded is on the chain. A crash loses the script's place and nothing of the file. A lost
  address (`LoseRecord`) breaks it, as the script then acts on a contract the file does not have: `SafeInv` is `DeployInv` as long as `lost = 0`.
  That builds never mix does not need the file to be complete, so `NeverMixed` has an invariant of its own, `BuildInv`: every recorded contract,
  and the one about to be recorded, has the build of the file.

- *Drought index.* `SeasonOK` only says that rain is a natural and references are not zero; the rest is arithmetic. `DeficitRoundsUp` turns the two
  truncations and the cap of `Deficit` into one: the deficit is the missing percent, rounded up. `LossRounded` bounds the
  rounded share of the yield by the exact one, `ProductRounded` the product of two such shares; together with the last division they give the two and
  three points of `TracksYieldResponse`. TLC found the two bounds on small seasons; the proof shows that they hold at every scale.
- *Paging.* `WalkOK` adds to the prefix the shapes and that the index is no longer than a u32 counts. `PageEndBetween` is the argument: although the addition
  saturates, a page ends between where it starts and the end of the index.

### Hypotheses

Some theorems hold only for a deployment the administrators keep in order; each but the last three is a constant-level hypothesis of that
theorem, and the runs of the property satisfy it.

- `NoAccountManages` (`CoverCertified`): `set_policy_manager` is never given an account. An account wired as manager may
  deactivate certificates as it likes. `deploy.sh` wires the PolicyManager.
- `OneCertificateContract`, `ManagerWired`, `OnlyManagerMints` (`MirrorCorrect`): one certificate contract, wired to the manager and
  not rewired, and the manager its only Minter, as `deploy.sh` leaves it. With a replaced contract the
  mirror is broken by design: the old contract is no longer told. `CoverCertified`, which has none of these, says what remains.
- `OnlyContractsAreOracles` (`PaidOnce`, `SoldCoverPays`): the Oracle role of the manager is held by contracts only. `deploy.sh` grants it
  to the receiver only. An account with it can mark a policy as claimed for which nothing is owed.
- `CapsAgree` (`SoldCoverPays`): `MAX_ACTIVE_POLICIES_PER_FARMER` is at least 1 and at most `MAX_CLAIMS_PER_FARMER_PER_YEAR`. Both are 3
  (`policy-manager/src/lib.rs:69`, `:71`).
- `LegacySumInRange` (`SiblingsAlwaysAccept`): the policy of the earlier build insures at least today's minimum (`policy-manager/src/lib.rs:53`).
  The smallest payable share of a smaller sum could be zero, which the adapter refuses.
- The address an adapter is bound to is a PayoutReceiver contract. This is in the model, not a hypothesis: the code's
  `set_payout_receiver` takes any address but the adapter's own, and an account or another contract bound there could
  record debts nobody determined. Every theorem about debts of the whole system rests on it. `deploy.sh` binds the receiver
  (`wire_adapter_pr`) and `verify-deployment.sh` checks the binding.
- `lost = 0` (`FileIsOnChain`, `FinishedVerifies`), of the state: every address could be written to the state file.
- `WiredUp` (`SiblingsAlwaysAccept`), of the state: receiver and adapter are bound to each other, the receiver holds the Oracle
  role, and the manager is wired to a certificate contract or to none. `verify-deployment.sh` checks this.

`KeeperKeepsUp` (`StorageRent`) is what the runbook asks of the operator: a pass comes round before anything runs out that it leaves alone or has just
extended, that is within the network minimum, the job's selection threshold, the two thresholds and, less the day of slack
`extend_to` leaves, the network maximum and the shared floor. The job is daily; the smallest of the six is 7 days (the minimum on
testnet, `ttl.rs:40`). Nothing is assumed of users' calls. When the
keeper lapses longer, entries archive and calls pay for restores.

`PrAssumption` says of the policy of an earlier build that its cover starts at time 0, no later than the upgrade with which `LegacySpec` begins;
an earlier build, too, started cover at a sale or an activation.

### What stays with TLC

- Liveness (`EndedPolicyCloses`, `ResumingGetsThrough`, `WalkCompletes`) and what mentions ENABLED (`SiblingsNeverRefuse`): the prover handles
  neither. Of the latter, `SiblingsAlwaysAccept` proves what can be said without ENABLED. The three violated runs (`LifecycleNeverBricked`, `RecordedDomainIsOnChain`, `ConfiguredIsRecorded`) are counterexamples.
- `DigestBindsEverything`, `WordsMatchEvmSlots`: a word's value is a sum over its digits, which would need induction over data.

## 5. Not modelled

- **Time to live inside the value models.** An archived persistent entry makes the call that reads it trap until it
  is restored; it never reads as absent. So the models of the contracts leave it out and lose no unsafe
  behaviour; `StorageRent` models it alone. The one temporary entry, whose loss is silent, is in the contract models.
- **Role grants' life** (`extend_role`: extended on each use), the owner entry a `transfer` extends, and the certificate
  contract a `set_policy_nft` leaves behind: `StorageRent` has one certificate contract and no roles. A swap
  goes to an adapter deployed for it.
- **`upgrade`** beyond its effect on rent: it replaces the code under verification.
- **Events, error codes, display fields** of certificates.
- **Overflow** of `u64` and `i128` values in the contracts: the build traps (`overflow-checks`), and the sale bounds keep
  all values far below the limits.
- **Scripts**: the download and attestation of releases (`lib/release.sh`, `verify-release.sh`), the recorded
  `wasm_sha256_*`, local builds that differ between two runs, environment variables other than the
  domain, a state file that cannot be read, section 6 of the verification, and the evidence script.
- **The testnet fixture**, a stand-in for PolicyManager without lifecycle or limits. It changes nothing in the receiver, which is
  checked with PolicyManager itself behind the same interface.
- **Integration tests** are tests.

## 6. Plan

The plan is carried out: every invariant and action property the runs check is proved, except the ones listed under *What
stays with TLC*, which this prover cannot reach. What could be added next: role grants' life in `StorageRent` (`extend_role`), with roles that
are used seldom, and the certificate contract left behind by `set_policy_nft`, which no keeper reaches.
