----------------------------- MODULE Deployment -----------------------------
(***************************************************************************)
(* scripts/deploy.sh and scripts/verify-deployment.sh: the resumable       *)
(* deployment of the four contracts, driven by a state file.               *)
(*                                                                         *)
(* The script is a list of deployments and steps.  Each sends a            *)
(* transaction and then records it; it may die between any two commands,   *)
(* also after a transaction went through and before it is recorded (a      *)
(* dropped connection), and is then run again, perhaps with other          *)
(* arguments.  Deploying has no other effect than a new contract, so a run *)
(* that is refused by the network is a run that died before sending.       *)
(* Writing the state file may fail as well.  That too stops the script,    *)
(* except in deploy(), which runs in a command substitution, where bash    *)
(* does not keep set -e.                                                   *)
(***************************************************************************)
EXTENDS Naturals, Sequences, FiniteSets

CONSTANTS
    Releases,               \* release tags; "local" is the local build
    Commands,               \* the [build, domain, dry] the operator may run
    MaxRuns, MaxCrashes, MaxLostWrites,    \* bounds
    None

ASSUME DeploymentAssumption ==
    /\ "local" \notin Releases /\ None \notin Releases
    /\ \A c \in Commands : c.build \in Releases \cup {"local"} /\ c.dry \in BOOLEAN
    /\ {MaxRuns, MaxCrashes, MaxLostWrites} \subseteq Nat

VARIABLES
    state,      \* the state file: [addr, done, release, domain]
    chain,      \* address -> [key, build, cfg]: cfg maps a step to its argument
    proc,       \* the running script, or None
    crashes,
    lost,       \* addresses deploy() could not write and went on with
    runs,       \* the commands run so far
    finished    \* has a run that was not dry reached the end?

deployVars == <<state, chain, proc, crashes, lost, runs, finished>>

-----------------------------------------------------------------------------
Contracts == <<"policy_nft", "policy_manager", "settlement_adapter", "payout_receiver">>

Steps_NoOracle ==                      \* mutant: role_pm_oracle is forgotten
    <<"wire_pm_nft", "wire_nft_pm", "wire_adapter_pr", "role_pm_backend", "role_nft_minter",
      "role_pr_relayer", "role_ad_funder", "cfg_signer", "cfg_domain", "cfg_drought">>

Steps ==
    <<"wire_pm_nft", "wire_nft_pm", "wire_adapter_pr", "role_pm_backend", "role_nft_minter",
      "role_pm_oracle", "role_pr_relayer", "role_ad_funder",
      "cfg_signer", "cfg_domain", "cfg_drought">>

Script == Contracts \o Steps

(* The contract a step calls.                                              *)
Target(k) ==
    CASE k \in {"wire_pm_nft", "role_pm_backend", "role_pm_oracle"} -> "policy_manager"
      [] k \in {"wire_nft_pm", "role_nft_minter"} -> "policy_nft"
      [] k \in {"wire_adapter_pr", "role_ad_funder"} -> "settlement_adapter"
      [] OTHER -> "payout_receiver"

(* What it passes: an address, or a value of the environment, of which     *)
(* only the network domain varies here.                                    *)
Argument(k, addr, domain) ==
    CASE k = "wire_pm_nft" -> addr["policy_nft"]
      [] k \in {"wire_nft_pm", "role_nft_minter", "ctor_manager"} -> addr["policy_manager"]
      [] k \in {"wire_adapter_pr", "role_pm_oracle"} -> addr["payout_receiver"]
      [] k = "ctor_adapter" -> addr["settlement_adapter"]
      [] k = "cfg_domain" -> domain
      [] OTHER -> "env"

(* The constructor's references, which only PayoutReceiver takes.          *)
CtorArguments(key) == IF key = "payout_receiver" THEN {"ctor_adapter", "ctor_manager"} ELSE {}

(* Add an entry, or overwrite the one there is.                            *)
state_set(store, key, value) ==
    [k \in DOMAIN store \cup {key} |-> IF k = key THEN value ELSE store[k]]

Preflight_NoStarted(build) ==          \* mutant: LOCAL contracts are not looked for
    IF build = "local" THEN state.release = None ELSE state.release \in {None, build}

Preflight_NotResumed(build) ==         \* mutant: a recorded release is always refused
    state.release = None /\ (build = "local" \/ DOMAIN state.addr = {})

(* A deployment is one build: the release the file records, or none when   *)
(* it holds contracts of a local build.                                    *)
Preflight(build) ==
    IF build = "local"
    THEN state.release = None
    ELSE /\ state.release \in {None, build}
         /\ state.release = None => DOMAIN state.addr = {}

Init ==
    /\ state = [addr |-> << >>, done |-> {}, release |-> None, domain |-> None]
    /\ chain = << >>
    /\ proc = None
    /\ crashes = 0
    /\ lost = 0
    /\ runs = << >>
    /\ finished = FALSE

(* Arguments, preflight and, in a real run, the release recorded before    *)
(* anything is deployed.                                                   *)
Invoke(c) ==
    /\ proc = None
    /\ Len(runs) < MaxRuns
    /\ Preflight(c.build)
    /\ proc' = [command |-> c, pc |-> 1, sent |-> None, addr |-> << >>]
    /\ state' = IF c.build # "local" /\ ~c.dry THEN [state EXCEPT !.release = c.build] ELSE state
    /\ runs' = Append(runs, c)
    /\ UNCHANGED <<chain, crashes, lost, finished>>

Running == proc # None
AtDeploy == Running /\ proc.pc <= Len(Contracts)
AtStep == Running /\ proc.pc \in Len(Contracts) + 1 .. Len(Script)
Current == Script[proc.pc]

Advance(addr) == proc' = [proc EXCEPT !.pc = @ + 1, !.sent = None, !.addr = addr]

(* deploy(): an address already recorded is taken as it is.                *)
SkipDeploy ==
    /\ AtDeploy /\ Current \in DOMAIN state.addr
    /\ Advance(state_set(proc.addr, Current, state.addr[Current]))
    /\ UNCHANGED <<state, chain, crashes, lost, runs, finished>>

DryDeploy ==
    /\ AtDeploy /\ Current \notin DOMAIN state.addr /\ proc.command.dry
    /\ Advance(state_set(proc.addr, Current, None))
    /\ UNCHANGED <<state, chain, crashes, lost, runs, finished>>

SendDeploy ==
    LET a == Cardinality(DOMAIN chain) + 1 IN
    /\ AtDeploy /\ Current \notin DOMAIN state.addr /\ ~proc.command.dry /\ proc.sent = None
    /\ chain' = state_set(chain, a,
           [key |-> Current, build |-> proc.command.build,
            cfg |-> [k \in CtorArguments(Current) |->
                        Argument(k, proc.addr, proc.command.domain)]])
    /\ proc' = [proc EXCEPT !.sent = a]
    /\ UNCHANGED <<state, crashes, lost, runs, finished>>

RecordDeploy ==
    /\ AtDeploy /\ proc.sent # None
    /\ state' = [state EXCEPT !.addr = state_set(@, Current, proc.sent)]
    /\ Advance(state_set(proc.addr, Current, proc.sent))
    /\ UNCHANGED <<chain, crashes, lost, runs, finished>>

(* state_set fails, and the script goes on with the address all the same.  *)
LoseRecord ==
    /\ AtDeploy /\ proc.sent # None
    /\ lost < MaxLostWrites
    /\ lost' = lost + 1
    /\ Advance(state_set(proc.addr, Current, proc.sent))
    /\ UNCHANGED <<state, chain, crashes, runs, finished>>

(* step(): skipped when recorded, sent and then recorded otherwise.        *)
SkipStep ==
    /\ AtStep /\ (Current \in state.done \/ proc.command.dry)
    /\ Advance(proc.addr)
    /\ UNCHANGED <<state, chain, crashes, lost, runs, finished>>

StepEffect_Lost == chain               \* mutant: a failed invoke is not noticed

StepEffect ==
    [chain EXCEPT ![proc.addr[Target(Current)]].cfg =
        state_set(@, Current, Argument(Current, proc.addr, proc.command.domain))]

SendStep ==
    /\ AtStep /\ Current \notin state.done /\ ~proc.command.dry /\ proc.sent = None
    /\ chain' = StepEffect
    /\ proc' = [proc EXCEPT !.sent = Current]
    /\ UNCHANGED <<state, crashes, lost, runs, finished>>

RecordStep ==
    /\ AtStep /\ proc.sent # None
    /\ state' = [state EXCEPT !.done = @ \cup {Current}]
    /\ Advance(proc.addr)
    /\ UNCHANGED <<chain, crashes, lost, runs, finished>>

(* The keeper call, which changes no configuration, then the domain is     *)
(* recorded, in a dry run too.                                             *)
Finish ==
    /\ Running /\ proc.pc > Len(Script)
    /\ state' = [state EXCEPT !.domain = proc.command.domain]
    /\ finished' = (finished \/ ~proc.command.dry)
    /\ proc' = None
    /\ UNCHANGED <<chain, crashes, lost, runs>>

Crash ==
    /\ Running
    /\ crashes < MaxCrashes
    /\ crashes' = crashes + 1
    /\ proc' = None
    /\ UNCHANGED <<state, chain, lost, runs, finished>>

ScriptStep ==
    \/ SkipDeploy \/ DryDeploy \/ SendDeploy \/ RecordDeploy \/ LoseRecord
    \/ SkipStep \/ SendStep \/ RecordStep
    \/ Finish

Next ==
    \/ \E c \in Commands : Invoke(c)
    \/ ScriptStep
    \/ Crash

Spec == Init /\ [][Next]_deployVars

(* A run keeps going until it dies, and the operator runs the script again *)
(* until it gets through.                                                  *)
Rerun == \E c \in Commands : ~finished /\ Invoke(c)

LiveSpec == Spec /\ WF_deployVars(ScriptStep) /\ WF_deployVars(Rerun)

-----------------------------------------------------------------------------
(* verify-deployment.sh, sections 1 to 5.                                  *)

VerifiedEffects ==
    {"wire_pm_nft", "wire_nft_pm", "wire_adapter_pr", "role_pm_backend", "role_nft_minter",
     "role_pm_oracle", "role_pr_relayer", "role_ad_funder", "cfg_signer", "cfg_domain",
     "cfg_drought", "ctor_adapter", "ctor_manager"}

EffectInPlace(k) ==
    LET cfg == chain[state.addr[Target(k)]].cfg IN
    k \in DOMAIN cfg /\ cfg[k] = Argument(k, state.addr, state.domain)

VerifyDeployment ==
    /\ \A i \in DOMAIN Contracts : Contracts[i] \in DOMAIN state.addr
    /\ \A k \in VerifiedEffects : EffectInPlace(k)

-----------------------------------------------------------------------------
(* Properties.                                                             *)

(* The state file never runs ahead of the chain: an address it holds is a  *)
(* contract of that kind, built on the addresses it holds, and a step it   *)
(* calls done took effect on that contract, with that contract's sibling.  *)
(* A resumed run skips by the file alone.  So it is as long as every       *)
(* address could be written (see ConfiguredIsRecorded).                    *)
RecordedIsOnChain ==
    lost = 0 =>
        /\ \A key \in DOMAIN state.addr :
              LET c == chain[state.addr[key]] IN
              /\ c.key = key
              /\ \A k \in CtorArguments(key) : c.cfg[k] = Argument(k, state.addr, None)
        /\ \A k \in state.done \ {"cfg_domain"} : EffectInPlace(k)
        /\ "cfg_domain" \in state.done =>
               "cfg_domain" \in DOMAIN chain[state.addr["payout_receiver"]].cfg

(* "A deployment is one build": all contracts of a state file come from    *)
(* one release, or all from a local build, whatever the resumed runs ask.  *)
OneBuild ==
    \A key \in DOMAIN state.addr :
        chain[state.addr[key]].build = IF state.release = None THEN "local" ELSE state.release

(* However often it died on the way, a deployment that got through passes  *)
(* verify-deployment.sh, if every run named the same network domain and    *)
(* every address could be written.                                         *)
FinishedDeploymentVerifies ==
    /\ finished /\ lost = 0
    /\ Cardinality({runs[i].domain : i \in DOMAIN runs}) = 1
    => VerifyDeployment

SameCommandAgain == \A i \in DOMAIN runs : runs[i] = runs[1] /\ ~runs[i].dry

(* deploy.sh:18: "A deploy that dies halfway is resumed by running the     *)
(* same command again": it then gets through.                              *)
ResumingGetsThrough == []SameCommandAgain => <>finished

(* The summary of a finished run gives the domain "the off-chain signer    *)
(* MUST use" (deploy.sh:328), recorded in the state file: it is the one    *)
(* the contract verifies with.                                             *)
RecordedDomainIsOnChain ==
    finished => chain[state.addr["payout_receiver"]].cfg["cfg_domain"] = state.domain

(* "Addresses are recorded the moment they exist, so a crash between two   *)
(* steps never loses a deployed contract" (deploy.sh:78): a contract some  *)
(* step has already configured is in the file, so that a resumed run finds *)
(* it again.                                                               *)
ConfiguredIsRecorded ==
    \A a \in DOMAIN chain :
        (\E i \in DOMAIN Steps : Steps[i] \in DOMAIN chain[a].cfg) =>
            \E key \in DOMAIN state.addr : state.addr[key] = a
=============================================================================
