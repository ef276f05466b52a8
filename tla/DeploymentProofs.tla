-------------------------- MODULE DeploymentProofs --------------------------
(***************************************************************************)
(* Theorems about the resumable deployment, for every list of releases and *)
(* commands and however often the script dies: the state file never mixes  *)
(* builds and, unless an address could not be written, never runs ahead of *)
(* the chain, and a deployment that got through passes                     *)
(* verify-deployment.sh.                                                   *)
(***************************************************************************)
EXTENDS Deployment, FiniteSetTheorems, SequenceTheorems, TLAPS

ContractKeys == {"policy_nft", "policy_manager", "settlement_adapter", "payout_receiver"}

StepKeys ==
    {"wire_pm_nft", "wire_nft_pm", "wire_adapter_pr", "role_pm_backend", "role_nft_minter",
     "role_pm_oracle", "role_pr_relayer", "role_ad_funder",
     "cfg_signer", "cfg_domain", "cfg_drought"}

(* The build of the contracts in the state file.                           *)
FileBuild == IF state.release = None THEN "local" ELSE state.release

(* The network domains the operator has named so far.                      *)
NamedDomains == {runs[i].domain : i \in DOMAIN runs}

(* The contract at a is of that kind and build, and its constructor took   *)
(* the addresses the state file holds.                                     *)
BuiltAs(a, key, build) ==
    /\ a \in DOMAIN chain
    /\ chain[a].key = key
    /\ chain[a].build = build
    /\ \A k \in CtorArguments(key) :
          /\ k \in DOMAIN chain[a].cfg
          /\ chain[a].cfg[k] = Argument(k, state.addr, None)

(* Step k took effect on the contract the state file holds: with the       *)
(* file's addresses or, for the domain, with one the operator has named.   *)
InPlace(k) ==
    LET cfg == chain[state.addr[Target(k)]].cfg IN
    /\ k \in DOMAIN cfg
    /\ IF k = "cfg_domain" THEN cfg[k] \in NamedDomains
       ELSE cfg[k] = Argument(k, state.addr, None)

(* Contracts are recorded in the order of the script, steps after them.    *)
FileShape ==
    /\ DOMAIN state = {"addr", "done", "release", "domain"}
    /\ DOMAIN state.addr \subseteq ContractKeys
    /\ \A i, j \in 1 .. 4 :
          i < j /\ Script[j] \in DOMAIN state.addr => Script[i] \in DOMAIN state.addr
    /\ state.done \subseteq StepKeys
    /\ state.done # {} => DOMAIN state.addr = ContractKeys
    /\ state.release \in Releases \cup {None}

ChainShape ==
    /\ \E n \in Nat : DOMAIN chain = 1 .. n
    /\ \A a \in DOMAIN chain : DOMAIN chain[a] = {"key", "build", "cfg"}

(* What the file holds is on the chain.                                    *)
FileOnChain ==
    /\ \A key \in DOMAIN state.addr : BuiltAs(state.addr[key], key, FileBuild)
    /\ \A k \in state.done : InPlace(k)

(* What a script that runs for real has behind it is in the file, and what *)
(* it has sent and not yet recorded is on the chain.                       *)
RunOnChain ==
    /\ proc.command.build = FileBuild
    /\ \A i \in 1 .. 4 :
          i < proc.pc => /\ Script[i] \in DOMAIN state.addr
                         /\ Script[i] \in DOMAIN proc.addr
                         /\ proc.addr[Script[i]] = state.addr[Script[i]]
    /\ \A i \in 5 .. 15 : i < proc.pc => Script[i] \in state.done
    /\ proc.sent # None /\ proc.pc \in 1 .. 4 =>
          /\ Current \notin DOMAIN state.addr
          /\ BuiltAs(proc.sent, Current, FileBuild)
    /\ proc.sent # None /\ proc.pc \in 5 .. 15 => InPlace(Current)

ScriptShape ==
    /\ DOMAIN proc = {"command", "pc", "sent", "addr"}
    /\ proc.command \in Commands
    /\ proc.command.domain \in NamedDomains
    /\ proc.pc \in 1 .. 16
    /\ proc.command.dry => proc.sent = None

(* A finished deployment has everything in the file, and ran with a domain *)
(* the operator named.                                                     *)
FinishedShape ==
    finished => /\ DOMAIN state.addr = ContractKeys
                /\ StepKeys \subseteq state.done
                /\ state.domain \in NamedDomains

DeployInv ==
    /\ FileShape
    /\ ChainShape
    /\ runs \in Seq(Commands)
    /\ FileOnChain
    /\ Running => ScriptShape /\ (~proc.command.dry => RunOnChain)
    /\ FinishedShape

-----------------------------------------------------------------------------
(* The script.                                                             *)

LEMMA ScriptLayout ==
    /\ Len(Contracts) = 4 /\ Len(Script) = 15 /\ DOMAIN Contracts = 1 .. 4
    /\ \A i \in 1 .. 4 : Script[i] \in ContractKeys /\ Contracts[i] = Script[i]
    /\ \A key \in ContractKeys : \E i \in 1 .. 4 : Script[i] = key
    /\ \A i, j \in 1 .. 4 : Script[i] = Script[j] => i = j
    /\ \A i \in 5 .. 15 : Script[i] \in StepKeys
    /\ \A k \in StepKeys : \E i \in 5 .. 15 : Script[i] = k
    /\ Script[2] = "policy_manager" /\ Script[3] = "settlement_adapter"
    /\ Script[4] = "payout_receiver"
<1>1. Len(Contracts) = 4 /\ Len(Script) = 15 /\ DOMAIN Contracts = 1 .. 4
  BY DEF Contracts, Steps, Script
<1>2. \A i \in 1 .. 4 : Script[i] \in ContractKeys /\ Contracts[i] = Script[i]
  BY DEF Contracts, Steps, Script, ContractKeys
<1>3. \A key \in ContractKeys : \E i \in 1 .. 4 : Script[i] = key
  <2>1. {Contracts[i] : i \in 1 .. 4} = ContractKeys
    BY DEF Contracts, ContractKeys
  <2> QED  BY <1>2, <2>1
<1>4. \A i, j \in 1 .. 4 : Script[i] = Script[j] => i = j
  BY DEF Contracts, Steps, Script
<1>5. \A i \in 1 .. 11 : Script[4 + i] = Steps[i]
  BY DEF Contracts, Steps, Script
<1>6. {Steps[i] : i \in 1 .. 11} = StepKeys
  BY DEF Steps, StepKeys
<1>7. \A i \in 5 .. 15 : Script[i] \in StepKeys
  <2>1. \A i \in 5 .. 15 : i - 4 \in 1 .. 11 /\ 4 + (i - 4) = i
    OBVIOUS
  <2> QED  BY <1>5, <1>6, <2>1
<1>8. \A k \in StepKeys : \E i \in 5 .. 15 : Script[i] = k
  <2>1. \A i \in 1 .. 11 : 4 + i \in 5 .. 15
    OBVIOUS
  <2> QED  BY <1>5, <1>6, <2>1
<1>9. /\ Script[2] = "policy_manager" /\ Script[3] = "settlement_adapter"
      /\ Script[4] = "payout_receiver"
  BY DEF Contracts, Steps, Script
<1> QED  BY <1>1, <1>2, <1>3, <1>4, <1>7, <1>8, <1>9

CtorKeys == {"ctor_adapter", "ctor_manager"}

(* A step calls one of the contracts; the constructor that takes addresses *)
(* is PayoutReceiver's.                                                    *)
LEMMA Targets ==
    /\ \A k : Target(k) \in ContractKeys
    /\ \A k \in CtorKeys : Target(k) = "payout_receiver"
    /\ \A key : CtorArguments(key) \subseteq CtorKeys
    /\ \A key : CtorArguments(key) # {} => key = "payout_receiver"
    /\ CtorArguments("payout_receiver") = CtorKeys
    /\ CtorKeys \cap StepKeys = {}
BY DEF Target, ContractKeys, CtorArguments, CtorKeys, StepKeys

(* What a call passes depends on the recorded addresses alone, unless it   *)
(* is the domain.                                                          *)
LEMMA Arguments ==
    ASSUME NEW addr, NEW other, NEW d, NEW e,
           addr["policy_manager"] = other["policy_manager"],
           addr["settlement_adapter"] = other["settlement_adapter"], NEW k
    PROVE  /\ k \in CtorKeys => Argument(k, addr, d) = Argument(k, other, e)
           /\ /\ k # "cfg_domain"
              /\ addr["policy_nft"] = other["policy_nft"]
              /\ addr["payout_receiver"] = other["payout_receiver"]
              => Argument(k, addr, d) = Argument(k, other, e)
BY DEF Argument, CtorKeys

LEMMA DomainArgument == \A addr, d : Argument("cfg_domain", addr, d) = d
BY DEF Argument

-----------------------------------------------------------------------------
(* What a change of the file or of the chain leaves true.                  *)

(* Naming another domain takes none away.                                  *)
LEMMA DomainsGrow ==
    ASSUME runs \in Seq(Commands), NEW c \in Commands, runs' = Append(runs, c)
    PROVE  /\ runs' \in Seq(Commands)
           /\ NamedDomains \subseteq NamedDomains'
           /\ c.domain \in NamedDomains'
<1>1. /\ runs' \in Seq(Commands)
      /\ Len(runs) \in Nat /\ Len(runs') = Len(runs) + 1
      /\ \A i \in 1 .. Len(runs) : runs'[i] = runs[i]
      /\ runs'[Len(runs) + 1] = c
      /\ DOMAIN runs = 1 .. Len(runs) /\ DOMAIN runs' = 1 .. Len(runs')
  BY AppendProperties, LenProperties
<1>2. Len(runs) + 1 \in DOMAIN runs' /\ DOMAIN runs \subseteq DOMAIN runs'
  BY <1>1
<1> QED  BY <1>1, <1>2 DEF NamedDomains

(* Starting the script records at most a release, and that only in a file  *)
(* without contracts or with the same release.                             *)
LEMMA InvokeStep ==
    ASSUME DeploymentAssumption, DeployInv, NEW c \in Commands, Invoke(c)
    PROVE  DeployInv'
<1>1. /\ c.build \in Releases \cup {"local"} /\ c.dry \in BOOLEAN
      /\ "local" \notin Releases /\ None \notin Releases
  BY DEF DeploymentAssumption
<1>2. /\ Preflight(c.build)
      /\ proc' = [command |-> c, pc |-> 1, sent |-> None, addr |-> << >>]
      /\ state' = IF c.build # "local" /\ ~c.dry THEN [state EXCEPT !.release = c.build] ELSE state
      /\ runs' = Append(runs, c)
      /\ chain' = chain /\ finished' = finished
  BY DEF Invoke
<1>3. /\ runs' \in Seq(Commands)
      /\ NamedDomains \subseteq NamedDomains'
      /\ c.domain \in NamedDomains'
  BY <1>2, DomainsGrow DEF DeployInv
<1>4. /\ DOMAIN state' = DOMAIN state
      /\ state'.addr = state.addr /\ state'.done = state.done /\ state'.domain = state.domain
      /\ state'.release \in Releases \cup {None}
  BY <1>1, <1>2 DEF DeployInv, FileShape
<1>5. FileBuild' = FileBuild \/ DOMAIN state.addr = {}
  <2>1. CASE c.build # "local" /\ ~c.dry
    <3>1. state'.release = c.build /\ c.build # None
      BY <1>1, <1>2, <2>1 DEF DeployInv, FileShape
    <3>2. state.release \in {None, c.build} /\ (state.release = None => DOMAIN state.addr = {})
      BY <1>2, <2>1 DEF Preflight
    <3> QED  BY <3>1, <3>2 DEF FileBuild
  <2>2. CASE ~(c.build # "local" /\ ~c.dry)
    BY <1>2, <2>2 DEF FileBuild
  <2> QED  BY <2>1, <2>2
<1>6. FileShape' /\ ChainShape'
  BY <1>2, <1>4 DEF DeployInv, FileShape, ChainShape
<1>7. FileOnChain'
  <2>1. ASSUME NEW key \in DOMAIN state'.addr
        PROVE  BuiltAs(state.addr[key], key, FileBuild)'
    <3>1. BuiltAs(state.addr[key], key, FileBuild) /\ FileBuild' = FileBuild
      BY <1>4, <1>5, <2>1 DEF DeployInv, FileOnChain
    <3> QED  BY <1>2, <1>4, <3>1 DEF BuiltAs
  <2>2. ASSUME NEW k \in state'.done
        PROVE  InPlace(k)'
    <3>1. InPlace(k)
      BY <1>4, <2>2 DEF DeployInv, FileOnChain
    <3> QED  BY <1>2, <1>3, <1>4, <3>1 DEF InPlace
  <2> QED  BY <2>1, <2>2 DEF FileOnChain
<1>8. ScriptShape'
  BY <1>2, <1>3 DEF ScriptShape
<1>9. ~c.dry => RunOnChain'
  <2> SUFFICES ASSUME ~c.dry PROVE RunOnChain'
    OBVIOUS
  <2>1. proc'.command.build = FileBuild'
    <3>1. CASE c.build = "local"
      BY <1>2, <3>1 DEF Preflight, FileBuild
    <3>2. CASE c.build # "local"
      BY <1>1, <1>2, <3>2 DEF FileBuild, DeployInv, FileShape
    <3> QED  BY <3>1, <3>2
  <2>2. proc'.pc = 1 /\ proc'.sent = None
    BY <1>2
  <2>3. /\ \A i \in 1 .. 4 : ~(i < 1)
        /\ \A i \in 5 .. 15 : ~(i < 1)
    OBVIOUS
  <2> QED  BY <2>1, <2>2, <2>3 DEF RunOnChain
<1>10. FinishedShape'
  BY <1>2, <1>3, <1>4 DEF DeployInv, FinishedShape
<1> QED  BY <1>2, <1>3, <1>6, <1>7, <1>8, <1>9, <1>10 DEF DeployInv

(* A step of the script that neither sends nor records leaves the file and *)
(* the chain as they are.                                                  *)
LEMMA SameFile ==
    ASSUME DeployInv, UNCHANGED <<state, chain, runs>>,
           finished' = finished,
           Running' => ScriptShape' /\ (~proc'.command.dry => RunOnChain')
    PROVE  DeployInv'
<1>1. FileShape' /\ ChainShape' /\ runs' \in Seq(Commands)
  BY DEF DeployInv, FileShape, ChainShape
<1>2. FileOnChain'
  BY DEF DeployInv, FileOnChain, BuiltAs, InPlace, FileBuild, NamedDomains
<1>3. FinishedShape'
  BY DEF DeployInv, FinishedShape, NamedDomains
<1> QED  BY <1>1, <1>2, <1>3 DEF DeployInv

LEMMA Advanced ==
    ASSUME ScriptShape, NEW addr, Advance(addr), proc.pc \in 1 .. 15, UNCHANGED runs
    PROVE  /\ ScriptShape'
           /\ proc'.command = proc.command /\ proc'.addr = addr
           /\ proc'.pc = proc.pc + 1 /\ proc'.sent = None
<1>1. /\ DOMAIN proc = {"command", "pc", "sent", "addr"}
      /\ proc' = [proc EXCEPT !.pc = @ + 1, !.sent = None, !.addr = addr]
  BY DEF ScriptShape, Advance
<1>2. /\ DOMAIN proc' = DOMAIN proc
      /\ proc'.command = proc.command /\ proc'.addr = addr
      /\ proc'.pc = proc.pc + 1 /\ proc'.sent = None
  BY <1>1
<1>3. proc.pc + 1 \in 1 .. 16
  OBVIOUS
<1> QED  BY <1>2, <1>3 DEF ScriptShape, NamedDomains

(* Where the script is.                                                    *)
LEMMA Places ==
    /\ AtDeploy => Running /\ proc.pc <= 4
    /\ AtStep => Running /\ proc.pc \in 5 .. 15
    /\ DeployInv /\ Running => proc.pc \in 1 .. 16
<1>1. Len(Contracts) = 4 /\ Len(Script) = 15
  BY ScriptLayout
<1> QED  BY <1>1 DEF AtDeploy, AtStep, DeployInv, ScriptShape

(* Skipping passes over what is in the file.                               *)
LEMMA SkipDeployStep ==
    ASSUME DeployInv, SkipDeploy
    PROVE  DeployInv'
<1>1. /\ Running /\ proc.pc \in 1 .. 4 /\ Current \in DOMAIN state.addr
      /\ Advance(state_set(proc.addr, Current, state.addr[Current]))
      /\ UNCHANGED <<state, chain, runs>> /\ finished' = finished
  BY Places DEF SkipDeploy
<1>2. ScriptShape /\ (~proc.command.dry => RunOnChain)
  BY <1>1 DEF DeployInv
<1>3. /\ ScriptShape'
      /\ proc'.command = proc.command /\ proc'.pc = proc.pc + 1 /\ proc'.sent = None
      /\ proc'.addr = state_set(proc.addr, Current, state.addr[Current])
  BY <1>1, <1>2, Advanced
<1>4. ASSUME ~proc.command.dry
      PROVE  RunOnChain'
  <2>1. FileBuild' = FileBuild /\ state' = state
    BY <1>1 DEF FileBuild
  <2>2. \A i \in 1 .. 4 :
            i < proc.pc + 1 => /\ Script[i] \in DOMAIN state.addr
                               /\ Script[i] \in DOMAIN proc'.addr
                               /\ proc'.addr[Script[i]] = state.addr[Script[i]]
    <3>1. \A i \in 1 .. 4 : i < proc.pc + 1 => i < proc.pc \/ i = proc.pc
      BY <1>1
    <3>2. /\ DOMAIN proc'.addr = DOMAIN proc.addr \cup {Current}
          /\ proc'.addr[Current] = state.addr[Current]
          /\ \A k \in DOMAIN proc.addr : k # Current => proc'.addr[k] = proc.addr[k]
      BY <1>3 DEF state_set
    <3>3. \A i \in 1 .. 4 :
              i < proc.pc => /\ Script[i] \in DOMAIN state.addr
                             /\ Script[i] \in DOMAIN proc.addr
                             /\ proc.addr[Script[i]] = state.addr[Script[i]]
      BY <1>2, <1>4 DEF RunOnChain
    <3>4. Script[proc.pc] = Current
      BY DEF Current
    <3> SUFFICES ASSUME NEW i \in 1 .. 4, i < proc.pc + 1
                 PROVE  /\ Script[i] \in DOMAIN state.addr
                        /\ Script[i] \in DOMAIN proc'.addr
                        /\ proc'.addr[Script[i]] = state.addr[Script[i]]
      OBVIOUS
    <3>5. CASE Script[i] = Current
      BY <1>1, <3>2, <3>5
    <3>6. CASE Script[i] # Current
      <4>1. i < proc.pc
        BY <3>1, <3>4, <3>6
      <4> QED  BY <3>2, <3>3, <3>6, <4>1
    <3> QED  BY <3>5, <3>6
  <2>3. \A i \in 5 .. 15 : ~(i < proc.pc + 1)
    BY <1>1
  <2> QED  BY <1>2, <1>3, <1>4, <2>1, <2>2, <2>3 DEF RunOnChain
<1> QED  BY <1>1, <1>3, <1>4, SameFile

(* A dry run, a step already done and a crash change no file either.       *)
LEMMA SkipStepStep ==
    ASSUME DeployInv, SkipStep
    PROVE  DeployInv'
<1>1. /\ Running /\ proc.pc \in 5 .. 15
      /\ Current \in state.done \/ proc.command.dry
      /\ Advance(proc.addr)
      /\ UNCHANGED <<state, chain, runs>> /\ finished' = finished
  BY Places DEF SkipStep
<1>2. ScriptShape /\ (~proc.command.dry => RunOnChain)
  BY <1>1 DEF DeployInv
<1>3. /\ ScriptShape'
      /\ proc'.command = proc.command /\ proc'.addr = proc.addr
      /\ proc'.pc = proc.pc + 1 /\ proc'.sent = None
  BY <1>1, <1>2, Advanced
<1>4. ASSUME ~proc.command.dry
      PROVE  RunOnChain'
  <2>1. FileBuild' = FileBuild /\ state' = state
    BY <1>1 DEF FileBuild
  <2>2. \A i \in 1 .. 4 : i < proc.pc
    BY <1>1
  <2>3. \A i \in 5 .. 15 : i < proc.pc + 1 => i < proc.pc \/ i = proc.pc
    BY <1>1
  <2> QED  BY <1>1, <1>2, <1>3, <1>4, <2>1, <2>2, <2>3 DEF RunOnChain, Current
<1> QED  BY <1>1, <1>3, <1>4, SameFile

LEMMA DryDeployStep ==
    ASSUME DeployInv, DryDeploy
    PROVE  DeployInv'
<1>1. /\ Running /\ proc.pc \in 1 .. 4 /\ proc.command.dry
      /\ Advance(state_set(proc.addr, Current, None))
      /\ UNCHANGED <<state, chain, runs>> /\ finished' = finished
  BY Places DEF DryDeploy
<1>2. ScriptShape' /\ proc'.command = proc.command
  BY <1>1, Advanced DEF DeployInv
<1> QED  BY <1>1, <1>2, SameFile

LEMMA CrashStep ==
    ASSUME DeployInv, Crash
    PROVE  DeployInv'
BY SameFile DEF Crash, Running

-----------------------------------------------------------------------------
(* Sending.                                                                *)

(* The contracts of the file, with all the file says of them, survive a    *)
(* transaction that touches neither what is done nor the constructors'     *)
(* references.                                                             *)
SameContracts ==
    \A a \in DOMAIN chain :
        /\ a \in DOMAIN chain'
        /\ chain'[a].key = chain[a].key /\ chain'[a].build = chain[a].build
        /\ \A k \in DOMAIN chain[a].cfg :
              k \in state.done \cup CtorKeys =>
                  k \in DOMAIN chain'[a].cfg /\ chain'[a].cfg[k] = chain[a].cfg[k]

LEMMA ContractsKept ==
    ASSUME DeployInv, SameContracts, UNCHANGED <<state, runs>>
    PROVE  FileOnChain'
<1>1. ASSUME NEW key \in DOMAIN state.addr
      PROVE  BuiltAs(state.addr[key], key, FileBuild)'
  <2>1. PICK a : a = state.addr[key]
    OBVIOUS
  <2>2. BuiltAs(a, key, FileBuild)
    BY <1>1, <2>1 DEF DeployInv, FileOnChain
  <2>3. CtorArguments(key) \subseteq CtorKeys
    BY Targets
  <2>4. BuiltAs(a, key, FileBuild)'
    BY <2>2, <2>3 DEF BuiltAs, SameContracts, FileBuild
  <2> QED  BY <2>1, <2>4
<1>2. ASSUME NEW k \in state.done
      PROVE  InPlace(k)'
  <2>1. InPlace(k) /\ Target(k) \in DOMAIN state.addr
    BY <1>2, Targets DEF DeployInv, FileOnChain, FileShape
  <2>2. PICK a : a = state.addr[Target(k)] /\ a \in DOMAIN chain
    BY <2>1 DEF DeployInv, FileOnChain, BuiltAs
  <2>3. /\ k \in DOMAIN chain[a].cfg
        /\ IF k = "cfg_domain" THEN chain[a].cfg[k] \in NamedDomains
           ELSE chain[a].cfg[k] = Argument(k, state.addr, None)
    BY <2>1, <2>2 DEF InPlace
  <2>4. k \in DOMAIN chain'[a].cfg /\ chain'[a].cfg[k] = chain[a].cfg[k]
    BY <1>2, <2>2, <2>3 DEF SameContracts
  <2>5. NamedDomains' = NamedDomains
    BY DEF NamedDomains
  <2> QED  BY <2>2, <2>3, <2>4, <2>5 DEF InPlace
<1> QED  BY <1>1, <1>2 DEF FileOnChain

(* What a script that sends something keeps.                               *)
LEMMA Sent ==
    ASSUME DeployInv, Running, ~proc.command.dry, NEW x, proc' = [proc EXCEPT !.sent = x],
           UNCHANGED <<state, runs>>
    PROVE  /\ ScriptShape'
           /\ proc'.command = proc.command /\ proc'.addr = proc.addr
           /\ proc'.pc = proc.pc /\ proc'.sent = x
           /\ FileShape' /\ FileBuild' = FileBuild
<1>1. DOMAIN proc = {"command", "pc", "sent", "addr"} /\ ScriptShape
  BY DEF DeployInv, ScriptShape
<1>2. /\ DOMAIN proc' = DOMAIN proc
      /\ proc'.command = proc.command /\ proc'.addr = proc.addr
      /\ proc'.pc = proc.pc /\ proc'.sent = x
  BY <1>1
<1>3. FileShape' /\ FileBuild' = FileBuild /\ NamedDomains' = NamedDomains
  BY DEF DeployInv, FileShape, FileBuild, NamedDomains
<1> QED  BY <1>1, <1>2, <1>3 DEF ScriptShape

(* A deployment puts a new contract, built on the addresses of the file,   *)
(* where there was none.                                                   *)
LEMMA SendDeployStep ==
    ASSUME DeployInv, SendDeploy
    PROVE  DeployInv'
<1>1. PICK a, contract :
          /\ a = Cardinality(DOMAIN chain) + 1
          /\ contract = [key |-> Current, build |-> proc.command.build,
                         cfg |-> [k \in CtorArguments(Current) |->
                                     Argument(k, proc.addr, proc.command.domain)]]
          /\ chain' = state_set(chain, a, contract)
          /\ proc' = [proc EXCEPT !.sent = a]
          /\ Running /\ proc.pc \in 1 .. 4
          /\ Current \notin DOMAIN state.addr /\ ~proc.command.dry
          /\ UNCHANGED <<state, runs>> /\ finished' = finished
  BY Places DEF SendDeploy
<1>2. ScriptShape /\ RunOnChain
  BY <1>1 DEF DeployInv
<1>3. /\ ScriptShape'
      /\ proc'.command = proc.command /\ proc'.addr = proc.addr
      /\ proc'.pc = proc.pc /\ proc'.sent = a
      /\ FileShape' /\ FileBuild' = FileBuild
  BY <1>1, Sent
<1>4. PICK n \in Nat : DOMAIN chain = 1 .. n /\ a = n + 1
  BY <1>1, FS_Interval DEF DeployInv, ChainShape
<1>5. /\ DOMAIN chain' = 1 .. n + 1
      /\ chain'[a] = contract
      /\ \A b \in DOMAIN chain : chain'[b] = chain[b]
  <2>1. DOMAIN chain' = DOMAIN chain \cup {a} /\ a \notin DOMAIN chain
    BY <1>1, <1>4 DEF state_set
  <2>2. DOMAIN chain \cup {a} = 1 .. n + 1
    BY <1>4
  <2> QED  BY <1>1, <2>1, <2>2 DEF state_set
<1>6. ChainShape'
  <2>1. ASSUME NEW b \in DOMAIN chain'
        PROVE  DOMAIN chain'[b] = {"key", "build", "cfg"}
    <3>1. DOMAIN contract = {"key", "build", "cfg"}
      BY <1>1
    <3>2. b = a \/ b \in DOMAIN chain
      BY <1>4, <1>5, <2>1
    <3> QED  BY <1>5, <3>1, <3>2 DEF DeployInv, ChainShape
  <2>2. n + 1 \in Nat
    OBVIOUS
  <2> QED  BY <1>5, <2>1, <2>2 DEF ChainShape
<1>7. SameContracts
  BY <1>4, <1>5 DEF SameContracts
<1>8. FileOnChain'
  BY <1>1, <1>7, ContractsKept
<1>9. BuiltAs(a, Current, FileBuild)'
  <2>1. a \in DOMAIN chain'
    BY <1>4, <1>5
  <2>2. chain'[a].key = Current /\ chain'[a].build = FileBuild
    BY <1>1, <1>2, <1>5 DEF RunOnChain
  <2>3. Current' = Current
    BY <1>3 DEF Current
  <2>4. ASSUME NEW k \in CtorArguments(Current)
        PROVE  /\ k \in DOMAIN chain'[a].cfg
               /\ chain'[a].cfg[k] = Argument(k, state.addr, None)
    <3>1. k \in DOMAIN contract.cfg /\ contract.cfg[k] = Argument(k, proc.addr, proc.command.domain)
      BY <1>1, <2>4
    <3>2. Current = "payout_receiver" /\ k \in CtorKeys
      BY <2>4, Targets
    <3>3. proc.pc = 4
      <4>1. Script[proc.pc] = Script[4] /\ 4 \in 1 .. 4
        BY <3>2, ScriptLayout DEF Current
      <4> QED  BY <1>1, <4>1, ScriptLayout
    <3>4. /\ proc.addr["policy_manager"] = state.addr["policy_manager"]
          /\ proc.addr["settlement_adapter"] = state.addr["settlement_adapter"]
      <4>1. 2 \in 1 .. 4 /\ 3 \in 1 .. 4 /\ 2 < proc.pc /\ 3 < proc.pc
        BY <3>3
      <4> QED  BY <1>2, <4>1, ScriptLayout DEF RunOnChain
    <3>5. Argument(k, proc.addr, proc.command.domain) = Argument(k, state.addr, None)
      BY <3>2, <3>4, Arguments
    <3> QED  BY <1>5, <3>1, <3>5
  <2> QED  BY <1>1, <1>3, <2>1, <2>2, <2>3, <2>4 DEF BuiltAs
<1>10. RunOnChain'
  <2>1. Current' = Current /\ ~(proc.pc \in 5 .. 15)
    BY <1>1, <1>3 DEF Current
  <2>2. (BuiltAs(proc.sent, Current, FileBuild))'
    BY <1>3, <1>9
  <2> QED  BY <1>1, <1>2, <1>3, <2>1, <2>2 DEF RunOnChain
<1>11. FinishedShape' /\ runs' \in Seq(Commands)
  BY <1>1 DEF DeployInv, FinishedShape, NamedDomains
<1> QED  BY <1>3, <1>6, <1>8, <1>10, <1>11 DEF DeployInv

(* A step adds its own entry to its contract's configuration.              *)
LEMMA SendStepStep ==
    ASSUME DeployInv, SendStep
    PROVE  DeployInv'
<1>1. PICK t, value :
          /\ t = proc.addr[Target(Current)]
          /\ value = Argument(Current, proc.addr, proc.command.domain)
          /\ chain' = [chain EXCEPT ![t] =
                          [chain[t] EXCEPT !.cfg = state_set(chain[t].cfg, Current, value)]]
          /\ proc' = [proc EXCEPT !.sent = Current]
          /\ Running /\ proc.pc \in 5 .. 15
          /\ Current \notin state.done /\ ~proc.command.dry
          /\ UNCHANGED <<state, runs>> /\ finished' = finished
  BY Places DEF SendStep, StepEffect
<1>2. ScriptShape /\ RunOnChain
  BY <1>1 DEF DeployInv
<1>3. /\ ScriptShape'
      /\ proc'.command = proc.command /\ proc'.addr = proc.addr
      /\ proc'.pc = proc.pc /\ proc'.sent = Current
      /\ FileShape' /\ FileBuild' = FileBuild
  BY <1>1, Sent
<1>4. ASSUME NEW key \in ContractKeys
      PROVE  key \in DOMAIN state.addr /\ proc.addr[key] = state.addr[key]
  <2>1. PICK i \in 1 .. 4 : Script[i] = key
    BY ScriptLayout
  <2>2. i < proc.pc
    BY <1>1
  <2> QED  BY <1>2, <2>1, <2>2 DEF RunOnChain
<1>5. /\ t \in DOMAIN chain /\ t = state.addr[Target(Current)]
      /\ DOMAIN chain[t] = {"key", "build", "cfg"}
  <2>1. Target(Current) \in DOMAIN state.addr /\ t = state.addr[Target(Current)]
    BY <1>1, <1>4, Targets
  <2> QED  BY <2>1 DEF DeployInv, FileOnChain, BuiltAs, ChainShape
<1>6. /\ DOMAIN chain' = DOMAIN chain
      /\ \A b \in DOMAIN chain : b # t => chain'[b] = chain[b]
      /\ DOMAIN chain'[t] = DOMAIN chain[t]
      /\ chain'[t].key = chain[t].key /\ chain'[t].build = chain[t].build
      /\ chain'[t].cfg = state_set(chain[t].cfg, Current, value)
  BY <1>1, <1>5
<1>7. /\ Current \in DOMAIN chain'[t].cfg /\ chain'[t].cfg[Current] = value
      /\ \A k \in DOMAIN chain[t].cfg :
            k # Current => k \in DOMAIN chain'[t].cfg /\ chain'[t].cfg[k] = chain[t].cfg[k]
  BY <1>6 DEF state_set
<1>8. Current \in StepKeys /\ Current \notin CtorKeys
  BY <1>1, ScriptLayout, Targets DEF Current
<1>9. SameContracts
  <2>1. ASSUME NEW b \in DOMAIN chain, NEW k \in DOMAIN chain[b].cfg,
               k \in state.done \cup CtorKeys
        PROVE  k \in DOMAIN chain'[b].cfg /\ chain'[b].cfg[k] = chain[b].cfg[k]
    BY <1>1, <1>6, <1>7, <1>8, <2>1
  <2> QED  BY <1>6, <2>1 DEF SameContracts
<1>10. FileOnChain'
  BY <1>1, <1>9, ContractsKept
<1>11. ChainShape'
  BY <1>6 DEF DeployInv, ChainShape
<1>12. InPlace(Current)'
  <2>1. Current' = Current /\ proc.command.domain \in NamedDomains'
    BY <1>1, <1>2, <1>3 DEF Current, ScriptShape, NamedDomains
  <2>2. state'.addr[Target(Current)] = t
    BY <1>1, <1>5
  <2>3. IF Current = "cfg_domain" THEN value \in NamedDomains'
        ELSE value = Argument(Current, state.addr, None)
    <3>1. CASE Current = "cfg_domain"
      BY <1>1, <2>1, <3>1, DomainArgument
    <3>2. CASE Current # "cfg_domain"
      <4>1. \A key \in ContractKeys : proc.addr[key] = state.addr[key]
        BY <1>4
      <4>2. /\ proc.addr["policy_nft"] = state.addr["policy_nft"]
            /\ proc.addr["policy_manager"] = state.addr["policy_manager"]
            /\ proc.addr["settlement_adapter"] = state.addr["settlement_adapter"]
            /\ proc.addr["payout_receiver"] = state.addr["payout_receiver"]
        BY <4>1 DEF ContractKeys
      <4> QED  BY <1>1, <3>2, <4>2, Arguments
    <3> QED  BY <3>1, <3>2
  <2> QED  BY <1>1, <1>7, <2>1, <2>2, <2>3 DEF InPlace
<1>13. RunOnChain'
  <2>1. Current' = Current /\ ~(proc.pc \in 1 .. 4)
    BY <1>1, <1>3 DEF Current
  <2> QED  BY <1>1, <1>2, <1>3, <1>12, <2>1 DEF RunOnChain
<1>14. FinishedShape' /\ runs' \in Seq(Commands)
  BY <1>1 DEF DeployInv, FinishedShape, NamedDomains
<1> QED  BY <1>3, <1>10, <1>11, <1>13, <1>14 DEF DeployInv

-----------------------------------------------------------------------------
(* Recording.                                                              *)

LEMMA RecordDeployStep ==
    ASSUME DeployInv, RecordDeploy
    PROVE  DeployInv'
<1>1. /\ Running /\ proc.pc \in 1 .. 4 /\ proc.sent # None
      /\ state' = [state EXCEPT !.addr = state_set(state.addr, Current, proc.sent)]
      /\ Advance(state_set(proc.addr, Current, proc.sent))
      /\ UNCHANGED <<chain, runs>> /\ finished' = finished
  BY Places DEF RecordDeploy
<1>2. ScriptShape /\ ~proc.command.dry /\ RunOnChain
  BY <1>1 DEF DeployInv, ScriptShape
<1>3. /\ Current \notin DOMAIN state.addr
      /\ BuiltAs(proc.sent, Current, FileBuild)
      /\ Current \in ContractKeys /\ Script[proc.pc] = Current
  BY <1>1, <1>2, ScriptLayout DEF RunOnChain, Current
<1>4. /\ ScriptShape'
      /\ proc'.command = proc.command /\ proc'.pc = proc.pc + 1 /\ proc'.sent = None
      /\ proc'.addr = state_set(proc.addr, Current, proc.sent)
  BY <1>1, <1>2, Advanced
<1>5. /\ DOMAIN state' = DOMAIN state
      /\ state'.addr = state_set(state.addr, Current, proc.sent)
      /\ state'.done = state.done /\ state'.release = state.release
      /\ state'.domain = state.domain
      /\ FileBuild' = FileBuild
  BY <1>1 DEF DeployInv, FileShape, FileBuild
<1>6. /\ DOMAIN state'.addr = DOMAIN state.addr \cup {Current}
      /\ state'.addr[Current] = proc.sent
      /\ \A k \in DOMAIN state.addr : state'.addr[k] = state.addr[k]
  BY <1>3, <1>5 DEF state_set
<1>7. state.done = {} /\ ~finished
  BY <1>3 DEF DeployInv, FileShape, FinishedShape
<1>8. FileShape'
  <2>1. ASSUME NEW i \in 1 .. 4, NEW j \in 1 .. 4, i < j, Script[j] \in DOMAIN state'.addr
        PROVE  Script[i] \in DOMAIN state'.addr
    <3>1. CASE Script[j] = Current
      <4>1. j = proc.pc
        BY <1>1, <1>3, <3>1, ScriptLayout
      <4> QED  BY <1>2, <1>6, <2>1, <4>1 DEF RunOnChain
    <3>2. CASE Script[j] # Current
      BY <1>6, <2>1, <3>2 DEF DeployInv, FileShape
    <3> QED  BY <3>1, <3>2
  <2> QED  BY <1>3, <1>5, <1>6, <1>7, <2>1 DEF DeployInv, FileShape
<1>9. ASSUME NEW key \in DOMAIN state'.addr
      PROVE  BuiltAs(state.addr[key], key, FileBuild)'
  <2>1. PICK a : a = state'.addr[key] /\ BuiltAs(a, key, FileBuild)
    <3>1. CASE key = Current
      BY <1>3, <1>6, <3>1
    <3>2. CASE key # Current
      BY <1>6, <1>9, <3>2 DEF DeployInv, FileOnChain
    <3> QED  BY <3>1, <3>2
  <2>2. ASSUME NEW k \in CtorArguments(key)
        PROVE  Argument(k, state'.addr, None) = Argument(k, state.addr, None)
    <3>1. key = "payout_receiver" /\ k \in CtorKeys
      BY <2>2, Targets
    <3>2. /\ "policy_manager" \in DOMAIN state.addr
          /\ "settlement_adapter" \in DOMAIN state.addr
      <4>1. 2 \in 1 .. 4 /\ 3 \in 1 .. 4 /\ 4 \in 1 .. 4 /\ 2 < 4 /\ 3 < 4
        OBVIOUS
      <4>2. CASE key = Current
        <5>1. Script[proc.pc] = Script[4]
          BY <1>3, <3>1, <4>2, ScriptLayout
        <5>2. proc.pc = 4
          BY <1>1, <4>1, <5>1, ScriptLayout
        <5> QED  BY <1>2, <4>1, <5>2, ScriptLayout DEF RunOnChain
      <4>3. CASE key # Current
        <5>1. Script[4] \in DOMAIN state.addr
          BY <1>6, <1>9, <3>1, <4>3, ScriptLayout
        <5> QED  BY <4>1, <5>1, ScriptLayout DEF DeployInv, FileShape
      <4> QED  BY <4>2, <4>3
    <3> QED  BY <1>6, <3>1, <3>2, Arguments
  <2>3. BuiltAs(a, key, FileBuild)'
    BY <1>1, <1>5, <2>1, <2>2 DEF BuiltAs
  <2> QED  BY <2>1, <2>3
<1>10. FileOnChain'
  BY <1>5, <1>7, <1>9 DEF FileOnChain
<1>11. RunOnChain'
  <2>1. \A i \in 1 .. 4 : i < proc.pc + 1 => i < proc.pc \/ i = proc.pc
    BY <1>1
  <2>2. ASSUME NEW i \in 1 .. 4, i < proc.pc + 1
        PROVE  /\ Script[i] \in DOMAIN state'.addr
               /\ Script[i] \in DOMAIN proc'.addr
               /\ proc'.addr[Script[i]] = state'.addr[Script[i]]
    <3>1. CASE Script[i] = Current
      BY <1>4, <1>5, <3>1 DEF state_set
    <3>2. CASE Script[i] # Current
      <4>1. /\ Script[i] \in DOMAIN state.addr /\ Script[i] \in DOMAIN proc.addr
            /\ proc.addr[Script[i]] = state.addr[Script[i]]
        BY <1>2, <1>3, <2>1, <2>2, <3>2 DEF RunOnChain
      <4> QED  BY <1>4, <1>5, <3>2, <4>1 DEF state_set
    <3> QED  BY <3>1, <3>2
  <2>3. \A i \in 5 .. 15 : ~(i < proc.pc + 1)
    BY <1>1
  <2> QED  BY <1>2, <1>4, <1>5, <2>2, <2>3 DEF RunOnChain
<1>12. ChainShape' /\ FinishedShape' /\ runs' \in Seq(Commands)
  BY <1>1, <1>7 DEF DeployInv, ChainShape, FinishedShape
<1> QED  BY <1>4, <1>8, <1>10, <1>11, <1>12 DEF DeployInv

(* A step is recorded once it took effect.                                 *)
LEMMA RecordStepStep ==
    ASSUME DeployInv, RecordStep
    PROVE  DeployInv'
<1>1. /\ Running /\ proc.pc \in 5 .. 15 /\ proc.sent # None
      /\ state' = [state EXCEPT !.done = state.done \cup {Current}]
      /\ Advance(proc.addr)
      /\ UNCHANGED <<chain, runs>> /\ finished' = finished
  BY Places DEF RecordStep
<1>2. ScriptShape /\ ~proc.command.dry /\ RunOnChain
  BY <1>1 DEF DeployInv, ScriptShape
<1>3. /\ ScriptShape'
      /\ proc'.command = proc.command /\ proc'.addr = proc.addr
      /\ proc'.pc = proc.pc + 1 /\ proc'.sent = None
  BY <1>1, <1>2, Advanced
<1>4. /\ DOMAIN state' = DOMAIN state
      /\ state'.addr = state.addr /\ state'.release = state.release
      /\ state'.domain = state.domain
      /\ state'.done = state.done \cup {Current}
      /\ FileBuild' = FileBuild
  BY <1>1 DEF DeployInv, FileShape, FileBuild
<1>5. Current \in StepKeys /\ Script[proc.pc] = Current
  BY <1>1, ScriptLayout DEF Current
<1>6. DOMAIN state.addr = ContractKeys
  <2>1. ASSUME NEW key \in ContractKeys PROVE key \in DOMAIN state.addr
    <3>1. PICK i \in 1 .. 4 : Script[i] = key
      BY ScriptLayout
    <3>2. i < proc.pc
      BY <1>1
    <3> QED  BY <1>2, <3>1, <3>2 DEF RunOnChain
  <2> QED  BY <2>1 DEF DeployInv, FileShape
<1>7. FileShape'
  BY <1>4, <1>5, <1>6 DEF DeployInv, FileShape
<1>8. FileOnChain'
  <2>1. ASSUME NEW key \in DOMAIN state'.addr
        PROVE  BuiltAs(state.addr[key], key, FileBuild)'
    <3>1. BuiltAs(state.addr[key], key, FileBuild)
      BY <1>4, <2>1 DEF DeployInv, FileOnChain
    <3> QED  BY <1>1, <1>4, <3>1 DEF BuiltAs
  <2>2. ASSUME NEW k \in state'.done
        PROVE  InPlace(k)'
    <3>1. InPlace(Current)
      BY <1>1, <1>2 DEF RunOnChain
    <3>2. InPlace(k)
      BY <1>4, <2>2, <3>1 DEF DeployInv, FileOnChain
    <3> QED  BY <1>1, <1>4, <3>2 DEF InPlace, NamedDomains
  <2> QED  BY <2>1, <2>2 DEF FileOnChain
<1>9. RunOnChain'
  <2>1. \A i \in 1 .. 4 : i < proc.pc
    BY <1>1
  <2>2. \A i \in 5 .. 15 : i < proc.pc + 1 => i < proc.pc \/ i = proc.pc
    BY <1>1
  <2>3. \A i \in 5 .. 15 : i < proc.pc + 1 => Script[i] \in state'.done
    BY <1>2, <1>4, <1>5, <2>2 DEF RunOnChain
  <2> QED  BY <1>2, <1>3, <1>4, <2>1, <2>3 DEF RunOnChain
<1>10. ChainShape' /\ runs' \in Seq(Commands)
  BY <1>1 DEF DeployInv, ChainShape
<1>11. FinishedShape'
  BY <1>1, <1>4 DEF DeployInv, FinishedShape, NamedDomains
<1> QED  BY <1>3, <1>7, <1>8, <1>9, <1>10, <1>11 DEF DeployInv

(* A run that gets to the end has everything behind it.                    *)
LEMMA FinishStep ==
    ASSUME DeploymentAssumption, DeployInv, Finish
    PROVE  DeployInv'
<1>1. /\ Running /\ proc.pc > 15
      /\ state' = [state EXCEPT !.domain = proc.command.domain]
      /\ finished' = (finished \/ ~proc.command.dry)
      /\ proc' = None
      /\ UNCHANGED <<chain, runs>>
  BY ScriptLayout DEF Finish
<1>2. ScriptShape /\ (~proc.command.dry => RunOnChain)
  BY <1>1 DEF DeployInv
<1>3. /\ DOMAIN state' = DOMAIN state
      /\ state'.addr = state.addr /\ state'.done = state.done
      /\ state'.release = state.release /\ state'.domain = proc.command.domain
      /\ FileBuild' = FileBuild
  BY <1>1 DEF DeployInv, FileShape, FileBuild
<1>4. FileShape' /\ ChainShape' /\ runs' \in Seq(Commands)
  BY <1>1, <1>3 DEF DeployInv, FileShape, ChainShape
<1>5. FileOnChain'
  <2>1. ASSUME NEW key \in DOMAIN state.addr
        PROVE  BuiltAs(state.addr[key], key, FileBuild)'
    BY <1>1, <1>3, <2>1 DEF DeployInv, FileOnChain, BuiltAs
  <2>2. ASSUME NEW k \in state.done
        PROVE  InPlace(k)'
    BY <1>1, <1>3, <2>2 DEF DeployInv, FileOnChain, InPlace, NamedDomains
  <2> QED  BY <1>3, <2>1, <2>2 DEF FileOnChain
<1>6. ASSUME ~proc.command.dry
      PROVE  DOMAIN state.addr = ContractKeys /\ StepKeys \subseteq state.done
  <2>1. \A i \in 1 .. 4 : i < proc.pc
    BY <1>1, <1>2 DEF ScriptShape
  <2>2. \A i \in 5 .. 15 : i < proc.pc
    BY <1>1, <1>2 DEF ScriptShape
  <2>3. ASSUME NEW key \in ContractKeys PROVE key \in DOMAIN state.addr
    <3>1. PICK i \in 1 .. 4 : Script[i] = key
      BY ScriptLayout
    <3> QED  BY <1>2, <1>6, <2>1, <3>1 DEF RunOnChain
  <2>4. ASSUME NEW k \in StepKeys PROVE k \in state.done
    <3>1. PICK i \in 5 .. 15 : Script[i] = k
      BY ScriptLayout
    <3> QED  BY <1>2, <1>6, <2>2, <3>1 DEF RunOnChain
  <2> QED  BY <2>3, <2>4 DEF DeployInv, FileShape
<1>7. FinishedShape'
  <2>1. state'.domain \in NamedDomains'
    BY <1>1, <1>2, <1>3 DEF ScriptShape, NamedDomains
  <2>2. finished' => DOMAIN state.addr = ContractKeys /\ StepKeys \subseteq state.done
    BY <1>1, <1>6 DEF DeployInv, FinishedShape
  <2> QED  BY <1>3, <2>1, <2>2 DEF FinishedShape
<1>8. ~Running'
  BY <1>1 DEF Running
<1> QED  BY <1>4, <1>5, <1>7, <1>8 DEF DeployInv

-----------------------------------------------------------------------------
(* Whenever the script dies and however it is run again, the file and the  *)
(* chain agree, until an address could not be written.                     *)
SafeInv == lost \in Nat /\ (lost = 0 => DeployInv)

(* What the file and the chain are before the first run.                   *)
LEMMA Fresh ==
    ASSUME Init
    PROVE  /\ state = [addr |-> << >>, done |-> {}, release |-> None, domain |-> None]
           /\ DOMAIN state = {"addr", "done", "release", "domain"}
           /\ DOMAIN state.addr = {} /\ state.done = {} /\ state.release = None
           /\ ChainShape /\ ~Running
<1>1. /\ state = [addr |-> << >>, done |-> {}, release |-> None, domain |-> None]
      /\ chain = << >> /\ ~Running
  BY DEF Init, Running
<1>2. 0 \in Nat /\ 1 .. 0 = {} /\ DOMAIN chain = 1 .. 0
  BY <1>1
<1>3. ChainShape
  BY <1>2 DEF ChainShape
<1> QED  BY <1>1, <1>3

(* LoseRecord alone counts a lost address, and no step forgets one.        *)
THEOREM DeploymentCorrect == Spec => []SafeInv
<1>1. Init => SafeInv
  <2> SUFFICES ASSUME Init PROVE DeployInv /\ lost = 0
    BY DEF SafeInv
  <2>1. runs = << >> /\ ~finished /\ lost = 0
    BY DEF Init
  <2>2. FileShape /\ FileOnChain /\ FinishedShape
    BY <2>1, Fresh DEF FileShape, FileOnChain, FinishedShape
  <2>3. runs \in Seq(Commands)
    BY <2>1
  <2> QED  BY <2>1, <2>2, <2>3, Fresh DEF DeployInv
<1>2. SafeInv /\ [Next]_deployVars => SafeInv'
  <2> SUFFICES ASSUME SafeInv, [Next]_deployVars PROVE SafeInv'
    OBVIOUS
  <2>1. CASE LoseRecord
    <3>1. lost \in Nat /\ lost' = lost + 1
      BY <2>1 DEF LoseRecord, SafeInv
    <3>2. lost' \in Nat /\ lost' # 0
      BY <3>1
    <3> QED  BY <3>2 DEF SafeInv
  <2>2. CASE UNCHANGED deployVars
    <3> SUFFICES ASSUME DeployInv PROVE DeployInv'
      BY <2>2 DEF deployVars, SafeInv
    <3>1. UNCHANGED <<state, chain, runs, proc>> /\ finished' = finished
      BY <2>2 DEF deployVars
    <3>2. Running' => ScriptShape' /\ (~proc'.command.dry => RunOnChain')
      BY <3>1 DEF DeployInv, Running, ScriptShape, RunOnChain, NamedDomains, FileBuild,
                  BuiltAs, InPlace, Current
    <3> QED  BY <3>1, <3>2, SameFile
  <2>3. CASE Next /\ ~LoseRecord
    <3>1. lost' = lost
      BY <2>3 DEF Next, ScriptStep, Invoke, SkipDeploy, DryDeploy, SendDeploy, RecordDeploy,
                  SkipStep, SendStep, RecordStep, Finish, Crash
    <3> SUFFICES ASSUME DeployInv PROVE DeployInv'
      BY <3>1 DEF SafeInv
    <3> QED  BY <2>3, DeploymentAssumption, InvokeStep, SkipDeployStep, DryDeployStep,
                SendDeployStep, RecordDeployStep, SkipStepStep, SendStepStep, RecordStepStep,
                FinishStep, CrashStep DEF Next, ScriptStep
  <2> QED  BY <2>1, <2>2, <2>3
<1> QED  BY <1>1, <1>2, PTL DEF Spec

(* A resumed run skips by the state file alone, and rightly unless an      *)
(* address could not be written: every address the file holds is a         *)
(* contract of that kind built on its addresses, and every step it calls   *)
(* done took effect (deploy.sh: deploy, step).                             *)
THEOREM FileIsOnChain == Spec => []RecordedIsOnChain
<1>1. SafeInv => RecordedIsOnChain
  <2> SUFFICES ASSUME SafeInv, lost = 0 PROVE RecordedIsOnChain
    BY DEF RecordedIsOnChain
  <2> USE DEF SafeInv
  <2>1. ASSUME NEW key \in DOMAIN state.addr
        PROVE  LET c == chain[state.addr[key]] IN
               /\ c.key = key
               /\ \A k \in CtorArguments(key) : c.cfg[k] = Argument(k, state.addr, None)
    BY <2>1 DEF DeployInv, FileOnChain, BuiltAs
  <2>2. ASSUME NEW k \in state.done, k # "cfg_domain"
        PROVE  EffectInPlace(k)
    <3>1. InPlace(k)
      BY <2>2 DEF DeployInv, FileOnChain
    <3>2. Argument(k, state.addr, None) = Argument(k, state.addr, state.domain)
      BY <2>2, Arguments
    <3> QED  BY <2>2, <3>1, <3>2 DEF InPlace, EffectInPlace
  <2>3. "cfg_domain" \in state.done =>
            "cfg_domain" \in DOMAIN chain[state.addr["payout_receiver"]].cfg
    <3>1. Target("cfg_domain") = "payout_receiver"
      BY DEF Target
    <3> QED  BY <3>1 DEF DeployInv, FileOnChain, InPlace
  <2> QED  BY <2>1, <2>2, <2>3 DEF RecordedIsOnChain
<1> QED  BY <1>1, DeploymentCorrect, PTL

(* A deployment that got through passes verify-deployment.sh, if every run *)
(* named the same domain and every address could be written.               *)
THEOREM FinishedVerifies == Spec => []FinishedDeploymentVerifies
<1>1. SafeInv => FinishedDeploymentVerifies
  <2> SUFFICES ASSUME DeployInv, finished, Cardinality(NamedDomains) = 1
               PROVE  VerifyDeployment
    BY DEF SafeInv, FinishedDeploymentVerifies, NamedDomains
  <2>1. /\ DOMAIN state.addr = ContractKeys /\ StepKeys \subseteq state.done
        /\ state.domain \in NamedDomains
    BY DEF DeployInv, FinishedShape
  <2>2. \A d \in NamedDomains : d = state.domain
    <3>1. IsFiniteSet(NamedDomains)
      <4>1. runs \in Seq(Commands) /\ DOMAIN runs = 1 .. Len(runs) /\ Len(runs) \in Nat
        BY LenProperties DEF DeployInv
      <4>2. IsFiniteSet(DOMAIN runs)
        BY <4>1, FS_Interval
      <4> DEFINE domainOf == [i \in DOMAIN runs |-> runs[i].domain]
      <4>3. domainOf \in Surjection(DOMAIN runs, NamedDomains)
        BY DEF NamedDomains, Surjection
      <4> QED  BY <4>2, <4>3, FS_Surjection
    <3>2. PICK d : NamedDomains = {d}
      BY <3>1, FS_Singleton
    <3> QED  BY <2>1, <3>2
  <2>3. ASSUME NEW k \in StepKeys PROVE EffectInPlace(k)
    <3>1. InPlace(k)
      BY <2>1, <2>3 DEF DeployInv, FileOnChain
    <3>2. CASE k = "cfg_domain"
      <4>1. Argument(k, state.addr, state.domain) = state.domain
        BY <3>2, DomainArgument
      <4> QED  BY <2>2, <3>1, <3>2, <4>1 DEF InPlace, EffectInPlace
    <3>3. CASE k # "cfg_domain"
      <4>1. Argument(k, state.addr, None) = Argument(k, state.addr, state.domain)
        BY <3>3, Arguments
      <4> QED  BY <3>1, <3>3, <4>1 DEF InPlace, EffectInPlace
    <3> QED  BY <3>2, <3>3
  <2>4. ASSUME NEW k \in CtorKeys PROVE EffectInPlace(k)
    <3>1. Target(k) = "payout_receiver" /\ k \in CtorArguments("payout_receiver")
      BY <2>4, Targets
    <3>2. "payout_receiver" \in DOMAIN state.addr
      BY <2>1 DEF ContractKeys
    <3>3. /\ k \in DOMAIN chain[state.addr["payout_receiver"]].cfg
          /\ chain[state.addr["payout_receiver"]].cfg[k] = Argument(k, state.addr, None)
      BY <3>1, <3>2 DEF DeployInv, FileOnChain, BuiltAs
    <3>4. Argument(k, state.addr, None) = Argument(k, state.addr, state.domain)
      BY <2>4, Arguments
    <3> QED  BY <3>1, <3>3, <3>4 DEF EffectInPlace
  <2>5. VerifiedEffects = StepKeys \cup CtorKeys
    BY DEF VerifiedEffects, StepKeys, CtorKeys
  <2>6. \A i \in DOMAIN Contracts : Contracts[i] \in DOMAIN state.addr
    BY <2>1, ScriptLayout
  <2> QED  BY <2>3, <2>4, <2>5, <2>6 DEF VerifyDeployment
<1> QED  BY <1>1, DeploymentCorrect, PTL

-----------------------------------------------------------------------------
(* One build, also when addresses were lost: what the file says then says  *)
(* less of the chain, but preflight looks at the file alone.               *)

Built(a, build) == a \in DOMAIN chain /\ chain[a].build = build

RunBuild ==
    /\ DOMAIN proc = {"command", "pc", "sent", "addr"}
    /\ proc.command.dry => proc.sent = None
    /\ ~proc.command.dry => proc.command.build = FileBuild
    /\ AtDeploy /\ proc.sent # None => Built(proc.sent, FileBuild)

BuildInv ==
    /\ DOMAIN state = {"addr", "done", "release", "domain"}
    /\ state.release \in Releases \cup {None}
    /\ ChainShape
    /\ \A key \in DOMAIN state.addr : Built(state.addr[key], FileBuild)
    /\ Running => RunBuild

SameBuilds == \A a \in DOMAIN chain : a \in DOMAIN chain' /\ chain'[a].build = chain[a].build

(* Contracts keep their build, and the file its contracts and its release. *)
LEMMA BuildsKept ==
    ASSUME BuildInv, SameBuilds, ChainShape', DOMAIN state' = DOMAIN state,
           state'.addr = state.addr, state'.release = state.release, Running' => RunBuild'
    PROVE  BuildInv'
<1>1. FileBuild' = FileBuild
  BY DEF FileBuild
<1>2. \A key \in DOMAIN state.addr : Built(state.addr[key], FileBuild)'
  BY <1>1 DEF BuildInv, SameBuilds, Built
<1> QED  BY <1>2 DEF BuildInv

(* A script that goes on has nothing sent that it did not record.          *)
LEMMA GoesOn ==
    ASSUME BuildInv, Running, NEW addr, Advance(addr), state'.release = state.release
    PROVE  RunBuild'
<1>1. RunBuild /\ FileBuild' = FileBuild
  BY DEF BuildInv, FileBuild
<1>2. /\ DOMAIN proc' = {"command", "pc", "sent", "addr"}
      /\ proc'.command = proc.command /\ proc'.sent = None
  BY <1>1 DEF RunBuild, Advance
<1> QED  BY <1>1, <1>2 DEF RunBuild

(* Preflight lets a script begin only with the build of the file.          *)
LEMMA InvokeBuild ==
    ASSUME DeploymentAssumption, BuildInv, NEW c \in Commands, Invoke(c)
    PROVE  BuildInv'
<1>1. /\ c.build \in Releases \cup {"local"} /\ c.dry \in BOOLEAN
      /\ "local" \notin Releases /\ None \notin Releases
  BY DEF DeploymentAssumption
<1>2. /\ Preflight(c.build)
      /\ proc' = [command |-> c, pc |-> 1, sent |-> None, addr |-> << >>]
      /\ state' = IF c.build # "local" /\ ~c.dry THEN [state EXCEPT !.release = c.build] ELSE state
      /\ chain' = chain
  BY DEF Invoke
<1>3. /\ DOMAIN state' = DOMAIN state /\ state'.addr = state.addr
      /\ state'.release \in Releases \cup {None}
  BY <1>1, <1>2 DEF BuildInv
<1>4. FileBuild' = FileBuild \/ DOMAIN state.addr = {}
  <2>1. CASE c.build # "local" /\ ~c.dry
    <3>1. state'.release = c.build /\ c.build # None
      BY <1>1, <1>2, <2>1 DEF BuildInv
    <3>2. state.release \in {None, c.build} /\ (state.release = None => DOMAIN state.addr = {})
      BY <1>2, <2>1 DEF Preflight
    <3> QED  BY <3>1, <3>2 DEF FileBuild
  <2>2. CASE ~(c.build # "local" /\ ~c.dry)
    BY <1>2, <2>2 DEF FileBuild
  <2> QED  BY <2>1, <2>2
<1>5. ~c.dry => c.build = FileBuild'
  <2>1. CASE c.build = "local"
    BY <1>2, <2>1 DEF Preflight, FileBuild
  <2>2. CASE c.build # "local"
    BY <1>1, <1>2, <2>2 DEF FileBuild, BuildInv
  <2> QED  BY <2>1, <2>2
<1>6. RunBuild'
  BY <1>2, <1>5 DEF RunBuild
<1>7. \A key \in DOMAIN state'.addr : Built(state.addr[key], FileBuild)'
  BY <1>2, <1>3, <1>4 DEF BuildInv, Built
<1> QED  BY <1>2, <1>3, <1>6, <1>7 DEF BuildInv, ChainShape

(* A deployed contract has the build of the run that sent it.              *)
LEMMA SendDeployBuild ==
    ASSUME BuildInv, SendDeploy
    PROVE  BuildInv'
<1>1. PICK a, contract :
          /\ a = Cardinality(DOMAIN chain) + 1
          /\ contract = [key |-> Current, build |-> proc.command.build,
                         cfg |-> [k \in CtorArguments(Current) |->
                                     Argument(k, proc.addr, proc.command.domain)]]
          /\ chain' = state_set(chain, a, contract)
          /\ proc' = [proc EXCEPT !.sent = a]
          /\ Running /\ ~proc.command.dry /\ state' = state
  BY DEF SendDeploy, AtDeploy
<1>2. RunBuild /\ FileBuild' = FileBuild
  BY <1>1 DEF BuildInv, FileBuild
<1>3. PICK n \in Nat : DOMAIN chain = 1 .. n /\ a = n + 1
  BY <1>1, FS_Interval DEF BuildInv, ChainShape
<1>4. /\ DOMAIN chain' = 1 .. n + 1
      /\ chain'[a] = contract
      /\ \A b \in DOMAIN chain : chain'[b] = chain[b]
  <2>1. DOMAIN chain' = DOMAIN chain \cup {a} /\ a \notin DOMAIN chain
    BY <1>1, <1>3 DEF state_set
  <2>2. DOMAIN chain \cup {a} = 1 .. n + 1
    BY <1>3
  <2> QED  BY <1>1, <2>1, <2>2 DEF state_set
<1>5. ChainShape'
  <2>1. ASSUME NEW b \in DOMAIN chain'
        PROVE  DOMAIN chain'[b] = {"key", "build", "cfg"}
    <3>1. DOMAIN contract = {"key", "build", "cfg"}
      BY <1>1
    <3>2. b = a \/ b \in DOMAIN chain
      BY <1>3, <1>4, <2>1
    <3> QED  BY <1>4, <3>1, <3>2 DEF BuildInv, ChainShape
  <2>2. n + 1 \in Nat
    OBVIOUS
  <2> QED  BY <1>4, <2>1, <2>2 DEF ChainShape
<1>6. SameBuilds
  BY <1>3, <1>4 DEF SameBuilds
<1>7. Built(a, FileBuild)'
  <2>1. a \in DOMAIN chain' /\ chain'[a].build = proc.command.build
    BY <1>1, <1>3, <1>4
  <2> QED  BY <1>1, <1>2, <2>1 DEF Built, RunBuild
<1>8. RunBuild'
  <2>1. /\ DOMAIN proc' = DOMAIN proc
        /\ proc'.command = proc.command /\ proc'.sent = a
    BY <1>1, <1>2 DEF RunBuild
  <2> QED  BY <1>1, <1>2, <1>7, <2>1 DEF RunBuild
<1> QED  BY <1>1, <1>5, <1>6, <1>8, BuildsKept

(* A step configures a contract and rebuilds none.                         *)
LEMMA SendStepBuild ==
    ASSUME BuildInv, SendStep
    PROVE  BuildInv'
<1>1. PICK t, value :
          /\ chain' = [chain EXCEPT ![t] =
                          [chain[t] EXCEPT !.cfg = state_set(chain[t].cfg, Current, value)]]
          /\ proc' = [proc EXCEPT !.sent = Current]
          /\ Running /\ proc.pc \in 5 .. 15 /\ ~proc.command.dry /\ state' = state
  BY Places DEF SendStep, StepEffect
<1>2. RunBuild /\ FileBuild' = FileBuild
  BY <1>1 DEF BuildInv, FileBuild
<1>3. /\ DOMAIN chain' = DOMAIN chain
      /\ \A b \in DOMAIN chain : /\ DOMAIN chain'[b] = DOMAIN chain[b]
                                 /\ chain'[b].build = chain[b].build
  <2>1. \A b \in DOMAIN chain : DOMAIN chain[b] = {"key", "build", "cfg"}
    BY DEF BuildInv, ChainShape
  <2>2. DOMAIN chain' = DOMAIN chain
    BY <1>1
  <2>3. ASSUME NEW b \in DOMAIN chain
        PROVE  DOMAIN chain'[b] = DOMAIN chain[b] /\ chain'[b].build = chain[b].build
    <3>1. CASE b = t
      <4>1. chain'[b] = [chain[b] EXCEPT !.cfg = state_set(chain[b].cfg, Current, value)]
        BY <1>1, <2>3, <3>1
      <4> QED  BY <2>1, <2>3, <4>1
    <3>2. CASE b # t
      BY <1>1, <2>3, <3>2
    <3> QED  BY <3>1, <3>2
  <2> QED  BY <2>2, <2>3
<1>4. ChainShape' /\ SameBuilds
  BY <1>3 DEF BuildInv, ChainShape, SameBuilds
<1>5. RunBuild'
  <2>1. /\ DOMAIN proc' = DOMAIN proc
        /\ proc'.command = proc.command /\ proc'.pc = proc.pc
    BY <1>1, <1>2 DEF RunBuild
  <2>2. ~AtDeploy'
    <3>1. ~(proc.pc <= 4)
      BY <1>1
    <3> QED  BY <2>1, <3>1, ScriptLayout DEF AtDeploy
  <2> QED  BY <1>1, <1>2, <2>1, <2>2 DEF RunBuild
<1> QED  BY <1>1, <1>4, <1>5, BuildsKept

(* The file takes up a contract of its own build.                          *)
LEMMA RecordDeployBuild ==
    ASSUME BuildInv, RecordDeploy
    PROVE  BuildInv'
<1>1. /\ Running /\ AtDeploy /\ proc.sent # None
      /\ state' = [state EXCEPT !.addr = state_set(state.addr, Current, proc.sent)]
      /\ Advance(state_set(proc.addr, Current, proc.sent))
      /\ chain' = chain
  BY DEF RecordDeploy, AtDeploy
<1>2. Built(proc.sent, FileBuild)
  BY <1>1 DEF BuildInv, RunBuild
<1>3. /\ DOMAIN state' = DOMAIN state /\ state'.release = state.release
      /\ state'.addr = state_set(state.addr, Current, proc.sent)
  BY <1>1 DEF BuildInv
<1>4. FileBuild' = FileBuild
  BY <1>3 DEF FileBuild
<1>5. RunBuild'
  BY <1>1, <1>3, GoesOn
<1>6. ASSUME NEW key \in DOMAIN state'.addr
      PROVE  Built(state.addr[key], FileBuild)'
  <2>1. PICK a : a = state'.addr[key]
    OBVIOUS
  <2>2. Built(a, FileBuild)
    BY <1>2, <1>3, <1>6, <2>1 DEF BuildInv, state_set
  <2> QED  BY <1>1, <1>4, <2>1, <2>2 DEF Built
<1> QED  BY <1>1, <1>3, <1>5, <1>6 DEF BuildInv, ChainShape

(* What neither sends nor records a contract changes no build.             *)
LEMMA OtherBuild ==
    ASSUME BuildInv,
           \/ SkipDeploy \/ DryDeploy \/ LoseRecord \/ SkipStep
           \/ RecordStep \/ Finish \/ Crash
    PROVE  BuildInv'
<1>1. /\ Running /\ chain' = chain
      /\ proc' = None \/ \E addr : Advance(addr)
  BY DEF SkipDeploy, DryDeploy, LoseRecord, SkipStep, RecordStep, Finish, Crash, AtDeploy, AtStep
<1>2. /\ DOMAIN state' = DOMAIN state
      /\ state'.addr = state.addr /\ state'.release = state.release
  BY DEF SkipDeploy, DryDeploy, LoseRecord, SkipStep, RecordStep, Finish, Crash, BuildInv
<1>3. Running' => RunBuild'
  BY <1>1, <1>2, GoesOn DEF Running
<1>4. ChainShape' /\ SameBuilds
  BY <1>1 DEF BuildInv, ChainShape, SameBuilds
<1> QED  BY <1>2, <1>3, <1>4, BuildsKept

(* A deployment is one build, whatever the resumed runs ask (deploy.sh's   *)
(* preflight) and whatever addresses were lost.                            *)
THEOREM NeverMixed == Spec => []OneBuild
<1>1. Init => BuildInv
  BY Fresh DEF BuildInv
<1>2. BuildInv /\ [Next]_deployVars => BuildInv'
  <2> SUFFICES ASSUME BuildInv, [Next]_deployVars PROVE BuildInv'
    OBVIOUS
  <2>1. CASE UNCHANGED deployVars
    BY <2>1 DEF deployVars, BuildInv, ChainShape, Running, RunBuild, AtDeploy, Built, FileBuild
  <2>2. CASE Next
    BY <2>2, DeploymentAssumption, InvokeBuild, SendDeployBuild, SendStepBuild,
       RecordDeployBuild, OtherBuild DEF Next, ScriptStep
  <2> QED  BY <2>1, <2>2
<1>3. BuildInv => OneBuild
  BY DEF BuildInv, Built, FileBuild, OneBuild
<1> QED  BY <1>1, <1>2, <1>3, PTL DEF Spec
=============================================================================
