-------------------------- MODULE ProfileManifests --------------------------
(***************************************************************************)
(* From PerformanceProfiles to manifests: the field validation of the      *)
(* webhook and GetNewComponents as the controller calls it, the render     *)
(* command, which takes profiles from files and validates none of them,    *)
(* and the huge pages generator.                                           *)
(*                                                                         *)
(* A manifest is the record of those of its parts that a property is about;*)
(* the others, texts and names are left out.  Quantities of memory are in  *)
(* Mi.                                                                     *)
(***************************************************************************)
EXTENDS ProfileValidation, CPUMask, SequencesExt

CONSTANTS
    Profiles,      \* the profiles of the instance
    RenderInputs,  \* sequences of profiles that render is called with
    PoolLabels     \* the labels of the profile's machine config pool

ASSUME ManifestsAssumption ==
    /\ Nil # Bad /\ Nil \notin Nat /\ Bad \notin Nat /\ Nil # "Static"
    /\ \A p \in Profiles :
          /\ p.snippet \notin {Nil, Bad} =>
                /\ {p.snippet.kubeReserved, p.snippet.systemReserved, p.snippet.evictionHard}
                      \subseteq Nat \union {Nil, Bad}
                /\ p.snippet.reservedMemory \in Nat \union {Nil}
          /\ p.cpu # Nil /\ p.cpu.reserved \notin {Nil, Bad} =>
                p.cpu.reserved \in SUBSET Nat /\ IsFiniteSet(p.cpu.reserved)
          /\ p.hugepages # Nil => p.hugepages.pages \in Seq(ToSet(p.hugepages.pages))
    /\ \A s \in RenderInputs : s # <<>> /\ s \in Seq(ToSet(s))

VARIABLES
    caller,        \* "operator", "render" or "generator"
    inputs, pos,   \* the profiles, and the position of the current one
    pc,
    mc, kc, tuned, rc,  \* the manifests of the current profile
    unwritten,     \* kinds of manifests render has not written yet
    out            \* render's output files: out[<<name, kind>>], a profile

manifests == <<mc, kc, tuned, rc>>
vars == <<caller, inputs, pos, pc, manifests, unwritten, out>>

ManifestKinds == {"MachineConfig", "KubeletConfig", "Tuned", "RuntimeClass"}

profile == inputs[pos]

Init ==
    /\ \/ caller \in {"operator", "generator"} /\ inputs \in {<<p>> : p \in Profiles}
       \/ caller = "render" /\ inputs \in RenderInputs \union {<<p>> : p \in Profiles}
    /\ pos = 1
    /\ pc = CASE caller = "operator" -> "validate"
              [] caller = "render" -> "options"
              [] OTHER -> "input"
    /\ mc = Nil /\ kc = Nil /\ tuned = Nil /\ rc = Nil
    /\ unwritten = {} /\ out = <<>>

Outcome(result) ==
    pc' = result /\ UNCHANGED <<caller, inputs, pos, manifests, unwritten, out>>

\* The webhook; a panic ends the request.
ValidateFields ==
    /\ pc = "validate"
    /\ IF validatePanics(profile) \/ validateFields(profile) # {}
       THEN Outcome("rejected") ELSE Outcome("MachineConfig")

-----------------------------------------------------------------------------
(* GetNewComponents.                                                       *)

MachineConfigRoleLabelKey == "machineconfiguration.openshift.io/role"

\* getDefaultLabel; the role is empty when the key does not split.
DefaultLabels(p) ==
    {{<<MachineConfigRoleLabelKey, IF Splits(key) THEN key[2] ELSE "">>} :
        key \in FirstKeys(p.nodeSelector)}

GetMachineConfigLabel(p) ==
    IF p.machineConfigLabel # Nil THEN {p.machineConfigLabel} ELSE DefaultLabels(p)

\* Only render has no pool at hand.
GetMachineConfigPoolSelector(p) ==
    IF p.machineConfigPoolSelector # Nil THEN {p.machineConfigPoolSelector}
    ELSE IF caller = "operator" THEN {PoolLabels}
    ELSE DefaultLabels(p)

\* The mask for RPS; "" for a list that cannot be parsed, the error is lost.
RPSMask(cpu) == IF cpu.reserved = Bad THEN <<>> ELSE CPUListToMaskList(cpu.reserved)

\* The unit that sets the mask of the network devices, if there is one.
RPSUnit(cpu) == IF cpu.reserved = Nil THEN Nil ELSE RPSMask(cpu)

\* GetOCIHooksConfigContent: the mask for the devices of containers, or "0".
RPSDisabled == <<[d \in 1..ChunkDigits |-> {}]>>

OCIHooksMask(cpu) == IF cpu.reserved = Nil THEN RPSDisabled ELSE RPSMask(cpu)

\* The reserved CPUs in CRI-O's configuration.
renderCrioConfigSnippet(cpu) == cpu.reserved

OnNode(page) == page.node # Nil

Pages(p) == IF p.hugepages = Nil THEN <<>> ELSE p.hugepages.pages

\* The systemd units that allocate huge pages; their names are made of the
\* size and the NUMA node.  Units and kernel arguments go by the positions of
\* their pages.
HugepagesUnits(p) == Restrict(Pages(p), {i \in DOMAIN Pages(p) : OnNode(Pages(p)[i])})

\* machineconfig.New.  renderCrioConfigSnippet does not expect the CPU section
\* to be absent.
NewMachineConfig ==
    /\ pc = "MachineConfig"
    /\ IF profile.cpu = Nil THEN Outcome("panic")
       ELSE IF \E i \in DOMAIN Pages(profile) :
                   OnNode(Pages(profile)[i]) /\ Pages(profile)[i].size \notin Sizes
       THEN Outcome("error")
       ELSE /\ \E label \in GetMachineConfigLabel(profile) :
                  mc' = [label |-> label, crioCPUs |-> renderCrioConfigSnippet(profile.cpu),
                         rps |-> RPSUnit(profile.cpu), hooks |-> OCIHooksMask(profile.cpu),
                         units |-> HugepagesUnits(profile),
                         realtime |-> profile.rtKernel = TRUE]
            /\ pc' = "KubeletConfig"
            /\ UNCHANGED <<caller, inputs, pos, kc, tuned, rc, unwritten, out>>

\* Mutant: the reserved memory leaves out the eviction threshold.
SumUpNoEviction(kube, system, eviction) == kube + system

SumUp(kube, system, eviction) == kube + system + eviction

Default(value, default) == IF value = Nil THEN default ELSE value

NoSnippet == [kubeReserved |-> Nil, systemReserved |-> Nil, evictionHard |-> Nil,
              reservedMemory |-> Nil, memoryManager |-> Nil, fullPCPUs |-> Nil,
              reservedSystemCPUs |-> Nil]

Policy(p) == Default(IF p.numa = Nil THEN Nil ELSE p.numa.policy, "best-effort")

\* What the profile and the snippet of the annotation kubeletconfig.experimental
\* come to.  CPU manager and topology policy are set whatever the snippet says.
KubeletConfiguration(p, snippet) ==
    LET kube     == Default(snippet.kubeReserved, 500)
        system   == Default(snippet.systemReserved, 500)
        eviction == Default(snippet.evictionHard, 100)
        static   == Policy(p) \in {"restricted", "single-numa-node"}
    IN [kubeReserved |-> kube, systemReserved |-> system, evictionHard |-> eviction,
        reservedSystemCPUs |-> Default(p.cpu.reserved, snippet.reservedSystemCPUs),
        topologyManager |-> Policy(p),
        memoryManager |-> IF static THEN "Static" ELSE snippet.memoryManager,
        reservedMemory |->
            IF ~static \/ snippet.reservedMemory # Nil THEN snippet.reservedMemory
            ELSE IF Bad \in {kube, system, eviction} THEN Bad
            ELSE SumUp(kube, system, eviction),
        fullPCPUs |->
            IF Policy(p) = "single-numa-node" THEN Default(snippet.fullPCPUs, "true")
            ELSE snippet.fullPCPUs]

\* kubeletconfig.New.
NewKubeletConfig ==
    /\ pc = "KubeletConfig"
    /\ IF profile.snippet = Bad THEN Outcome("error")
       ELSE LET config == KubeletConfiguration(profile, Default(profile.snippet, NoSnippet)) IN
            IF config.reservedMemory = Bad THEN Outcome("error")
            ELSE /\ \E selector \in GetMachineConfigPoolSelector(profile) :
                        kc' = [selector |-> selector, config |-> config]
                 /\ pc' = "Tuned"
                 /\ UNCHANGED <<caller, inputs, pos, mc, tuned, rc, unwritten, out>>

PagesOf2M(pages) == {i \in DOMAIN pages : pages[i].size = "2M"}

\* Mutant: pages on a NUMA node ask for 2M arguments whatever else there is.
Is2MHugepagesRequestedAlways(pages) == \E i \in PagesOf2M(pages) : OnNode(pages[i])

\* The loop over the pages sets is2MHugepagesRequested at the first 2M page on a
\* NUMA node, and resets it for good at one that is on none.
Is2MHugepagesRequested(pages) ==
    PagesOf2M(pages) # {} /\ \A i \in PagesOf2M(pages) : OnNode(pages[i])

\* Kernel arguments for the pages of no NUMA node, and dummy ones (at 0) that
\* make the kernel create the files for 2M pages.
HugepagesArgs(p) ==
    LET pages == Pages(p)
        dummy == {i \in {0} : /\ p.hugepages # Nil /\ p.hugepages.default = "1G"
                              /\ Is2MHugepagesRequested(pages)}
    IN [i \in dummy \union {i \in DOMAIN pages : ~OnNode(pages[i])} |->
           IF i = 0 THEN [size |-> "2M", count |-> 0]
           ELSE [size |-> pages[i].size, count |-> pages[i].count]]

UserLevelNetworking(p) ==
    p.net # Nil /\ p.net.userLevelNetworking = TRUE /\ p.cpu.reserved # Nil

\* The [net] sections: one for every device, or one for all of them; queues is
\* the number of channels, Nil when it is not set.
NetSections(p) ==
    IF ~UserLevelNetworking(p) THEN <<[device |-> Nil, queues |-> Nil]>>
    ELSE LET queues == Cardinality(p.cpu.reserved) IN
         IF p.net.devices = <<>> THEN <<[device |-> Nil, queues |-> queues]>>
         ELSE [i \in DOMAIN p.net.devices |->
                  [device |-> p.net.devices[i], queues |-> queues]]

\* tuned.NewNodePerformance.  Neither the CPU section nor the value of
\* userLevelNetworking is expected to be absent.
NewNodePerformance ==
    /\ pc = "Tuned"
    /\ IF profile.net # Nil /\ profile.net.userLevelNetworking = Nil THEN Outcome("panic")
       ELSE IF UserLevelNetworking(profile) /\ profile.cpu.reserved = Bad
       THEN Outcome("error")
       ELSE /\ \E label \in GetMachineConfigLabel(profile) :
                  tuned' = [label |-> label, isolated |-> profile.cpu.isolated,
                            static |-> profile.cpu.isolated # Nil
                                       /\ profile.cpu.balanceIsolated = FALSE,
                            default |-> IF profile.hugepages = Nil THEN Nil
                                        ELSE profile.hugepages.default,
                            hugepages |-> HugepagesArgs(profile),
                            net |-> NetSections(profile)]
            /\ pc' = "RuntimeClass"
            /\ UNCHANGED <<caller, inputs, pos, mc, kc, rc, unwritten, out>>

\* runtimeclass.New, and the result of GetNewComponents.
NewRuntimeClass ==
    /\ pc = "RuntimeClass"
    /\ rc' = [nodeSelector |-> profile.nodeSelector]
    /\ IF caller = "render" THEN pc' = "write" /\ unwritten' = ManifestKinds
       ELSE pc' = "done" /\ UNCHANGED unwritten
    /\ UNCHANGED <<caller, inputs, pos, mc, kc, tuned, out>>

-----------------------------------------------------------------------------
(* The render command: the files in turn, the manifests of each in the     *)
(* order of a map.                                                         *)

\* The names of the files come from the environment or from a flag; without
\* them, with both of them, or without a directory to write to, nothing is done.
ValidateOptions ==
    /\ pc = "options"
    /\ \/ Outcome("read") \/ Outcome("error")

\* The file is read and unmarshalled.
ReadProfile ==
    /\ pc = "read"
    /\ \/ Outcome("MachineConfig") \/ Outcome("error")

\* After the last manifest of a profile comes the next profile.
NextProfile ==
    IF unwritten' # {} THEN UNCHANGED <<pc, pos, manifests>>
    ELSE IF pos = Len(inputs) THEN pc' = "done" /\ UNCHANGED <<pos, manifests>>
    ELSE pos' = pos + 1 /\ pc' = "read" /\ mc' = Nil /\ kc' = Nil /\ tuned' = Nil /\ rc' = Nil

\* Mutant: a file that is there already is kept.
WriteManifestOnce(kind) ==
    /\ pc = "write" /\ kind \in unwritten
    /\ unwritten' = unwritten \ {kind}
    /\ LET file == <<profile.name, kind>> IN
       out' = [f \in DOMAIN out \union {file} |-> IF f \in DOMAIN out THEN out[f] ELSE profile]
    /\ NextProfile /\ UNCHANGED <<caller, inputs>>

\* A file that is there already is overwritten.
WriteManifest(kind) ==
    /\ pc = "write" /\ kind \in unwritten
    /\ \/ Outcome("error")
       \/ /\ unwritten' = unwritten \ {kind}
          /\ LET file == <<profile.name, kind>> IN
             out' = [f \in DOMAIN out \union {file} |-> IF f = file THEN profile ELSE out[f]]
          /\ NextProfile /\ UNCHANGED <<caller, inputs>>

-----------------------------------------------------------------------------
(* The huge pages generator: a unit for every page.                        *)

\* A profile from a file or from the standard input.
readInput ==
    /\ pc = "input"
    /\ \/ Outcome("generator") \/ Outcome("error")

\* What MakeMachineConfig panics over; createMachineConfig recovers, and the
\* generator fails.
Recovered(p) ==
    p.hugepages = Nil \/ \E i \in DOMAIN Pages(p) : ~OnNode(Pages(p)[i])

MakeMachineConfig ==
    /\ pc = "generator"
    /\ IF \/ Recovered(profile)
          \/ \E i \in DOMAIN Pages(profile) : Pages(profile)[i].size \notin Sizes
       THEN Outcome("error")
       ELSE /\ mc' = [label |-> {<<MachineConfigRoleLabelKey, "worker">>}, crioCPUs |-> Nil,
                      rps |-> Nil, hooks |-> Nil, units |-> Pages(profile), realtime |-> FALSE]
            /\ pc' = "output"
            /\ UNCHANGED <<caller, inputs, pos, kc, tuned, rc, unwritten, out>>

writeOutput ==
    /\ pc = "output"
    /\ \/ Outcome("done") \/ Outcome("error")

Next ==
    \/ ValidateFields
    \/ NewMachineConfig \/ NewKubeletConfig \/ NewNodePerformance \/ NewRuntimeClass
    \/ ValidateOptions \/ ReadProfile \/ (\E kind \in ManifestKinds : WriteManifest(kind))
    \/ readInput \/ MakeMachineConfig \/ writeOutput

Spec == Init /\ [][Next]_vars

-----------------------------------------------------------------------------
(* Properties.                                                             *)

Finished == pc \in {"done", "write"}

\* A profile that the webhook has let through is turned into manifests; what
\* can still go wrong is a net section without userLevelNetworking (the
\* operator panics), and an annotation that no validation looks at.
AdmittedIsGenerated ==
    caller = "operator" =>
        /\ pc = "panic" => profile.net # Nil /\ profile.net.userLevelNetworking = Nil
        /\ pc = "error" =>
              \/ profile.snippet = Bad
              \/ /\ profile.snippet # Nil
                 /\ Bad \in {profile.snippet.kubeReserved, profile.snippet.systemReserved,
                             profile.snippet.evictionHard}

\* Every page that was asked for is allocated exactly once, by the kernel or
\* by a unit on its NUMA node; no two units have the same name, the kernel is
\* told of no size twice, and it knows the pages the units allocate.
HugePagesAllocatedOnce ==
    caller = "operator" /\ Finished =>
        LET args == tuned.hugepages
            On(node, size) == {i \in DOMAIN mc.units :
                                  mc.units[i].node = node /\ mc.units[i].size = size}
        IN /\ \A i, j \in DOMAIN args : args[i].size = args[j].size => i = j
           /\ \A i \in DOMAIN Pages(profile) :
                 LET page == Pages(profile)[i] IN
                 IF OnNode(page)
                 THEN \E u \in DOMAIN mc.units :
                         On(page.node, page.size) = {u} /\ mc.units[u] = page
                 ELSE \E a \in DOMAIN args : args[a] = [size |-> page.size, count |-> page.count]
           /\ (\E u \in DOMAIN mc.units : mc.units[u].size = "2M") /\ tuned.default = "1G"
                 => \E a \in DOMAIN args : args[a].size = "2M"

\* The manifests agree on the CPUs: the masks written for RPS, of the host and
\* of containers, decode to the reserved CPUs the kubelet and CRI-O are given,
\* and a network device gets as many queues as there are reserved CPUs, none of
\* which is isolated, whatever the snippet says of reserved CPUs.  A mask of
\* more than 64 digits decodes when they fill whole chunks; otherwise the last
\* digits are lost (utils.go:68-73).
ReservedAgree ==
    caller = "operator" /\ Finished =>
        LET reserved == kc.config.reservedSystemCPUs IN
        /\ mc.crioCPUs = reserved
        /\ tuned.isolated # {} /\ tuned.isolated \intersect reserved = {}
        /\ mc.hooks = mc.rps
        /\ Digits(reserved) % ChunkDigits = 0 => CPUMaskToCPUSet(mc.rps) = reserved
        /\ \A i \in DOMAIN tuned.net :
              tuned.net[i].queues \in {Nil, Cardinality(reserved)}

\* With the static memory manager the kubelet only starts when the reserved
\* memory is the sum of the three reservations it knows of; a snippet that
\* names neither the manager nor the reserved memory cannot spoil that.
KubeletMemoryBalanced ==
    Finished /\ caller # "generator" =>
        LET snippet == Default(profile.snippet, NoSnippet) IN
        /\ snippet.reservedMemory = Nil /\ snippet.memoryManager = Nil
        /\ kc.config.memoryManager = "Static"
        => kc.config.reservedMemory =
              kc.config.kubeReserved + kc.config.systemReserved + kc.config.evictionHard

\* When render ends well, every profile has its four files, unless a later one
\* of the same name has replaced all of them.
RenderedWhole ==
    caller = "render" /\ pc = "done" =>
        \A i \in DOMAIN inputs :
            LET last == Max({j \in DOMAIN inputs : inputs[j].name = inputs[i].name})
            IN \A kind \in ManifestKinds : out[<<inputs[i].name, kind>>] = inputs[last]
=============================================================================
