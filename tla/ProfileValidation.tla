-------------------------- MODULE ProfileValidation --------------------------
(***************************************************************************)
(* The fields of a PerformanceProfile (api/v2/performanceprofile_types.go) *)
(* and what validateFields of api/v2/performanceprofile_validation.go says *)
(* of them.                                                                *)
(*                                                                         *)
(* An absent field is Nil.  A CPU list is the set of its CPUs, or Bad when *)
(* cpuset.Parse refuses it; Bad is also any other text that its reader     *)
(* refuses.  A label key is the sequence of its parts between slashes.     *)
(***************************************************************************)
EXTENDS Naturals, Sequences, FiniteSets

CONSTANTS Nil, Bad

\* Mutant: a reserved list is not asked for.
validateCPUsIsolated(p) ==
    IF p.cpu = Nil THEN {"cpu"}
    ELSE {f \in {"cpu.isolated"} : p.cpu.isolated \in {Nil, Bad, {}}}

\* CPULists of two lists that were parsed.
Intersect(lists) == lists.isolated \intersect lists.reserved

CountIsolated(lists) == Cardinality(lists.isolated)

validateCPUs(p) ==
    IF p.cpu = Nil THEN {"cpu"}
    ELSE {f \in {"cpu.isolated"} : p.cpu.isolated = Nil}
         \union {f \in {"cpu.reserved"} : p.cpu.reserved = Nil}
         \union (IF Nil \in {p.cpu.isolated, p.cpu.reserved} THEN {}
                 ELSE IF Bad \in {p.cpu.isolated, p.cpu.reserved} THEN {"cpu"}
                 ELSE {f \in {"cpu.isolated"} : CountIsolated(p.cpu) = 0}
                      \union {f \in {"cpu"} : Intersect(p.cpu) # {}})

\* GetFirstKeyAndValue: any key of the map, the empty string of an empty one.
FirstKeys(labels) == IF labels \in {Nil, {}} THEN {<<"">>} ELSE labels

\* SplitLabelKey succeeds on domain/role only.
Splits(key) == Len(key) = 2

\* Any of the keys may be the first one; there is at most one when the rest
\* is in order.
validateSelectors(p) ==
    {f \in {"machineConfigLabel"} :
        p.machineConfigLabel # Nil /\ Cardinality(p.machineConfigLabel) > 1}
    \union {f \in {"machineConfigPoolSelector"} :
        p.machineConfigPoolSelector # Nil /\ Cardinality(p.machineConfigPoolSelector) > 1}
    \union {f \in {"nodeSelector"} :
        \/ p.nodeSelector = Nil
        \/ p.nodeSelector # Nil /\ Cardinality(p.nodeSelector) > 1
        \/ /\ Nil \in {p.machineConfigLabel, p.machineConfigPoolSelector}
           /\ \E key \in FirstKeys(p.nodeSelector) : ~Splits(key)}

Sizes == {"1G", "2M"}

\* validatePageDuplication: the same size on the same NUMA node, or twice on
\* none.
Duplicate(p, q) == p.size = q.size /\ p.node = q.node

validateHugePages(p) ==
    IF p.hugepages = Nil THEN {}
    ELSE LET pages == p.hugepages.pages IN
         {f \in {"hugepages.defaultHugepagesSize"} :
             p.hugepages.default \notin Sizes \union {Nil}}
         \union {f \in {"hugepages.pages"} :
             \/ \E i \in DOMAIN pages : pages[i].size \notin Sizes
             \/ \E i, j \in DOMAIN pages : i < j /\ Duplicate(pages[i], pages[j])}

TopologyPolicies == {"none", "best-effort", "restricted", "single-numa-node"}

\* p.numa.policy is spec.numa.topologyPolicy.
validateNUMA(p) ==
    {f \in {"numa.topologyPolicy"} :
        p.numa # Nil /\ p.numa.policy \notin TopologyPolicies \union {Nil}}

\* isValid16bitsHexID leaves four digits to an id, and rejects the rest (Bad).
validateNet(p) ==
    IF p.net = Nil THEN {}
    ELSE {f \in {"net"} : p.net.userLevelNetworking = TRUE /\ p.cpu.reserved = Nil}
         \union {f \in {"net.devices"} : \E i \in DOMAIN p.net.devices :
             LET d == p.net.devices[i] IN
             \/ d.interface = Bad \/ d.vendor = Bad \/ d.device = Bad
             \/ d.device # Nil /\ d.vendor = Nil}

\* validateNet reads the reserved CPUs of a CPU section that may be absent.
validatePanics(p) ==
    p.cpu = Nil /\ p.net # Nil /\ p.net.userLevelNetworking = TRUE

validateFields(p) ==
    validateCPUs(p) \union validateSelectors(p) \union validateHugePages(p)
    \union validateNUMA(p) \union validateNet(p)
=============================================================================
