--------------------------- MODULE ProfileCreator ---------------------------
(***************************************************************************)
(* The performance profile creator                                         *)
(* (cmd/performance-profile-creator/cmd/root.go): it reads the machine     *)
(* config pools and the nodes of a cluster from a must-gather directory    *)
(* (the snapshots of the nodes come from SysinfoSnapshot),                 *)
(* finds the nodes of the pool it is asked about                           *)
(* (pkg/profilecreator/mcp.go), divides their CPUs (ReservedCPUs) and      *)
(* prints a profile, or only shows what it has found (--info).             *)
(*                                                                         *)
(* The value of a flag is a word and whether it is spelled exactly so:     *)
(* flags are validated by EqualFold, in any case of the letters.  cores    *)
(* and htEnabled describe the first node of the pool.                      *)
(***************************************************************************)
EXTENDS ReservedCPUs, SysinfoSnapshot

CONSTANTS
    Clusters,    \* the clusters of the instance
    Flags        \* the command lines, but for those ReservedCPUs has

Valid == INSTANCE ProfileValidation

\* A host before must-gather has visited it.
IsHost(n) ==
    n \in [labels: {n.labels}, noSchedule: {n.noSchedule}, windows: BOOLEAN,
           hardware: {n.hardware}, mount: {<<"host">>}, running: BOOLEAN,
           fails: SUBSET {"temp", "copy", "machineinfo", "pack"},
           snapshot: {FALSE}, topology: {Bad}]

\* The API server keeps one pool of a name.
IsCluster(c) ==
    /\ c \in [pools: {c.pools}, nodes: {c.nodes}, isDir: BOOLEAN, masterPool: {Nil, Bad},
              otherPools: {Nil, Bad}, nodeFiles: {Nil, Bad}]
    /\ \A p, q \in c.pools : p.name = q.name => p = q
    /\ \A p \in c.pools : p.selector \notin {Nil, Bad} => p.selector.matchLabels # Nil
    /\ \A n \in c.nodes : IsHost(n)

AllCPUs  == (1..MaxNodes) \X (1..MaxCores) \X (1..MaxThreads)
CPULists == [reserved: SUBSET AllCPUs, isolated: SUBSET AllCPUs, balanceIsolated: {Nil}]

ASSUME CreatorAssumption ==
    /\ \A cpus \in SUBSET AllCPUs : cpus \notin {Nil, Bad}
    /\ Nil \notin CPULists
    /\ \A c \in Clusters : IsCluster(c)

VARIABLES
    cluster,     \* its pools and nodes, and how their files can be read
    args,
    stage,
    created,     \* the profile that is printed
    shown        \* what --info shows: pairs of pool and node

allocation == <<cores, inputs, htEnabled, pc, node, max, remainder, reserved>>
creatorVars == <<allocation, cluster, args, stage, created, shown>>

Start == Init /\ stage = "gather" /\ created = Nil /\ shown = {}

CreatorInit == cluster \in Clusters /\ args \in Flags /\ Start

Stage(s) == stage' = s /\ UNCHANGED <<allocation, cluster, args, created, shown>>

\* must-gather visits the nodes before the creator is called.
gather_nodes ==
    /\ stage = "gather"
    /\ cluster' = [cluster EXCEPT !.nodes = {Gathered(n) : n \in @}]
    /\ stage' = "flags"
    /\ UNCHANGED <<allocation, args, created, shown>>

-----------------------------------------------------------------------------
(* Pools and nodes.                                                        *)

\* A selector has matchLabels and matchExpressions, which ask for a label to be
\* there or not to be; a nil selector (Nil) matches nothing, and an empty one is
\* not to match.
Matches(selector, labels) ==
    /\ selector # Nil
    /\ selector.matchLabels \subseteq labels
    /\ \A e \in selector.matchExpressions : e.key \in labels <=> e.operator = "Exists"

IsEmpty(selector) ==
    selector # Nil /\ selector.matchLabels = {} /\ selector.matchExpressions = {}

\* LabelSelectorAsSelector refuses an expression that is not well formed (Bad).
ValidSelectors == \A p \in cluster.pools : p.selector # Bad

PoolsOf(n) ==
    {p \in cluster.pools : ~IsEmpty(p.selector) /\ Matches(p.selector, n.labels)}

Custom(pools) == {p \in pools : p.name \notin {"master", "worker"}}

Named(pools, name) == {p \in pools : p.name = name}

\* getPrimaryPoolForNode: the pool a node belongs to, if any.  Nodes with
\* several custom pools, or a custom pool and master, are passed over, and all
\* nodes when the selector of some pool is refused.
getPrimaryPool(n) ==
    LET pools == PoolsOf(n) IN
    IF n.windows \/ ~ValidSelectors THEN {}
    ELSE IF Cardinality(Custom(pools)) > 1 THEN {}
    ELSE IF Custom(pools) # {}
         THEN IF Named(pools, "master") # {} THEN {} ELSE Custom(pools)
    ELSE IF Named(pools, "master") # {} THEN Named(pools, "master")
    ELSE Named(pools, "worker")

\* Mutant: any taint counts.
SchedulableUntainted(n, pool) == n.noSchedule = {}

\* A taint NoSchedule counts when the pool's selector picks it like a label.
Schedulable(n, pool) == \A t \in n.noSchedule : ~Matches(pool.selector, {t})

\* The code has a list, of which nothing depends on the order.
GetNodesForPool(pool) ==
    {n \in cluster.nodes : getPrimaryPool(n) = {pool} /\ Schedulable(n, pool)}

\* Mutant: any label will do.
UniqueAny(pool) == pool.labels

\* Labels that no other pool has with the same value.
UniqueLabels(pool) == {l \in pool.labels : \A p \in cluster.pools \ {pool} : l \notin p.labels}

HasSuffix(key, name) == key[Len(key)] = name

\* The candidates for the label GetMCPSelector returns; which one the
\* iteration over a map leaves open.
GetMCPSelector(pool) ==
    LET unique == UniqueLabels(pool)
        named  == {l \in unique : HasSuffix(l[1], pool.name)}
    IN IF Cardinality(unique) > 1 /\ named # {} THEN named ELSE unique

\* Mutant: nodes that cannot be read are passed over, as by --info.
SameHardwareReadable(nodes) ==
    \A m, n \in nodes : Bad \in {m.topology, n.topology} \/ m.topology = n.topology

\* EnsureNodesHaveTheSameHardware compares the topologies with that of the
\* first node; one may be unreadable (Bad).
SameHardware(nodes) ==
    \A m, n \in nodes : m.topology # Bad /\ m.topology = n.topology

-----------------------------------------------------------------------------
(* The command line and the must-gather directory.                         *)

PowerModes == {"default", "low-latency", "ultra-low-latency"}
TMPolicies == {"single-numa-node", "best-effort", "restricted"}

\* --info asks for nothing but the directory; otherwise required flags are
\* checked before anything is read.
CheckFlags ==
    /\ stage = "flags"
    /\ IF args.info # Nil
       THEN Stage(IF args.info = Bad \/ "must-gather-dir-path" \in args.missing
                  THEN "failed" ELSE "read")
       ELSE Stage(IF args.missing # {} THEN "failed" ELSE "read")

\* A file that is missing, there twice or unreadable is an error, but not that
\* of the master pool: it is kept as a nil pointer.
GetMCPList == cluster.otherPools # Bad

GetNodeList == cluster.nodeFiles # Bad

\* The snapshot of the node is there; it is opened later.
NewGHWHandler(n) == n.snapshot

\* The search for the pools' nodes follows the nil pointer, and returns the
\* error over a selector; which comes first depends on the names of the pools.
getClusterData ==
    /\ stage = "read"
    /\ IF ~cluster.isDir \/ ~GetMCPList \/ ~GetNodeList THEN Stage("failed")
       ELSE \/ cluster.masterPool = Bad /\ Stage("panicked")
            \/ ~ValidSelectors /\ Stage("failed")
            \/ /\ cluster.masterPool # Bad /\ ValidSelectors
               /\ Stage(IF \E p \in cluster.pools : \E n \in GetNodesForPool(p) : ~NewGHWHandler(n)
                        THEN "failed" ELSE IF args.info # Nil THEN "info" ELSE "args")

\* makeClusterInfoFromClusterData: nodes with an unreadable topology are left
\* out.
ShowClusterInfo ==
    /\ stage = "info"
    /\ shown' = {x \in cluster.pools \X cluster.nodes :
                    x[2] \in GetNodesForPool(x[1]) /\ x[2].topology # Bad}
    /\ stage' = "done"
    /\ UNCHANGED <<allocation, cluster, args, created>>

\* In any case of the letters.
validateFlag(value, valid) == value.word \in valid

\* The policy is compared by its exact spelling.
getDataFromFlags ==
    /\ stage = "args"
    /\ Stage(IF \/ ~validateFlag(args.policy, TMPolicies)
                \/ args.policy = [word |-> "single-numa-node", exact |-> TRUE] /\ split
                \/ ~validateFlag(args.power, PowerModes)
             THEN "failed" ELSE "pool")

\* The part of getProfileData before the allocation.
findNodes ==
    /\ stage = "pool"
    /\ Stage(IF \E pool \in Named(cluster.pools, args.mcpName) :
                   /\ GetMCPSelector(pool) # {}
                   /\ GetNodesForPool(pool) # {}
                   /\ SameHardware(GetNodesForPool(pool))
             THEN "allocate" ELSE "failed")

\* GetReservedAndIsolatedCPUs, step by step.
AllocateCPUs ==
    /\ stage = "allocate"
    /\ Next
    /\ stage' = CASE pc' = "error" -> "failed"
                  [] pc' = "panic" -> "panicked"
                  [] pc' = "done"  -> "create"
                  [] OTHER -> "allocate"
    /\ UNCHANGED <<cluster, args, created, shown>>

-----------------------------------------------------------------------------
(* The profile.                                                            *)

LowLatency == {"nmi_watchdog=0", "audit=0", "mce=off"}
UltraLow   == {"processor.max_cstate=1", "intel_idle.max_cstate=0", "idle=poll"}

\* The power mode is looked up by its exact spelling.
GetAdditionalKernelArgs ==
    (IF ~args.power.exact THEN {}
     ELSE CASE args.power.word = "default" -> {}
            [] args.power.word = "low-latency" -> LowLatency
            [] args.power.word = "ultra-low-latency" -> LowLatency \union UltraLow)
    \union {a \in {"nosmt"} : disableHT}

\* matchLabels of the pool's selector; there is none when it has expressions
\* only.
NodeSelector(pool) ==
    IF pool.selector.matchLabels = {} THEN Nil ELSE pool.selector.matchLabels

\* What is printed of an object: not its status.
MarshallObject(obj) == [f \in DOMAIN obj \ {"status"} |-> obj[f]]

createProfile ==
    /\ stage = "create"
    /\ \E pool \in Named(cluster.pools, args.mcpName) : \E label \in GetMCPSelector(pool) :
        created' = MarshallObject(
            [cpu |-> [reserved |-> reserved, isolated |-> All \ reserved, balanceIsolated |-> Nil],
             nodeSelector |-> NodeSelector(pool),
             machineConfigPoolSelector |-> {label}, machineConfigLabel |-> Nil,
             hugepages |-> Nil,
             numa |-> [policy |-> IF args.policy.exact THEN args.policy.word ELSE Bad],
             net |-> IF args.userLevelNetworking = Nil THEN Nil
                     ELSE [userLevelNetworking |-> args.userLevelNetworking, devices |-> <<>>],
             rtKernel |-> args.rtKernel, kernelArgs |-> GetAdditionalKernelArgs, status |-> Nil])
    /\ stage' = "done"
    /\ UNCHANGED <<allocation, cluster, args, shown>>

CreatorNext ==
    \/ gather_nodes \/ CheckFlags \/ getClusterData \/ ShowClusterInfo \/ getDataFromFlags
    \/ findNodes \/ AllocateCPUs \/ createProfile

CreatorSpec == CreatorInit /\ [][CreatorNext]_creatorVars

-----------------------------------------------------------------------------
(* Properties.                                                             *)

\* The profile that is printed passes the webhook's validation.  The reasons
\* why it may not are a pool that is not selected by one label of the form
\* domain/role, a policy in other letters than the API's, and no CPUs left to
\* isolate, because threads are switched off or the split reserves too many.
CreatedIsAdmitted ==
    created # Nil =>
        \A f \in Valid!validateFields(created) :
            \/ /\ f = "nodeSelector"
               /\ \A pool \in Named(cluster.pools, args.mcpName) :
                     ~\E k \in pool.selector.matchLabels :
                         pool.selector.matchLabels = {k} /\ Len(k) = 2
            \/ f = "numa.topologyPolicy" /\ ~args.policy.exact
            \/ f = "cpu.isolated" /\ (disableHT \/ split)

\* The pool selector of the profile picks the pool that was asked for, and no
\* other one.
SelectsThePool ==
    created # Nil =>
        {p \in cluster.pools : created.machineConfigPoolSelector \subseteq p.labels}
            = Named(cluster.pools, args.mcpName)

\* The profile of a custom pool applies to the nodes whose hardware was
\* compared; any other node its node selector picks is a Windows node, not
\* schedulable, or claimed by master or a second custom pool.
AppliesToComparedNodes ==
    created # Nil /\ created.nodeSelector # Nil =>
        \A pool \in Custom(Named(cluster.pools, args.mcpName)) :
            LET compared == GetNodesForPool(pool) IN
            /\ \A n \in compared : created.nodeSelector \subseteq n.labels
            /\ \A n \in cluster.nodes \ compared :
                  pool.selector.matchExpressions = {} /\ created.nodeSelector \subseteq n.labels =>
                      \/ n.windows \/ \E t \in n.noSchedule : pool.selector.matchLabels \subseteq {t}
                      \/ \E p \in PoolsOf(n) \ {pool} : p.name # "worker"

\* However the gathering failed on some nodes: the nodes of the pool really
\* have the same hardware, on which the CPUs of the profile were chosen.
ComparedNodesAlike ==
    created # Nil =>
        \A pool \in Named(cluster.pools, args.mcpName) :
            \A m, n \in GetNodesForPool(pool) :
                m.hardware = n.hardware /\ n.topology = n.hardware

\* gather_sysinfo snapshot: when nothing fails but the optional machine info,
\* the snapshot shows the hardware of the host, although the host is mounted
\* elsewhere and paths are named twice; one that opens shows nothing else.
GatheredIsTrue ==
    stage # "gather" =>
        \A n \in cluster.nodes :
            /\ n.running /\ n.fails \subseteq {"machineinfo"} => n.topology = n.hardware
            /\ n.topology \in {Bad, n.hardware}

\* With nosmt only the first thread of a core is left: the profile names no
\* other CPU, and names all of those.
NamesOnlineCPUs ==
    created # Nil =>
        created.cpu.reserved \union created.cpu.isolated
            = {cpu \in All : "nosmt" \in created.kernelArgs => cpu[3] = 1}

\* The creator panics over a master pool it cannot read and, when threads are
\* to be switched off, over a NUMA node without cores; over nothing else.
PanicsExplained ==
    stage = "panicked" =>
        cluster.masterPool = Bad \/ (disableHT /\ \E n \in Nodes : cores[n] = <<>>)

=============================================================================
