----------------------------- MODULE MCCreator -----------------------------
(* The instance of ProfileCreator for TLC: every allocation on a plain     *)
(* cluster, and a small allocation on clusters and command lines of all    *)
(* kinds.                                                                  *)
EXTENDS ProfileCreator

Role(r) == <<"node-role.kubernetes.io", r>>
PoolLabel(name) == <<<<"pools.operator.machineconfiguration.openshift.io", name>>, "">>

Labels(ls)      == [matchLabels |-> ls, matchExpressions |-> {}]
Expressions(es) == [matchLabels |-> {}, matchExpressions |-> es]
Exists(l)       == [key |-> l, operator |-> "Exists"]
DoesNotExist(l) == [key |-> l, operator |-> "DoesNotExist"]

Master == [name |-> "master", labels |-> {PoolLabel("master")}, selector |-> Labels({Role("master")})]
Worker == [name |-> "worker", labels |-> {PoolLabel("worker"), <<<<"env">>, "lab">>},
           selector |-> Labels({Role("worker")})]
CNF == [name |-> "cnf", labels |-> {PoolLabel("cnf"), <<<<"env">>, "prod">>},
        selector |-> Labels({Role("cnf")})]
RT  == [name |-> "rt", labels |-> {<<<<"env">>, "lab">>, <<<<"rt">>, "">>},
        selector |-> Expressions({Exists(Role("rt")), DoesNotExist(Role("master"))})]

\* Pools as administrators make them: no unique label, two labels to select
\* by, one that does not split, and the selectors that match nothing or
\* are refused.
CNFs == {CNF, [CNF EXCEPT !.labels = {<<<<"env">>, "prod">>, <<<<"zone">>, "1">>}],
         [CNF EXCEPT !.labels = {<<<<"env">>, "lab">>}],
         [CNF EXCEPT !.selector = Labels({Role("cnf"), Role("worker")})],
         [CNF EXCEPT !.selector = Labels({<<"cnf">>})],
         [CNF EXCEPT !.selector = Labels({})], [CNF EXCEPT !.selector = Nil],
         [CNF EXCEPT !.selector = Bad]}

Node == [labels: {{Role("master")}, {Role("worker")}, {Role("cnf")},
                  {Role("worker"), Role("cnf")}, {Role("master"), Role("cnf")},
                  {Role("master"), Role("worker")}, {Role("worker"), Role("rt")},
                  {Role("cnf"), Role("rt")}, {<<"cnf">>, Role("worker")}, {}},
         noSchedule: {{}, {Role("cnf")}, {<<"dedicated">>}},
         windows: BOOLEAN, hardware: {"a", "b"}, mount: {<<"host">>}, running: BOOLEAN,
         fails: {{}, {"temp"}, {"copy"}, {"machineinfo"}, {"pack"}},
         snapshot: {FALSE}, topology: {Bad}]

PlainNode == [labels |-> {Role("worker"), Role("cnf")}, noSchedule |-> {},
              windows |-> FALSE, hardware |-> "a", mount |-> <<"host">>, running |-> TRUE,
              fails |-> {}, snapshot |-> FALSE, topology |-> Bad]

PlainCluster == [pools |-> {Master, Worker, CNF}, nodes |-> {PlainNode}, isDir |-> TRUE,
                 masterPool |-> Nil, otherPools |-> Nil, nodeFiles |-> Nil]

MCClusters ==
    {[PlainCluster EXCEPT !.pools = {Worker, c} \union ps, !.nodes = {PlainNode, n}] :
        c \in CNFs, ps \in {{Master}, {RT}}, n \in {m \in Node : m.running /\ m.fails \in {{}, {"copy"}}}}
    \union {[PlainCluster EXCEPT !.nodes = {n}] : n \in Node}
    \union {[PlainCluster EXCEPT !.isDir = d, !.masterPool = m, !.otherPools = o, !.nodeFiles = f] :
               d \in BOOLEAN, m \in {Nil, Bad}, o \in {Nil, Bad}, f \in {Nil, Bad}}

PlainFlags == [info |-> Nil, missing |-> {}, mcpName |-> "cnf",
               policy |-> [word |-> "restricted", exact |-> TRUE],
               power |-> [word |-> "low-latency", exact |-> TRUE],
               rtKernel |-> TRUE, userLevelNetworking |-> Nil]

MCFlags ==
    {[PlainFlags EXCEPT !.info = i, !.missing = m] :
        i \in {Nil, "log", Bad}, m \in {{}, {"must-gather-dir-path"}, {"mcp-name"}}}
    \union {[PlainFlags EXCEPT !.mcpName = m] : m \in {"worker", "rt", "none"}}
    \union {[PlainFlags EXCEPT !.policy = [word |-> w, exact |-> e], !.userLevelNetworking = u] :
               w \in TMPolicies \union {"none"}, e \in BOOLEAN, u \in {Nil, FALSE, TRUE}}
    \union {[PlainFlags EXCEPT !.power = [word |-> w, exact |-> e]] :
               w \in PowerModes \union {"other"}, e \in BOOLEAN}

\* A small allocation; half of them end with no CPU to isolate.
Small == cores = <<<<2>>, <<2>>>> /\ requested = 2 /\ split \in BOOLEAN /\ disableHT = split

MCInit ==
    \/ cluster = PlainCluster /\ args = PlainFlags /\ Start
    \/ cluster = PlainCluster /\ args \in Flags /\ Small /\ Start
    \/ /\ cluster \in Clusters
       /\ args \in {[PlainFlags EXCEPT !.mcpName = m] : m \in {"cnf", "worker", "rt"}}
                    \union {[PlainFlags EXCEPT !.info = "log"]}
       /\ Small /\ Start

MCSpec == MCInit /\ [][CreatorNext]_creatorVars
=============================================================================
