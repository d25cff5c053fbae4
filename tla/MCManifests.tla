---------------------------- MODULE MCManifests ----------------------------
(* The instance of ProfileManifests for TLC: the sections of a profile are *)
(* varied one group at a time, around a profile that is in order.          *)
EXTENDS ProfileManifests

Base ==
    [name |-> "p", cpu |-> [reserved |-> {0, 1}, isolated |-> {2, 3}, balanceIsolated |-> Nil],
     nodeSelector |-> {<<"node-role.kubernetes.io", "cnf">>},
     machineConfigLabel |-> Nil, machineConfigPoolSelector |-> Nil,
     hugepages |-> Nil, numa |-> Nil, net |-> Nil, rtKernel |-> Nil, snippet |-> Nil]

CPUSections ==
    {Nil} \union [reserved: {Nil, Bad, {}, {0, 1}, {1, 31, 32}, {0, 95, 255}, {4, 256}, {4, 287}},
                  isolated: {Nil, Bad, {}, {2, 3}}, balanceIsolated: {Nil, FALSE}]

Devices == [interface: {Nil, Bad, "eth*"}, vendor: {Nil, Bad, "0x1af4"}, device: {Nil, "0x1000"}]

NetSectionsIn ==
    {Nil} \union [userLevelNetworking: {Nil, TRUE, FALSE},
                  devices: {<<>>} \union {<<d>> : d \in Devices}
                           \union {<<d, [interface |-> "eth0", vendor |-> Nil, device |-> Nil]>> :
                                      d \in Devices}]

Page == [size: {"1G", "2M", Bad}, node: {Nil, 0, 1}, count: {2}]

HugePagesSections ==
    [default: {Nil, "1G", "2M", Bad},
     pages: UNION {[1..n -> Page] : n \in 0..2}
            \union [1..3 -> {p \in Page : p.size \in Sizes /\ p.node # 1}]]

Snippets ==
    {Nil, Bad} \union [kubeReserved: {Nil, 600}, systemReserved: {Nil, 700, Bad},
                       evictionHard: {Nil, 200}, reservedMemory: {Nil, 42},
                       memoryManager: {Nil, "None", "Static"}, fullPCPUs: {Nil, "false"},
                       reservedSystemCPUs: {Nil}]

OwnCPUs == [NoSnippet EXCEPT !.reservedSystemCPUs = {0, 1, 2}]

NUMASections == {Nil} \union [policy: TopologyPolicies \union {Nil, Bad}]

Keys == {<<"node-role.kubernetes.io", "cnf">>, <<"cnf">>, <<"", "">>}

Labels == {Nil, {}, {<<"custom", "x">>}, {<<"custom", "x">>, <<"other", "y">>}}

MCProfiles ==
    {[Base EXCEPT !.cpu = c, !.net = n, !.snippet = s] :
        c \in CPUSections, n \in {Nil, [userLevelNetworking |-> TRUE, devices |-> <<>>]},
        s \in {Nil, OwnCPUs}}
    \union {[Base EXCEPT !.net = n, !.rtKernel = TRUE] : n \in NetSectionsIn}
    \union {[Base EXCEPT !.hugepages = h] : h \in HugePagesSections}
    \union {[Base EXCEPT !.numa = n, !.snippet = s] : n \in NUMASections, s \in Snippets}
    \union {[Base EXCEPT !.nodeSelector = k, !.machineConfigLabel = l,
                         !.machineConfigPoolSelector = s] :
               k \in {Nil} \union SUBSET Keys, l \in Labels, s \in Labels}

MCRenderInputs ==
    LET few == {Base, [Base EXCEPT !.rtKernel = TRUE], [Base EXCEPT !.name = "q"],
                [Base EXCEPT !.name = "q", !.cpu = Nil]}
    IN {<<p, q>> : p \in few, q \in few}

MCPoolLabels == {<<"pools.operator.machineconfiguration.openshift.io/cnf", "">>}
=============================================================================
