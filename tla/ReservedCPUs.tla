---------------------------- MODULE ReservedCPUs ----------------------------
(***************************************************************************)
(* How the performance profile creator divides the CPUs of a node into     *)
(* reserved and isolated ones (GetReservedAndIsolatedCPUs and below in     *)
(* pkg/profilecreator/profilecreator.go), one step per NUMA node.          *)
(*                                                                         *)
(* The topology is the one SortedTopology returns.  A CPU is identified by *)
(* its NUMA node, its core and its thread, so that the order of the CPUs   *)
(* within a NUMA node is that of the sorted cores.  Cores may differ in    *)
(* their threads, as when a sibling is off line.                           *)
(***************************************************************************)
EXTENDS Naturals, Sequences, FiniteSets

CONSTANTS
    MaxNodes,   \* bound: NUMA nodes
    MaxCores,   \* bound: cores of a NUMA node
    MaxThreads  \* bound: threads of a core

ASSUME CPUAssumption ==
    MaxNodes \in Nat \ {0} /\ MaxCores \in Nat \ {0} /\ MaxThreads \in Nat \ {0}

VARIABLES
    cores,      \* cores[n][c]: how many logical processors of core c of NUMA
                \* node n the profile will use
    htEnabled,  \* the processor has the flag "ht" and keeps it
    disableHT, split, requested,    \* the arguments
    pc, node, max, remainder,       \* the loop over the NUMA nodes
    reserved

inputs == <<disableHT, split, requested>>
vars   == <<cores, inputs, htEnabled, pc, node, max, remainder, reserved>>

Nodes == DOMAIN cores

AllOf(n) ==
    {cpu \in {n} \X (DOMAIN cores[n]) \X (1..MaxThreads) : cpu[3] <= cores[n][cpu[2]]}

\* The order of AddCores within a NUMA node.
Before(a, b) == a[2] < b[2] \/ (a[2] = b[2] /\ a[3] < b[3])

Position(cpu) == Cardinality({a \in AllOf(cpu[1]) : Before(a, cpu)})

\* The first i CPUs of node n.
CPUs(n, i) == {cpu \in AllOf(n) : Position(cpu) < i}

All == UNION {AllOf(n) : n \in Nodes}

NumaNodeNum == Cardinality(Nodes)

\* The type of the inputs and of the loop of getCPUsSplitAcrossNUMA.
TypeOK ==
    /\ NumaNodeNum \in 1..MaxNodes
    /\ cores \in [1..NumaNodeNum -> Seq(1..MaxThreads)]
    /\ \A n \in Nodes : Len(cores[n]) <= MaxCores
    /\ htEnabled \in BOOLEAN /\ disableHT \in BOOLEAN /\ split \in BOOLEAN
    /\ requested \in Nat /\ max \in Nat /\ remainder \in Nat
    /\ pc \in {"start", "split", "sequential", "done", "error", "panic"}
    /\ node \in 1..NumaNodeNum + 1
    /\ reserved \subseteq All

\* Two threads of a core come with the flag "ht".  A NUMA node may have memory
\* and no cores.
Init ==
    /\ \E n \in 1..MaxNodes :
          cores \in [1..n -> UNION {[1..k -> 1..MaxThreads] : k \in 0..MaxCores}]
    /\ htEnabled \in BOOLEAN
    /\ (\E n \in Nodes : \E c \in DOMAIN cores[n] : cores[n][c] > 1) => htEnabled
    /\ disableHT \in BOOLEAN /\ split \in BOOLEAN
    /\ requested \in 0..MaxNodes * MaxCores * MaxThreads
    /\ pc = "start" /\ node = 1 /\ max = 0 /\ remainder = 0 /\ reserved = {}

-----------------------------------------------------------------------------

\* Mutant: the threads are left on.
topologyHTKept == cores

\* Every core is left with its first logical processor.
topologyHTDisabled == [n \in Nodes |-> [c \in DOMAIN cores[n] |-> 1]]

\* Mutant: all CPUs may be reserved.
InRangeAll == requested # 0 /\ requested <= Cardinality(All)

InRange == requested # 0 /\ requested < Cardinality(All)

\* Mutant: the same happens when the threads stay on.
MissingNodeAlways == \E n \in Nodes : cores[n] = <<>>

\* topologyHTDisabled makes no NUMA node of one without cores, and the loop
\* that logs the NUMA nodes does not expect that.
MissingNode == htEnabled /\ disableHT /\ \E n \in Nodes : cores[n] = <<>>

\* The arguments are checked against all the threads the machine has.  An odd
\* number of CPUs is refused when the CPUs come in pairs.
GetReservedAndIsolatedCPUs ==
    /\ pc = "start"
    /\ htEnabled' = (htEnabled /\ ~disableHT)
    /\ cores' = IF htEnabled /\ disableHT THEN topologyHTDisabled ELSE cores
    /\ \/ ~InRange /\ pc' = "error"
       \/ InRange /\ MissingNode /\ pc' = "panic"
       \/ InRange /\ ~MissingNode /\ split /\ pc' = "split"
       \/ /\ InRange /\ ~MissingNode /\ ~split
          /\ pc' = IF requested % 2 # 0 /\ htEnabled' THEN "error" ELSE "sequential"
    /\ remainder' = requested % NumaNodeNum
    /\ UNCHANGED <<inputs, node, max, reserved>>

\* Mutant: the limit is taken per NUMA node.
AddCoresPerNode(limit) == reserved \union CPUs(node, limit)

\* CPUs of the NUMA node are added until limit CPUs are reserved in all.
AddCores(limit) ==
    IF Cardinality(reserved) < limit
    THEN reserved \union CPUs(node, limit - Cardinality(reserved))
    ELSE reserved

LoopOn(again) ==
    /\ node' = node + 1
    /\ pc' = IF node = NumaNodeNum THEN "done" ELSE again

\* Mutant: the remainder is not given to any NUMA node.
SplitMaxNoRemainder == max + requested \div NumaNodeNum

\* The limit for this NUMA node and the ones before it.
SplitMax ==
    IF remainder # 0
    THEN node * (requested \div NumaNodeNum) + (NumaNodeNum - remainder)
    ELSE max + requested \div NumaNodeNum

\* Mutant: the parity of the request is all that is looked at.
SplitOddRequest == requested % 2 # 0 /\ htEnabled

SplitOdd == SplitMax % 2 # 0 /\ htEnabled

\* Mutant: the remainder is counted down at every NUMA node.
NextRemainderAlways == remainder - 1

NextRemainder == IF remainder # 0 THEN remainder - 1 ELSE 0

getCPUsSplitAcrossNUMA ==
    /\ pc = "split"
    /\ max' = SplitMax
    /\ remainder' = NextRemainder
    /\ \/ SplitOdd /\ pc' = "error" /\ UNCHANGED <<node, reserved>>
       \/ ~SplitOdd /\ reserved' = AddCores(SplitMax) /\ LoopOn("split")
    /\ UNCHANGED <<cores, inputs, htEnabled>>

getCPUsSequentially ==
    /\ pc = "sequential"
    /\ reserved' = AddCores(requested)
    /\ LoopOn("sequential")
    /\ UNCHANGED <<cores, inputs, htEnabled, max, remainder>>

Next == GetReservedAndIsolatedCPUs \/ getCPUsSplitAcrossNUMA \/ getCPUsSequentially

Spec == Init /\ [][Next]_vars

-----------------------------------------------------------------------------
(* Properties of the result.                                               *)

\* Without a split, as many CPUs as requested are reserved, unless the threads
\* that are switched off are needed for it, and no NUMA node contributes
\* before the ones with smaller numbers are used up.
SequentialExact ==
    pc = "done" /\ ~split /\ requested <= Cardinality(All) =>
        /\ Cardinality(reserved) = requested
        /\ \A m, n \in Nodes :
              m < n /\ (\E cpu \in reserved : cpu[1] = n) => AllOf(m) \subseteq reserved

\* Where every core has two threads, as with hyperthreading on and no CPU off
\* line, they are both reserved or both isolated; the isolated CPUs are those
\* that are not reserved.
SiblingsTogether ==
    pc = "done" /\ htEnabled /\ (\A n \in Nodes : \A c \in DOMAIN cores[n] : cores[n][c] = 2) =>
        \A n \in Nodes : \A c \in DOMAIN cores[n] :
            <<n, c, 1>> \in reserved <=> <<n, c, 2>> \in reserved

\* Every NUMA node could give its share.
Roomy == \A n \in Nodes : Cardinality(AllOf(n)) > requested \div NumaNodeNum

Balanced ==
    \A n \in Nodes :
        Cardinality(reserved \intersect AllOf(n))
            \in {requested \div NumaNodeNum, requested \div NumaNodeNum + 1}

\* With at most two NUMA nodes a split reserves what is requested, in equal
\* shares but for one CPU.
SplitOfTwoExact ==
    pc = "done" /\ split /\ Roomy /\ NumaNodeNum <= 2 =>
        Cardinality(reserved) = requested /\ Balanced

\* "We identify the right number of CPUs that need to be allocated per NUMA
\* node, meaning reservedPerNuma + (the additional number ...)".
SplitExact ==
    pc = "done" /\ split /\ Roomy => Cardinality(reserved) = requested /\ Balanced
=============================================================================
