------------------------ MODULE ProfileCreator_proofs ------------------------
(***************************************************************************)
(* The properties of the profile creator for every topology of at least    *)
(* one NUMA node, cluster and command line.  The first part is about the   *)
(* allocation of CPUs alone (ReservedCPUs): the CPUs of a NUMA node are    *)
(* counted by their positions in the order they are taken in, and from     *)
(* that the loops over the NUMA nodes follow.  The second shows that the   *)
(* creator runs that allocation, and what becomes of its result; the       *)
(* snapshots of the nodes come in there.                                   *)
(***************************************************************************)
EXTENDS ProfileCreator, FiniteSetTheorems, SequenceTheorems, TLAPS

-----------------------------------------------------------------------------
(* The CPUs of a NUMA node.                                                *)

\* The smaller of two numbers.
Least(i, k) == IF i < k THEN i ELSE k

\* A strict total order on a set, as the set of its pairs.
StrictOrder(S, lt) ==
    /\ lt \in SUBSET (S \X S)
    /\ \A a \in S : <<a, a>> \notin lt
    /\ \A a, b \in S : a # b => <<a, b>> \in lt \/ <<b, a>> \in lt
    /\ \A a, b, c \in S : <<a, b>> \in lt /\ <<b, c>> \in lt => <<a, c>> \in lt

\* The position of each element.
Ranks(S, lt, rank) ==
    /\ rank \in [S -> Nat]
    /\ \A x \in S : rank[x] = Cardinality({a \in S : <<a, x>> \in lt})

\* The elements before position i.
Lower(S, rank, i) == {x \in S : rank[x] < i}

\* In a finite set with a strict order the positions are the numbers below its
\* size, each once; so that as many elements come before position i as there
\* are such numbers.
LEMMA Positions ==
    ASSUME NEW S, NEW lt, NEW rank, NEW i \in Nat,
           IsFiniteSet(S), StrictOrder(S, lt), Ranks(S, lt, rank)
    PROVE  /\ Cardinality(S) \in Nat /\ \A x \in S : rank[x] \in 0..Cardinality(S) - 1
           /\ IsFiniteSet(Lower(S, rank, i))
           /\ Cardinality(Lower(S, rank, i)) = Least(i, Cardinality(S))
<1> USE DEF StrictOrder, Ranks, Lower
<1> DEFINE k == Cardinality(S)
           Down(x) == {a \in S : <<a, x>> \in lt}
           P == {x \in S : rank[x] < i}
           m == Least(i, k)
<1>1. k \in Nat
  BY FS_CardinalityType
<1>2. ASSUME NEW x \in S
      PROVE  /\ IsFiniteSet(Down(x)) /\ rank[x] = Cardinality(Down(x))
             /\ rank[x] \in Nat /\ x \notin Down(x)
             /\ rank[x] <= k /\ rank[x] # k
  <2>1. rank[x] = Cardinality(Down(x)) /\ Down(x) \in SUBSET S /\ x \notin Down(x)
    OBVIOUS
  <2> HIDE DEF Down
  <2>2. IsFiniteSet(Down(x)) /\ Cardinality(Down(x)) <= k /\ Cardinality(Down(x)) # k
    BY <2>1, FS_Subset
  <2>3. Cardinality(Down(x)) \in Nat
    BY <2>2, FS_CardinalityType
  <2> QED
    BY <2>1, <2>2, <2>3
<1>3. ASSUME NEW x \in S PROVE rank[x] \in 0..k - 1
  <2> HIDE DEF Down, k
  <2>1. rank[x] \in Nat /\ rank[x] <= k /\ rank[x] # k
    BY <1>2
  <2>2. \A r \in Nat : r <= k /\ r # k => r \in 0..k - 1
    BY <1>1
  <2> QED
    BY <2>1, <2>2, Zenon
<1>4. ASSUME NEW x \in S, NEW y \in S, <<x, y>> \in lt PROVE rank[x] < rank[y]
  <2>1. Down(x) \in SUBSET Down(y) /\ Down(x) # Down(y)
    <3>1. Down(x) \subseteq Down(y)
      BY <1>4
    <3>2. x \in Down(y)
      BY <1>4
    <3> QED
      BY <1>2, <3>1, <3>2
  <2> HIDE DEF Down, k
  <2>2. Cardinality(Down(x)) <= Cardinality(Down(y)) /\ Cardinality(Down(x)) # Cardinality(Down(y))
    BY <1>2, <2>1, FS_Subset
  <2>3. rank[x] <= rank[y] /\ rank[x] # rank[y]
    BY <1>2, <2>2, Zenon
  <2>4. rank[x] \in Nat /\ rank[y] \in Nat
    OBVIOUS
  <2>5. \A q, r \in Nat : q <= r /\ q # r => q < r
    OBVIOUS
  <2> QED
    BY <2>3, <2>4, <2>5, Zenon
<1> HIDE DEF k, Down
<1>5. ASSUME NEW x \in S, NEW y \in S, rank[x] = rank[y] PROVE x = y
  <2>1. ~(rank[x] < rank[y]) /\ ~(rank[y] < rank[x])
    BY <1>2, <1>5
  <2>2. <<x, y>> \notin lt /\ <<y, x>> \notin lt
    BY <1>4, <2>1
  <2> QED
    BY <2>2
<1>6. rank \in Injection(S, 0..k - 1)
  BY <1>3, <1>5 DEF Injection, IsInjective
<1>7. IsFiniteSet(0..k - 1) /\ Cardinality(0..k - 1) = k
  BY <1>1, FS_Interval
<1>8. \A j \in 0..k - 1 : \E x \in S : rank[x] = j
  <2>1. rank \in Surjection(S, 0..k - 1)
    BY <1>6, <1>7, FS_Injection DEF k
  <2> QED
    BY <2>1 DEF Surjection
<1> DEFINE f == [x \in P |-> rank[x]]
<1>9. m \in Nat /\ 0..m - 1 = {j \in 0..k - 1 : j < i}
  BY <1>1 DEF Least
<1>10. f \in Bijection(P, 0..m - 1)
  <2>1. f \in [P -> 0..m - 1]
    BY <1>3, <1>9
  <2>2. \A j \in 0..m - 1 : \E x \in P : f[x] = j
    BY <1>8, <1>9
  <2>3. \A x, y \in P : f[x] = f[y] => x = y
    BY <1>5
  <2> QED
    BY <2>1, <2>2, <2>3 DEF Bijection, Injection, Surjection, IsInjective
<1>11. IsFiniteSet(P)
  BY FS_Subset
<1>12. ExistsBijection(P, 0..m - 1)
  BY <1>10 DEF ExistsBijection
<1>13. Cardinality(0..m - 1) = m
  BY <1>9, FS_Interval
<1>14. Cardinality(P) = m
  BY <1>11, <1>12, <1>13, FS_Bijection
<1> QED
  BY <1>1, <1>3, <1>11, <1>14 DEF k

\* The CPUs that a machine within the bounds may have are finitely many.
LEMMA FiniteAllCPUs == IsFiniteSet(AllCPUs)
<1> DEFINE A == 1..MaxNodes
           B == 1..MaxCores
           C == 1..MaxThreads
           f == [cpu \in AllCPUs |-> <<<<cpu[1], cpu[2]>>, cpu[3]>>]
<1>1. IsFiniteSet(A) /\ IsFiniteSet(B) /\ IsFiniteSet(C)
  BY CPUAssumption, FS_Interval
<1>2. AllCPUs = A \X B \X C
  BY DEF AllCPUs
<1> HIDE DEF A, B, C
<1>3. IsFiniteSet(A \X B)
  BY <1>1, FS_Product
<1>4. IsFiniteSet((A \X B) \X C)
  BY <1>1, <1>3, FS_Product
<1>5. f \in Injection(AllCPUs, (A \X B) \X C)
  <2>1. f \in [AllCPUs -> (A \X B) \X C]
    BY <1>2
  <2>2. \A x, y \in AllCPUs : f[x] = f[y] => x = y
    BY <1>2
  <2> QED
    BY <2>1, <2>2 DEF Injection, IsInjective
<1> QED
  BY <1>4, <1>5, FS_Injection

\* NUMA nodes are numbered from 1 (SortedTopology returns them in order).
LEMMA NodesNumbered == TypeOK => Nodes = 1..NumaNodeNum /\ NumaNodeNum \in Nat \ {0}
BY CPUAssumption DEF TypeOK, Nodes

\* The cores of a NUMA node have one thread or more.
LEMMA CoresOf ==
    ASSUME TypeOK, NEW n \in 1..NumaNodeNum
    PROVE  /\ cores[n] \in Seq(1..MaxThreads) /\ Len(cores[n]) \in Nat
           /\ Len(cores[n]) <= MaxCores /\ DOMAIN cores[n] = 1..Len(cores[n])
           /\ \A c \in DOMAIN cores[n] : cores[n][c] \in 1..MaxThreads
           /\ n \in 1..MaxNodes
<1>1. Nodes = 1..NumaNodeNum /\ NumaNodeNum \in Nat /\ NumaNodeNum <= MaxNodes
  BY NodesNumbered, CPUAssumption DEF TypeOK
<1>2. cores[n] \in Seq(1..MaxThreads) /\ Len(cores[n]) <= MaxCores
  BY <1>1 DEF TypeOK
<1>3. Len(cores[n]) \in Nat /\ DOMAIN cores[n] = 1..Len(cores[n])
  BY <1>2, LenProperties
<1>4. \A c \in 1..Len(cores[n]) : cores[n][c] \in 1..MaxThreads
  BY <1>2, ElementOfSeq
<1>5. n \in 1..MaxNodes
  BY <1>1, CPUAssumption
<1> QED
  BY <1>2, <1>3, <1>4, <1>5

\* The CPUs of a NUMA node: its cores, each with its threads.
LEMMA AllOfNode ==
    ASSUME TypeOK, NEW n \in 1..NumaNodeNum
    PROVE  /\ AllOf(n) \subseteq AllCPUs /\ IsFiniteSet(AllOf(n))
           /\ Cardinality(AllOf(n)) \in Nat
           /\ \A cpu \in AllOf(n) :
                 /\ cpu[1] = n /\ cpu[2] \in DOMAIN cores[n] /\ cpu[2] \in Nat
                 /\ cpu[3] \in 1..cores[n][cpu[2]] /\ cpu[3] \in Nat
                 /\ cpu = <<cpu[1], cpu[2], cpu[3]>>
           /\ \A c \in DOMAIN cores[n] : \A t \in 1..cores[n][c] : <<n, c, t>> \in AllOf(n)
           /\ AllOf(n) \subseteq All
<1>1. /\ Len(cores[n]) <= MaxCores /\ Len(cores[n]) \in Nat
      /\ n \in 1..MaxNodes /\ DOMAIN cores[n] = 1..Len(cores[n])
  BY CoresOf
<1>2. \A c \in DOMAIN cores[n] : cores[n][c] \in 1..MaxThreads
  BY CoresOf
<1>3. AllOf(n) \subseteq AllCPUs
  BY <1>1, CPUAssumption DEF AllOf, AllCPUs
<1>4. IsFiniteSet(AllOf(n))
  BY <1>3, FiniteAllCPUs, FS_Subset
<1>5. Cardinality(AllOf(n)) \in Nat
  BY <1>4, FS_CardinalityType
<1>6. ASSUME NEW cpu \in AllOf(n)
      PROVE  /\ cpu[1] = n /\ cpu[2] \in DOMAIN cores[n] /\ cpu[2] \in Nat
             /\ cpu[3] \in 1..cores[n][cpu[2]] /\ cpu[3] \in Nat
             /\ cpu = <<cpu[1], cpu[2], cpu[3]>>
  <2>1. /\ cpu \in {n} \X (DOMAIN cores[n]) \X (1..MaxThreads)
        /\ cpu[3] <= cores[n][cpu[2]]
    BY <1>6 DEF AllOf
  <2>2. /\ cpu[1] = n /\ cpu[2] \in DOMAIN cores[n] /\ cpu[3] \in 1..MaxThreads
        /\ cpu = <<cpu[1], cpu[2], cpu[3]>>
    BY <2>1
  <2>3. cores[n][cpu[2]] \in 1..MaxThreads
    BY <1>2, <2>2
  <2> QED
    BY <1>1, <2>1, <2>2, <2>3, CPUAssumption
<1>7. ASSUME NEW c \in DOMAIN cores[n], NEW t \in 1..cores[n][c]
      PROVE  <<n, c, t>> \in AllOf(n)
  <2>1. cores[n][c] \in 1..MaxThreads
    BY <1>2
  <2>2. t \in 1..MaxThreads /\ t <= cores[n][c]
    BY <2>1, CPUAssumption
  <2> QED
    BY <2>2 DEF AllOf
<1>8. AllOf(n) \subseteq All
  BY NodesNumbered DEF All
<1> QED
  BY <1>3, <1>4, <1>5, <1>6, <1>7, <1>8

\* As many CPUs come before position i as there are positions.
LEMMA CPUsCount ==
    ASSUME TypeOK, NEW n \in 1..NumaNodeNum, NEW i \in Nat
    PROVE  /\ IsFiniteSet(CPUs(n, i))
           /\ Cardinality(CPUs(n, i)) = Least(i, Cardinality(AllOf(n)))
           /\ \A cpu \in AllOf(n) : Position(cpu) \in 0..Cardinality(AllOf(n)) - 1
<1> DEFINE S == AllOf(n)
           lt == {p \in S \X S : Before(p[1], p[2])}
           rank == [x \in S |-> Cardinality({a \in S : <<a, x>> \in lt})]
<1>1. IsFiniteSet(S) /\ \A a \in S : a[1] = n /\ a[2] \in Nat /\ a[3] \in Nat
                                     /\ a = <<a[1], a[2], a[3]>>
  BY AllOfNode
<1> HIDE DEF S
<1>2. lt \in SUBSET (S \X S) /\ \A a, b \in S : <<a, b>> \in lt <=> Before(a, b)
  OBVIOUS
<1> HIDE DEF lt
<1>3. \A a \in S : <<a, a>> \notin lt
  BY <1>1, <1>2 DEF Before
<1>4. ASSUME NEW a \in S, NEW b \in S, a # b
      PROVE  <<a, b>> \in lt \/ <<b, a>> \in lt
  BY <1>1, <1>2, <1>4 DEF Before
<1>5. ASSUME NEW a \in S, NEW b \in S, NEW c \in S, <<a, b>> \in lt, <<b, c>> \in lt
      PROVE  <<a, c>> \in lt
  BY <1>1, <1>2, <1>5 DEF Before
<1>6. ASSUME NEW x \in S PROVE Position(x) = rank[x]
  <2>1. {a \in S : <<a, x>> \in lt} = {a \in S : Before(a, x)}
    BY <1>2
  <2>2. AllOf(x[1]) = S
    BY <1>1 DEF S
  <2> QED
    BY <2>1, <2>2 DEF Position
<1>7. /\ Cardinality(S) \in Nat /\ \A x \in S : rank[x] \in 0..Cardinality(S) - 1
      /\ IsFiniteSet(Lower(S, rank, i))
      /\ Cardinality(Lower(S, rank, i)) = Least(i, Cardinality(S))
  <2>1. /\ rank \in [S -> Nat]
        /\ \A x \in S : rank[x] = Cardinality({a \in S : <<a, x>> \in lt})
    <3>1. ASSUME NEW x \in S PROVE Cardinality({a \in S : <<a, x>> \in lt}) \in Nat
      <4>1. IsFiniteSet({a \in S : <<a, x>> \in lt})
        BY <1>1, FS_Subset
      <4> QED
        BY <4>1, FS_CardinalityType
    <3> QED
      BY <3>1
  <2>2. \A a, b \in S : a # b => <<a, b>> \in lt \/ <<b, a>> \in lt
    BY <1>4
  <2>3. \A a, b, c \in S : <<a, b>> \in lt /\ <<b, c>> \in lt => <<a, c>> \in lt
    BY <1>5
  <2>4. IsFiniteSet(S) /\ lt \in SUBSET (S \X S)
    BY <1>1, <1>2
  <2> HIDE DEF rank
  <2>5. StrictOrder(S, lt) /\ Ranks(S, lt, rank)
    BY <1>3, <2>1, <2>2, <2>3, <2>4 DEF StrictOrder, Ranks
  <2> QED
    BY <2>4, <2>5, Positions
<1> HIDE DEF rank
<1>8. CPUs(n, i) = Lower(S, rank, i)
  BY <1>6 DEF CPUs, Lower, S
<1> QED
  BY <1>6, <1>7, <1>8 DEF S

-----------------------------------------------------------------------------
(* The loops over the NUMA nodes.                                          *)

\* Where the loop over the NUMA nodes is, and which of them it has used.
LoopInv ==
    /\ IsFiniteSet(reserved)
    /\ \A cpu \in reserved : cpu[1] < node
    /\ remainder < NumaNodeNum
    /\ pc = "start" => node = 1 /\ max = 0 /\ reserved = {}
    /\ pc = "split" => split /\ node \in Nodes
    /\ pc = "sequential" => ~split /\ node \in Nodes
    /\ pc = "done" => node = NumaNodeNum + 1

\* AllOf(n) ends where the positions end.
LEMMA AllOfElements ==
    ASSUME TypeOK, NEW n \in 1..NumaNodeNum, NEW i \in Nat
    PROVE  /\ CPUs(n, i) \subseteq AllOf(n)
           /\ Cardinality(AllOf(n)) <= i => CPUs(n, i) = AllOf(n)
           /\ AllOf(n) \subseteq All
           /\ \A cpu \in AllOf(n) : cpu[1] = n
<1>1. CPUs(n, i) \subseteq AllOf(n)
  BY DEF CPUs
<1>2. ASSUME Cardinality(AllOf(n)) <= i, NEW cpu \in AllOf(n) PROVE cpu \in CPUs(n, i)
  <2>1. Position(cpu) \in 0..Cardinality(AllOf(n)) - 1 /\ Cardinality(AllOf(n)) \in Nat
    BY AllOfNode, CPUsCount
  <2> QED
    BY <1>2, <2>1 DEF CPUs
<1> QED
  BY <1>1, <1>2, AllOfNode

\* AddCores fills up to the limit from one more NUMA node, as far as that has
\* CPUs.
LEMMA AddCoresFills ==
    ASSUME TypeOK, LoopInv, node \in 1..NumaNodeNum, NEW limit \in Nat
    PROVE  /\ IsFiniteSet(AddCores(limit)) /\ Cardinality(AddCores(limit)) \in Nat
           /\ reserved \subseteq AddCores(limit)
           /\ AddCores(limit) \subseteq reserved \union AllOf(node)
           /\ IF Cardinality(reserved) < limit
              THEN /\ AddCores(limit) = reserved \union CPUs(node, limit - Cardinality(reserved))
                   /\ Cardinality(AddCores(limit)) = Cardinality(reserved) +
                          Least(limit - Cardinality(reserved), Cardinality(AllOf(node)))
              ELSE AddCores(limit) = reserved
           /\ Cardinality(AddCores(limit)) < limit =>
                  AddCores(limit) = reserved \union AllOf(node)
<1>1. IsFiniteSet(reserved) /\ Cardinality(reserved) \in Nat
  BY FS_CardinalityType DEF LoopInv
<1>2. CASE ~(Cardinality(reserved) < limit)
  BY <1>1, <1>2 DEF AddCores
<1>3. CASE Cardinality(reserved) < limit
  <2> DEFINE d == limit - Cardinality(reserved)
             k == Cardinality(AllOf(node))
  <2>1. d \in Nat /\ k \in Nat
    BY <1>1, <1>3, AllOfNode
  <2>2. AddCores(limit) = reserved \union CPUs(node, d)
    BY <1>3 DEF AddCores
  <2>3. IsFiniteSet(CPUs(node, d)) /\ Cardinality(CPUs(node, d)) = Least(d, k)
    BY <2>1, CPUsCount
  <2>4. /\ CPUs(node, d) \subseteq AllOf(node)
        /\ k <= d => CPUs(node, d) = AllOf(node)
        /\ \A cpu \in AllOf(node) : cpu[1] = node
    BY <2>1, AllOfElements
  <2> HIDE DEF d, k
  <2>5. reserved \intersect CPUs(node, d) = {}
    <3>1. \A cpu \in reserved : cpu[1] # node
      BY DEF LoopInv, TypeOK
    <3> QED
      BY <2>4, <3>1
  <2>6. /\ IsFiniteSet(AddCores(limit))
        /\ Cardinality(AddCores(limit)) = Cardinality(reserved) + Least(d, k)
    <3>1. /\ IsFiniteSet(reserved \union CPUs(node, d))
          /\ Cardinality(reserved \union CPUs(node, d)) =
                 Cardinality(reserved) + Cardinality(CPUs(node, d)) - Cardinality({})
      BY <1>1, <2>3, <2>5, FS_Union
    <3>2. Least(d, k) \in Nat
      BY <2>1 DEF Least
    <3> QED
      BY <1>1, <2>2, <2>3, <3>1, <3>2, FS_EmptySet
  <2>7. Cardinality(AddCores(limit)) < limit => k <= d
    BY <1>1, <2>1, <2>6 DEF Least, d
  <2>8. Cardinality(AddCores(limit)) \in Nat
    BY <2>6, FS_CardinalityType
  <2>9. AddCores(limit) \subseteq reserved \union AllOf(node)
    BY <2>2, <2>4
  <2>10. Cardinality(AddCores(limit)) < limit => AddCores(limit) = reserved \union AllOf(node)
    BY <2>2, <2>4, <2>7
  <2> QED
    BY <1>3, <2>2, <2>6, <2>8, <2>9, <2>10 DEF d, k
<1> QED
  BY <1>2, <1>3

\* The topology is fixed once the threads to use are known.
LEMMA TopologyKept ==
    ASSUME UNCHANGED cores
    PROVE  /\ Nodes' = Nodes /\ NumaNodeNum' = NumaNodeNum /\ All' = All
           /\ \A n : AllOf(n)' = AllOf(n)
           /\ \A n, i : CPUs(n, i)' = CPUs(n, i)
BY DEF All, AllOf, CPUs, Position, Nodes, NumaNodeNum

\* When threads are switched off the cores stay, with a thread each.
LEMMA TopologyRead ==
    ASSUME TypeOK, GetReservedAndIsolatedCPUs
    PROVE  /\ Nodes' = Nodes /\ NumaNodeNum' = NumaNodeNum
           /\ cores' \in [1..NumaNodeNum -> Seq(1..MaxThreads)]
           /\ \A n \in Nodes : Len(cores'[n]) = Len(cores[n]) /\ Len(cores'[n]) <= MaxCores
           /\ htEnabled /\ disableHT =>
                 \A n \in Nodes : \A c \in DOMAIN cores'[n] : cores'[n][c] = 1
           /\ ~(htEnabled /\ disableHT) => UNCHANGED cores
<1>1. Nodes = 1..NumaNodeNum /\ NumaNodeNum \in Nat
  BY NodesNumbered
<1>2. CASE htEnabled /\ disableHT
  <2>1. cores' = [n \in Nodes |-> [c \in DOMAIN cores[n] |-> 1]]
    BY <1>2 DEF GetReservedAndIsolatedCPUs, topologyHTDisabled
  <2>2. Nodes' = Nodes
    BY <2>1 DEF Nodes
  <2>3. NumaNodeNum' = NumaNodeNum
    BY <2>2 DEF NumaNodeNum
  <2>4. ASSUME NEW n \in Nodes
        PROVE  /\ cores'[n] \in Seq(1..MaxThreads) /\ Len(cores'[n]) = Len(cores[n])
               /\ Len(cores[n]) <= MaxCores
               /\ \A c \in DOMAIN cores'[n] : cores'[n][c] = 1
    <3>1. /\ cores[n] \in Seq(1..MaxThreads) /\ Len(cores[n]) \in Nat
          /\ DOMAIN cores[n] = 1..Len(cores[n]) /\ Len(cores[n]) <= MaxCores
      BY <1>1 DEF TypeOK
    <3>2. cores'[n] = [c \in 1..Len(cores[n]) |-> 1]
      BY <2>1, <3>1
    <3>3. cores'[n] \in [1..Len(cores[n]) -> 1..MaxThreads]
      BY <3>2, CPUAssumption
    <3> QED
      BY <3>1, <3>2, <3>3
  <2> QED
    BY <1>1, <1>2, <2>1, <2>2, <2>3, <2>4
<1>3. CASE ~(htEnabled /\ disableHT)
  <2>1. UNCHANGED cores
    BY <1>3 DEF GetReservedAndIsolatedCPUs
  <2> QED
    BY <1>1, <1>3, <2>1 DEF TypeOK, Nodes, NumaNodeNum
<1> QED
  BY <1>2, <1>3

\* What a NUMA node is to contribute, and with the ones before it, is a number.
LEMMA SplitNumbers ==
    ASSUME TypeOK, LoopInv
    PROVE  /\ requested \div NumaNodeNum \in Nat
           /\ requested % NumaNodeNum \in 0..NumaNodeNum - 1
           /\ SplitMax \in Nat /\ NextRemainder \in 0..NumaNodeNum - 1
<1>1. NumaNodeNum \in Nat \ {0} /\ requested \in Nat /\ remainder \in 0..NumaNodeNum - 1
      /\ max \in Nat /\ node \in Nat
  BY NodesNumbered DEF TypeOK, LoopInv
<1>2. requested \div NumaNodeNum \in Nat /\ requested % NumaNodeNum \in 0..NumaNodeNum - 1
  BY <1>1
<1>3. node * (requested \div NumaNodeNum) \in Nat
  BY <1>1, <1>2
<1>4. SplitMax \in Nat
  BY <1>1, <1>2, <1>3 DEF SplitMax
<1>5. NextRemainder \in 0..NumaNodeNum - 1
  BY <1>1 DEF NextRemainder
<1> QED
  BY <1>2, <1>4, <1>5

\* One more NUMA node is done.
LEMMA NodeStep ==
    ASSUME TypeOK, LoopInv, NEW limit \in Nat, NEW again, again = pc,
           pc \in {"split", "sequential"},
           reserved' = AddCores(limit), LoopOn(again), UNCHANGED <<cores, inputs, htEnabled>>,
           max' \in Nat, remainder' \in 0..NumaNodeNum - 1
    PROVE  TypeOK' /\ LoopInv'
<1>1. /\ Nodes' = Nodes /\ NumaNodeNum' = NumaNodeNum /\ All' = All
      /\ Nodes = 1..NumaNodeNum /\ NumaNodeNum \in Nat \ {0}
  BY TopologyKept, NodesNumbered DEF inputs
<1>2. node \in 1..NumaNodeNum
  BY <1>1 DEF LoopInv
<1>3. /\ IsFiniteSet(reserved') /\ reserved' \subseteq reserved \union AllOf(node)
  BY <1>2, AddCoresFills
<1>4. AllOf(node) \subseteq All /\ \A cpu \in AllOf(node) : cpu[1] = node
  BY <1>2, AllOfElements
<1>5. node' = node + 1 /\ pc' = IF node = NumaNodeNum THEN "done" ELSE again
  BY DEF LoopOn
<1>6. reserved' \subseteq All'
  BY <1>1, <1>3, <1>4 DEF TypeOK
<1>7. TypeOK'
  BY <1>1, <1>2, <1>5, <1>6 DEF TypeOK, inputs
<1>8. \A cpu \in reserved' : cpu[1] < node'
  <2> SUFFICES ASSUME NEW cpu \in reserved' PROVE cpu[1] < node'
    OBVIOUS
  <2>1. CASE cpu \in AllOf(node)
    BY <1>2, <1>4, <1>5, <2>1
  <2>2. CASE cpu \in reserved
    <3>1. cpu[1] < node
      BY <2>2 DEF LoopInv
    <3>2. PICK n \in 1..NumaNodeNum : cpu \in AllOf(n)
      BY <1>1, <2>2 DEF TypeOK, All
    <3>3. cpu[1] \in Nat
      BY <1>1, <3>2, AllOfElements
    <3> QED
      BY <1>2, <1>5, <3>1, <3>3
  <2> QED
    BY <1>3, <2>1, <2>2
<1>9. pc' \in {"split", "sequential"} => node' \in Nodes'
  BY <1>1, <1>2, <1>5
<1>10. pc' = "done" => node' = NumaNodeNum' + 1
  BY <1>1, <1>5
<1>11. pc' \in {pc, "done"} /\ remainder' < NumaNodeNum'
  BY <1>1, <1>5
<1> QED
  BY <1>3, <1>7, <1>8, <1>9, <1>10, <1>11 DEF LoopInv, inputs

\* Every step keeps the type and the loop's bookkeeping.
LEMMA LoopStep ==
    ASSUME TypeOK, LoopInv, [Next]_vars
    PROVE  TypeOK' /\ LoopInv'
<1>1. CASE GetReservedAndIsolatedCPUs
  <2>1. Nodes' = Nodes /\ NumaNodeNum' = NumaNodeNum
    BY <1>1, TopologyRead
  <2>2. UNCHANGED <<inputs, node, max, reserved>> /\ pc = "start"
    BY <1>1 DEF GetReservedAndIsolatedCPUs
  <2>3. node = 1 /\ max = 0 /\ reserved = {}
    BY <2>2 DEF LoopInv
  <2>4. remainder' \in 0..NumaNodeNum - 1
    BY <1>1, SplitNumbers DEF GetReservedAndIsolatedCPUs
  <2>5. /\ cores' \in [1..NumaNodeNum -> Seq(1..MaxThreads)]
        /\ \A n \in Nodes : Len(cores'[n]) <= MaxCores
        /\ htEnabled' \in BOOLEAN
    BY <1>1, TopologyRead DEF GetReservedAndIsolatedCPUs, TypeOK
  <2>6. /\ pc' \in {"error", "panic", "split", "sequential"}
        /\ pc' = "split" => split
        /\ pc' = "sequential" => ~split
    BY <1>1 DEF GetReservedAndIsolatedCPUs
  <2>7. TypeOK'
    <3>1. reserved' \subseteq All'
      BY <2>2, <2>3
    <3> QED
      BY <2>1, <2>2, <2>3, <2>4, <2>5, <2>6, <3>1, NodesNumbered DEF TypeOK, inputs
  <2>8. LoopInv'
    BY <2>1, <2>2, <2>3, <2>4, <2>6, NodesNumbered, FS_EmptySet DEF LoopInv, inputs
  <2> QED
    BY <2>7, <2>8
<1>2. CASE getCPUsSplitAcrossNUMA
  <2>1. /\ pc = "split" /\ max' \in Nat /\ remainder' \in 0..NumaNodeNum - 1
        /\ UNCHANGED <<cores, inputs, htEnabled>>
    BY <1>2, SplitNumbers DEF getCPUsSplitAcrossNUMA
  <2>2. CASE pc' = "error" /\ UNCHANGED <<node, reserved>>
    BY <2>1, <2>2, TopologyKept DEF TypeOK, LoopInv, inputs
  <2>3. CASE reserved' = AddCores(SplitMax) /\ LoopOn("split")
    BY <2>1, <2>3, SplitNumbers, NodeStep
  <2> QED
    BY <1>2, <2>2, <2>3 DEF getCPUsSplitAcrossNUMA
<1>3. CASE getCPUsSequentially
  <2>1. /\ pc = "sequential" /\ max' \in Nat /\ remainder' \in 0..NumaNodeNum - 1
        /\ UNCHANGED <<cores, inputs, htEnabled>> /\ requested \in Nat
        /\ reserved' = AddCores(requested) /\ LoopOn("sequential")
    BY <1>3 DEF getCPUsSequentially, TypeOK, LoopInv
  <2> QED
    BY <2>1, NodeStep
<1>4. CASE UNCHANGED vars
  BY <1>4, TopologyKept DEF vars, inputs, TypeOK, LoopInv
<1> QED
  BY <1>1, <1>2, <1>3, <1>4 DEF Next

\* They hold at the start.
LEMMA LoopInit == Init => TypeOK /\ LoopInv
<1> SUFFICES ASSUME Init PROVE TypeOK /\ LoopInv
  OBVIOUS
<1>1. PICK n \in 1..MaxNodes :
         cores \in [1..n -> UNION {[1..k -> 1..MaxThreads] : k \in 0..MaxCores}]
  BY DEF Init
<1>2. NumaNodeNum = n
  <2>1. Nodes = 1..n
    BY <1>1 DEF Nodes
  <2>2. Cardinality(1..n) = n
    BY <1>1, CPUAssumption, FS_Interval
  <2> QED
    BY <2>1, <2>2 DEF NumaNodeNum
<1>3. TypeOK
  <2>1. requested \in Nat
    <3>1. MaxNodes * MaxCores * MaxThreads \in Nat
      BY CPUAssumption
    <3> QED
      BY <3>1 DEF Init
  <2>2. ASSUME NEW s \in UNION {[1..k -> 1..MaxThreads] : k \in 0..MaxCores}
        PROVE  s \in Seq(1..MaxThreads) /\ Len(s) <= MaxCores
    <3>1. PICK k \in 0..MaxCores : s \in [1..k -> 1..MaxThreads]
      BY <2>2
    <3>2. s \in Seq(1..MaxThreads) /\ Len(s) = k
      BY <3>1, CPUAssumption
    <3> QED
      BY <3>1, <3>2, CPUAssumption
  <2>3. /\ cores \in [1..n -> Seq(1..MaxThreads)]
        /\ \A j \in Nodes : Len(cores[j]) <= MaxCores
    BY <1>1, <2>2 DEF Nodes
  <2> QED
    BY <1>1, <1>2, <2>1, <2>3, CPUAssumption DEF Init, TypeOK
<1>4. LoopInv
  BY <1>1, <1>2, CPUAssumption, FS_EmptySet DEF Init, LoopInv
<1> QED
  BY <1>3, <1>4

\* The type of the allocation's state, and the bookkeeping of its loops.
LEMMA LoopInvariant == Spec => [](TypeOK /\ LoopInv)
<1>1. Init => TypeOK /\ LoopInv
  BY LoopInit
<1>2. TypeOK /\ LoopInv /\ [Next]_vars => TypeOK' /\ LoopInv'
  BY LoopStep
<1> QED
  BY <1>1, <1>2, PTL DEF Spec

-----------------------------------------------------------------------------
(* Without a split.                                                        *)

\* What the loop of getCPUsSequentially has reserved so far: everything, while
\* the limit is not reached, and nothing beyond it.
SequentialInv ==
    pc \in {"sequential", "done"} /\ ~split =>
        /\ Cardinality(reserved) \in Nat /\ Cardinality(reserved) <= requested
        /\ Cardinality(reserved) < requested =>
               \A m \in Nodes : m < node => AllOf(m) \subseteq reserved
        /\ \A m, n \in Nodes :
              m < n /\ (\E cpu \in reserved : cpu[1] = n) => AllOf(m) \subseteq reserved

\* The loop over the NUMA nodes fills them one after the other.
LEMMA SequentialStep ==
    ASSUME TypeOK, LoopInv, SequentialInv, [Next]_vars
    PROVE  SequentialInv'
<1>1. CASE GetReservedAndIsolatedCPUs
  <2>1. reserved' = {} /\ node' = 1 /\ requested' \in Nat /\ pc' # "done"
    BY <1>1 DEF GetReservedAndIsolatedCPUs, LoopInv, TypeOK, inputs
  <2>2. Nodes' = Nodes
    BY <1>1, TopologyRead
  <2>3. \A m \in Nodes' : ~(m < 1)
    BY <2>2, NodesNumbered
  <2> QED
    BY <2>1, <2>3, FS_EmptySet DEF SequentialInv
<1>2. CASE getCPUsSplitAcrossNUMA
  BY <1>2 DEF getCPUsSplitAcrossNUMA, LoopInv, SequentialInv, inputs
<1>3. CASE getCPUsSequentially
  <2>1. /\ pc = "sequential" /\ UNCHANGED <<cores, inputs>> /\ requested \in Nat
        /\ reserved' = AddCores(requested) /\ LoopOn("sequential")
    BY <1>3 DEF getCPUsSequentially, TypeOK
  <2>2. ~split /\ node \in Nodes /\ Nodes = 1..NumaNodeNum
    BY <2>1, NodesNumbered DEF LoopInv
  <2>3. /\ Nodes' = Nodes /\ UNCHANGED <<requested, split>>
        /\ \A n : AllOf(n)' = AllOf(n)
    BY <2>1, TopologyKept DEF inputs
  <2>4. /\ Cardinality(reserved) \in Nat /\ Cardinality(reserved) <= requested
        /\ Cardinality(reserved) < requested =>
               \A m \in Nodes : m < node => AllOf(m) \subseteq reserved
        /\ \A m, n \in Nodes :
              m < n /\ (\E cpu \in reserved : cpu[1] = n) => AllOf(m) \subseteq reserved
    BY <2>1, <2>2 DEF SequentialInv
  <2>5. /\ Cardinality(reserved') \in Nat /\ Cardinality(reserved') <= requested
        /\ reserved \subseteq reserved'
        /\ reserved' \subseteq reserved \union AllOf(node)
        /\ Cardinality(reserved') < requested => reserved' = reserved \union AllOf(node)
        /\ Cardinality(reserved) = requested => reserved' = reserved
        /\ Cardinality(reserved') < requested => Cardinality(reserved) < requested
    <3> DEFINE c == Cardinality(reserved)
               k == Cardinality(AllOf(node))
               R == AddCores(requested)
    <3>1. k \in Nat
      BY <2>2, AllOfNode
    <3>2. /\ Cardinality(R) \in Nat
          /\ reserved \subseteq R /\ R \subseteq reserved \union AllOf(node)
          /\ IF c < requested THEN Cardinality(R) = c + Least(requested - c, k)
             ELSE R = reserved
          /\ Cardinality(R) < requested => R = reserved \union AllOf(node)
      BY <2>1, <2>2, AddCoresFills
    <3>3. reserved' = R /\ c \in Nat /\ c <= requested /\ requested \in Nat
      BY <2>1, <2>4
    <3> HIDE DEF c, k, R
    <3>4. Cardinality(R) <= requested
      BY <3>1, <3>2, <3>3 DEF Least, c
    <3>5. c = requested => R = reserved
      BY <3>2, <3>3
    <3> QED
      BY <3>2, <3>3, <3>4, <3>5 DEF c
  <2>6. node' = node + 1 /\ node \in Nat
    BY <2>1, <2>2 DEF LoopOn, TypeOK
  <2>7. ASSUME Cardinality(reserved') < requested, NEW m \in Nodes, m < node'
        PROVE  AllOf(m) \subseteq reserved'
    <3>1. m = node \/ m < node
      BY <2>2, <2>6, <2>7
    <3> QED
      BY <2>4, <2>5, <2>7, <3>1
  <2>8. ASSUME NEW m \in Nodes, NEW n \in Nodes, m < n, NEW cpu \in reserved', cpu[1] = n
        PROVE  AllOf(m) \subseteq reserved'
    <3>1. CASE cpu \in reserved
      BY <2>4, <2>5, <2>8, <3>1
    <3>2. CASE cpu \notin reserved
      <4>1. n = node
        BY <2>2, <2>5, <2>8, <3>2, AllOfElements DEF TypeOK
      <4>2. Cardinality(reserved) < requested
        BY <2>4, <2>5, <2>8, <3>2, <2>1
      <4> QED
        BY <2>4, <2>5, <2>8, <4>1, <4>2
    <3> QED
      BY <3>1, <3>2
  <2> QED
    BY <2>3, <2>5, <2>7, <2>8 DEF SequentialInv
<1>4. CASE UNCHANGED vars
  <2>1. UNCHANGED <<pc, split, requested, node, reserved, cores>>
    BY <1>4 DEF vars, inputs
  <2>2. Nodes' = Nodes /\ \A n : AllOf(n)' = AllOf(n)
    BY <2>1, TopologyKept
  <2> QED
    BY <2>1, <2>2 DEF SequentialInv
<1> QED
  BY <1>1, <1>2, <1>3, <1>4 DEF Next

\* Without a split as many CPUs are reserved as were asked for, from the first
\* NUMA nodes on, for every number of nodes and cores: the limit of AddCores
\* counts what the nodes before have given.
THEOREM SequentialAllocation == Spec => []SequentialExact
<1>1. Init => SequentialInv
  BY DEF Init, SequentialInv
<1>2. TypeOK /\ LoopInv /\ SequentialInv /\ [Next]_vars => SequentialInv'
  BY SequentialStep
<1>3. TypeOK /\ LoopInv /\ SequentialInv => SequentialExact
  <2> SUFFICES ASSUME TypeOK, LoopInv, SequentialInv, pc = "done", ~split,
                      requested <= Cardinality(All)
               PROVE  /\ Cardinality(reserved) = requested
                      /\ \A m, n \in Nodes :
                            m < n /\ (\E cpu \in reserved : cpu[1] = n)
                               => AllOf(m) \subseteq reserved
    BY DEF SequentialExact
  <2>1. Cardinality(reserved) < requested => reserved = All
    <3> SUFFICES ASSUME Cardinality(reserved) < requested PROVE All \subseteq reserved
      BY DEF TypeOK
    <3>1. \A m \in Nodes : m < node
      BY NodesNumbered DEF LoopInv
    <3> QED
      BY <3>1 DEF SequentialInv, All
  <2> QED
    BY <2>1 DEF SequentialInv, TypeOK
<1> QED
  BY <1>1, <1>2, <1>3, LoopInvariant, PTL DEF Spec

-----------------------------------------------------------------------------
(* Siblings.                                                               *)

\* Every core has two threads.
TwoThreads == \A n \in Nodes : \A c \in DOMAIN cores[n] : cores[n][c] = 2

\* The two threads of every core are both reserved or both not.
Paired(cpus) ==
    \A n \in Nodes : \A c \in DOMAIN cores[n] : <<n, c, 1>> \in cpus <=> <<n, c, 2>> \in cpus

\* The loops take an even number of CPUs each time.
SiblingInv ==
    htEnabled /\ TwoThreads /\ pc \in {"split", "sequential", "done"} =>
        /\ Cardinality(reserved) % 2 = 0 /\ Paired(reserved)
        /\ pc = "sequential" => requested % 2 = 0

\* The cores before core c have two CPUs each.
LEMMA TwoOfEach ==
    ASSUME TypeOK, TwoThreads, NEW n \in 1..NumaNodeNum, NEW c \in 1..Len(cores[n]) + 1
    PROVE  LET D == {a \in AllOf(n) : a[2] < c} IN
           IsFiniteSet(D) /\ Cardinality(D) = 2 * (c - 1)
<1> DEFINE D == {a \in AllOf(n) : a[2] < c}
           k == 2 * (c - 1)
           f == [p \in 1..k |-> <<n, ((p - 1) \div 2) + 1, ((p - 1) % 2) + 1>>]
<1>1. /\ Len(cores[n]) \in Nat /\ DOMAIN cores[n] = 1..Len(cores[n])
      /\ \A d \in 1..Len(cores[n]) : cores[n][d] = 2
  BY NodesNumbered, CoresOf DEF TwoThreads
<1>2. k \in Nat /\ c \in Nat
  BY <1>1
<1>3. ASSUME NEW p \in 1..k
      PROVE  /\ ((p - 1) \div 2) + 1 \in 1..Len(cores[n]) /\ ((p - 1) \div 2) + 1 < c
             /\ ((p - 1) % 2) + 1 \in 1..2
  BY <1>1, <1>2
<1>4. f \in [1..k -> D]
  <2> SUFFICES ASSUME NEW p \in 1..k
               PROVE  <<n, ((p - 1) \div 2) + 1, ((p - 1) % 2) + 1>> \in D
    OBVIOUS
  <2> DEFINE d == ((p - 1) \div 2) + 1
             t == ((p - 1) % 2) + 1
  <2>1. d \in DOMAIN cores[n] /\ d < c /\ t \in 1..cores[n][d]
    BY <1>1, <1>3
  <2> HIDE DEF d, t
  <2>2. <<n, d, t>> \in AllOf(n)
    BY <2>1, AllOfNode
  <2>3. <<n, d, t>> \in D
    BY <2>1, <2>2
  <2> QED
    BY <2>3 DEF d, t
<1>5. ASSUME NEW p \in 1..k, NEW q \in 1..k, f[p] = f[q]
      PROVE  p = q
  <2>1. (p - 1) \div 2 = (q - 1) \div 2 /\ (p - 1) % 2 = (q - 1) % 2
    <3>1. /\ ((p - 1) \div 2) + 1 = ((q - 1) \div 2) + 1
          /\ ((p - 1) % 2) + 1 = ((q - 1) % 2) + 1
      BY <1>5
    <3> QED
      BY <1>2, <3>1
  <2> QED
    BY <1>2, <2>1
<1>6. ASSUME NEW x \in D
      PROVE  \E p \in 1..k : f[p] = x
  <2>1. x = <<n, x[2], x[3]>> /\ x[2] \in 1..Len(cores[n]) /\ x[2] < c /\ x[3] \in 1..2
    BY <1>1, AllOfNode
  <2> DEFINE p == 2 * (x[2] - 1) + x[3]
  <2>2. p \in 1..k /\ ((p - 1) \div 2) + 1 = x[2] /\ ((p - 1) % 2) + 1 = x[3]
    <3>1. x[2] \in Nat \ {0} /\ x[2] < c /\ x[3] \in {1, 2}
      BY <1>1, <2>1
    <3>2. \A d \in Nat \ {0}, t \in {1, 2} :
             LET q == 2 * (d - 1) + t IN
             /\ d < c => q \in 1..k
             /\ ((q - 1) \div 2) + 1 = d /\ ((q - 1) % 2) + 1 = t
      BY <1>2
    <3> HIDE DEF k
    <3> QED
      BY <3>1, <3>2
  <2> HIDE DEF p
  <2>3. f[p] = <<n, x[2], x[3]>>
    BY <2>2
  <2> QED
    BY <2>1, <2>2, <2>3
<1> HIDE DEF f, D, k
<1>7. f \in Bijection(1..k, D)
  BY <1>4, <1>5, <1>6 DEF Bijection, Injection, Surjection, IsInjective
<1>8. ExistsBijection(1..k, D)
  BY <1>7 DEF ExistsBijection
<1>9. IsFiniteSet(D) /\ Cardinality(D) = k
  BY <1>2, <1>8, FS_NatBijection, FS_CountingElements
<1> QED
  BY <1>9 DEF D, k

\* The two threads of a core are next to each other in the order, the first of
\* them at an even position.
LEMMA PairPositions ==
    ASSUME TypeOK, TwoThreads, NEW n \in 1..NumaNodeNum
    PROVE  /\ Cardinality(AllOf(n)) = 2 * Len(cores[n])
           /\ \A c \in DOMAIN cores[n] :
                 /\ <<n, c, 1>> \in AllOf(n) /\ <<n, c, 2>> \in AllOf(n)
                 /\ Position(<<n, c, 1>>) = 2 * (c - 1)
                 /\ Position(<<n, c, 2>>) = 2 * (c - 1) + 1
<1>1. /\ Len(cores[n]) \in Nat /\ DOMAIN cores[n] = 1..Len(cores[n])
      /\ \A d \in 1..Len(cores[n]) : cores[n][d] = 2
  BY NodesNumbered, CoresOf DEF TwoThreads
<1>2. Cardinality(AllOf(n)) = 2 * Len(cores[n])
  <2> DEFINE e == Len(cores[n]) + 1
  <2>1. {a \in AllOf(n) : a[2] < e} = AllOf(n)
    BY <1>1, AllOfNode
  <2>2. e \in 1..Len(cores[n]) + 1 /\ 2 * (e - 1) = 2 * Len(cores[n])
    BY <1>1
  <2> HIDE DEF e
  <2>3. Cardinality({a \in AllOf(n) : a[2] < e}) = 2 * (e - 1)
    BY <2>2, TwoOfEach
  <2> QED
    BY <2>1, <2>2, <2>3
<1>3. ASSUME NEW c \in DOMAIN cores[n]
      PROVE  /\ <<n, c, 1>> \in AllOf(n) /\ <<n, c, 2>> \in AllOf(n)
             /\ Position(<<n, c, 1>>) = 2 * (c - 1)
             /\ Position(<<n, c, 2>>) = 2 * (c - 1) + 1
  <2> DEFINE D == {a \in AllOf(n) : a[2] < c}
             one == <<n, c, 1>>
             two == <<n, c, 2>>
  <2>1. one \in AllOf(n) /\ two \in AllOf(n)
    BY <1>1, AllOfNode
  <2>2. IsFiniteSet(D) /\ Cardinality(D) = 2 * (c - 1) /\ c \in Nat \ {0}
    <3>1. c \in 1..Len(cores[n]) + 1 /\ c \in Nat \ {0}
      BY <1>1, <1>3
    <3> QED
      BY <3>1, TwoOfEach
  <2>3. \A a \in AllOf(n) :
           a[2] \in Nat /\ a[3] \in 1..2 /\ a = <<n, a[2], a[3]>>
    BY <1>1, AllOfNode
  <2>4. {a \in AllOf(n) : Before(a, one)} = D
    <3>1. \A a \in AllOf(n) : Before(a, one) <=> a[2] < c
      BY <2>2, <2>3 DEF Before
    <3> QED
      BY <3>1
  <2>5. {a \in AllOf(n) : Before(a, two)} = D \union {one}
    <3>1. ASSUME NEW a \in AllOf(n) PROVE Before(a, two) <=> a[2] < c \/ a = one
      BY <2>2, <2>3 DEF Before
    <3> QED
      BY <2>1, <3>1
  <2>6. one \notin D
    BY <2>2
  <2>7. Cardinality(D \union {one}) = 2 * (c - 1) + 1
    <3> HIDE DEF D, one
    <3> QED
      BY <2>2, <2>6, FS_AddElement
  <2>8. one[1] = n /\ two[1] = n
    OBVIOUS
  <2> QED
    BY <2>1, <2>2, <2>4, <2>5, <2>7, <2>8 DEF Position
<1> QED
  BY <1>2, <1>3

\* AddCores with an even limit keeps threads together.
LEMMA PairsAdded ==
    ASSUME TypeOK, LoopInv, node \in 1..NumaNodeNum, NEW limit \in Nat, limit % 2 = 0,
           TwoThreads, Cardinality(reserved) % 2 = 0, Paired(reserved)
    PROVE  Cardinality(AddCores(limit)) % 2 = 0 /\ Paired(AddCores(limit))
<1>1. Cardinality(reserved) \in Nat
  BY FS_CardinalityType DEF LoopInv
<1>2. CASE ~(Cardinality(reserved) < limit)
  BY <1>2, AddCoresFills
<1>3. CASE Cardinality(reserved) < limit
  <2> DEFINE d == limit - Cardinality(reserved)
  <2>1. d \in Nat /\ d % 2 = 0
    BY <1>1, <1>3
  <2>2. /\ AddCores(limit) = reserved \union CPUs(node, d)
        /\ Cardinality(AddCores(limit)) =
               Cardinality(reserved) + Least(d, Cardinality(AllOf(node)))
    BY <1>3, AddCoresFills
  <2> HIDE DEF d
  <2>3. Cardinality(AddCores(limit)) % 2 = 0
    <3> DEFINE k == Len(cores[node])
    <3>1. Cardinality(AllOf(node)) = 2 * k /\ k \in Nat
      BY CoresOf, PairPositions
    <3> HIDE DEF k
    <3>2. Least(d, 2 * k) % 2 = 0 /\ Least(d, 2 * k) \in Nat
      <4>1. (2 * k) % 2 = 0 /\ 2 * k \in Nat
        BY <3>1
      <4> QED
        BY <2>1, <4>1 DEF Least
    <3> QED
      BY <1>1, <2>2, <3>1, <3>2
  <2>4. ASSUME NEW n \in Nodes, NEW c \in DOMAIN cores[n]
        PROVE  <<n, c, 1>> \in CPUs(node, d) <=> <<n, c, 2>> \in CPUs(node, d)
    <3>1. n \in 1..NumaNodeNum /\ c \in Nat \ {0}
      BY NodesNumbered, CoresOf
    <3>2. CASE n # node
      <4>1. \A cpu \in CPUs(node, d) : cpu[1] = node
        BY <2>1, AllOfElements
      <4>2. <<n, c, 1>>[1] = n /\ <<n, c, 2>>[1] = n
        OBVIOUS
      <4> QED
        BY <3>2, <4>1, <4>2
    <3>3. CASE n = node
      <4>1. /\ <<n, c, 1>> \in AllOf(n) /\ <<n, c, 2>> \in AllOf(n)
            /\ Position(<<n, c, 1>>) = 2 * (c - 1)
            /\ Position(<<n, c, 2>>) = 2 * (c - 1) + 1
        BY <3>1, PairPositions
      <4>2. 2 * (c - 1) < d <=> 2 * (c - 1) + 1 < d
        BY <2>1, <3>1
      <4> QED
        BY <3>3, <4>1, <4>2 DEF CPUs
    <3> QED
      BY <3>2, <3>3
  <2>5. Paired(AddCores(limit))
    BY <2>2, <2>4 DEF Paired
  <2> QED
    BY <2>3, <2>5
<1> QED
  BY <1>2, <1>3

\* Every step keeps the threads of a core together.
LEMMA SiblingStep ==
    ASSUME TypeOK, LoopInv, SiblingInv, [Next]_vars
    PROVE  SiblingInv'
<1>1. CASE GetReservedAndIsolatedCPUs
  <2>1. reserved' = {} /\ UNCHANGED requested
    BY <1>1 DEF GetReservedAndIsolatedCPUs, LoopInv, inputs
  <2>2. pc' = "sequential" /\ htEnabled' => requested % 2 = 0
    BY <1>1 DEF GetReservedAndIsolatedCPUs
  <2>3. Cardinality(reserved') % 2 = 0 /\ Paired(reserved)'
    BY <2>1, FS_EmptySet DEF Paired
  <2> QED
    BY <2>1, <2>2, <2>3 DEF SiblingInv
<1>2. ASSUME NEW limit \in Nat, pc \in {"split", "sequential"}, reserved' = AddCores(limit),
             htEnabled => limit % 2 = 0, UNCHANGED <<cores, inputs, htEnabled>>,
             pc' \in {pc, "done"}
      PROVE  SiblingInv'
  <2> SUFFICES ASSUME htEnabled, TwoThreads
               PROVE  /\ Cardinality(reserved') % 2 = 0 /\ Paired(reserved)'
                      /\ pc' = "sequential" => requested % 2 = 0
    BY <1>2 DEF SiblingInv, inputs, TwoThreads, Nodes
  <2>1. node \in 1..NumaNodeNum
    BY <1>2, NodesNumbered DEF LoopInv
  <2>2. Cardinality(AddCores(limit)) % 2 = 0 /\ Paired(AddCores(limit))
    BY <1>2, <2>1, PairsAdded DEF SiblingInv
  <2>3. Paired(reserved)'
    BY <1>2, <2>2 DEF Paired, Nodes, inputs
  <2> QED
    BY <1>2, <2>2, <2>3 DEF SiblingInv
<1>3. CASE getCPUsSplitAcrossNUMA
  <2>1. CASE pc' = "error"
    BY <2>1 DEF SiblingInv
  <2>2. CASE ~SplitOdd /\ reserved' = AddCores(SplitMax) /\ LoopOn("split")
    <3>1. /\ pc = "split" /\ pc' \in {pc, "done"} /\ UNCHANGED <<cores, inputs, htEnabled>>
          /\ htEnabled => SplitMax % 2 = 0
      BY <1>3, <2>2 DEF getCPUsSplitAcrossNUMA, LoopOn, SplitOdd
    <3> QED
      BY <1>2, <2>2, <3>1, SplitNumbers
  <2> QED
    BY <1>3, <2>1, <2>2 DEF getCPUsSplitAcrossNUMA
<1>4. CASE getCPUsSequentially
  <2>1. CASE htEnabled /\ TwoThreads
    <3>1. /\ pc = "sequential" /\ pc' \in {pc, "done"} /\ UNCHANGED <<cores, inputs, htEnabled>>
          /\ reserved' = AddCores(requested) /\ requested \in Nat
      BY <1>4 DEF getCPUsSequentially, LoopOn, TypeOK
    <3>2. requested % 2 = 0
      BY <2>1, <3>1 DEF SiblingInv
    <3> QED
      BY <1>2, <3>1, <3>2
  <2>2. CASE ~(htEnabled /\ TwoThreads)
    BY <1>4, <2>2 DEF getCPUsSequentially, SiblingInv, TwoThreads, Nodes
  <2> QED
    BY <2>1, <2>2
<1>5. CASE UNCHANGED vars
  BY <1>5 DEF vars, inputs, SiblingInv, Paired, Nodes, TwoThreads
<1> QED
  BY <1>1, <1>3, <1>4, <1>5 DEF Next

\* With hyperthreading on and two threads in every core, no core is torn apart,
\* on any number of NUMA nodes and cores and for any request that is not
\* refused.
THEOREM SiblingsStayTogether == Spec => []SiblingsTogether
<1>1. Init => SiblingInv
  BY DEF Init, SiblingInv
<1>2. TypeOK /\ LoopInv /\ SiblingInv /\ [Next]_vars => SiblingInv'
  BY SiblingStep
<1>3. SiblingInv => SiblingsTogether
  BY DEF SiblingInv, SiblingsTogether, Paired, TwoThreads
<1> QED
  BY <1>1, <1>2, <1>3, LoopInvariant, PTL DEF Spec

-----------------------------------------------------------------------------
(* A split over at most two NUMA nodes.                                    *)

\* What every NUMA node gives at least.
Share == requested \div NumaNodeNum

\* The share of the first of two NUMA nodes.
First == IF requested % 2 = 0 THEN Share ELSE Share + 1

\* What the loop has reserved, when every NUMA node can give its share.
SplitInv ==
    split /\ Roomy /\ NumaNodeNum <= 2 =>
        /\ pc = "split" /\ node = 1 =>
               max = 0 /\ reserved = {} /\ remainder = requested % NumaNodeNum
        /\ pc = "split" /\ node = 2 =>
               max = First /\ remainder = 0 /\ reserved = CPUs(1, First)
        /\ pc = "done" /\ NumaNodeNum = 1 => reserved = CPUs(1, requested)
        /\ pc = "done" /\ NumaNodeNum = 2 => reserved = CPUs(1, First) \union CPUs(2, Share)

\* AddCores takes exactly what is missing when the NUMA node has it.
LEMMA AddCoresExact ==
    ASSUME TypeOK, LoopInv, node \in 1..NumaNodeNum, NEW limit \in Nat, NEW d \in Nat,
           limit = Cardinality(reserved) + d, d <= Cardinality(AllOf(node))
    PROVE  /\ AddCores(limit) = reserved \union CPUs(node, d)
           /\ Cardinality(CPUs(node, d)) = d
<1>1. Cardinality(reserved) \in Nat
  BY FS_CardinalityType DEF LoopInv
<1>2. Cardinality(AllOf(node)) \in Nat
  BY AllOfNode
<1>4. Cardinality(CPUs(node, d)) = d
  BY <1>2, CPUsCount DEF Least
<1>5. CASE d = 0
  <2>1. CPUs(node, d) = {}
    BY <1>4, <1>5, CPUsCount, FS_EmptySet
  <2>2. ~(Cardinality(reserved) < limit)
    BY <1>1, <1>5
  <2> QED
    BY <1>4, <2>1, <2>2 DEF AddCores
<1>6. CASE d # 0
  <2>1. Cardinality(reserved) < limit /\ limit - Cardinality(reserved) = d
    BY <1>1, <1>6
  <2> QED
    BY <1>4, <2>1 DEF AddCores
<1> QED
  BY <1>5, <1>6

\* A request over two NUMA nodes is the share of the first and that of the
\* second.
LEMMA ShareNumbers ==
    ASSUME TypeOK, NumaNodeNum <= 2
    PROVE  /\ NumaNodeNum \in {1, 2} /\ Share \in Nat /\ First \in Nat
           /\ NumaNodeNum = 1 => Share = requested /\ requested % NumaNodeNum = 0
           /\ NumaNodeNum = 2 => First + Share = requested /\ First \in {Share, Share + 1}
<1>1. requested \in Nat /\ NumaNodeNum \in {1, 2}
  BY NodesNumbered DEF TypeOK
<1>2. CASE NumaNodeNum = 1
  BY <1>1, <1>2 DEF Share, First
<1>3. CASE NumaNodeNum = 2
  <2>1. Share = requested \div 2 /\ Share \in Nat
    BY <1>1, <1>3 DEF Share
  <2> QED
    BY <1>1, <1>3, <2>1 DEF First
<1> QED
  BY <1>1, <1>2, <1>3

\* A step of the split allocation gives the next NUMA node its share.
LEMMA SplitStep ==
    ASSUME TypeOK, LoopInv, SplitInv, [Next]_vars
    PROVE  SplitInv'
<1>1. CASE GetReservedAndIsolatedCPUs
  <2>1. /\ node' = 1 /\ max' = 0 /\ reserved' = {} /\ pc' # "done"
        /\ remainder' = requested % NumaNodeNum
        /\ UNCHANGED requested
    BY <1>1 DEF GetReservedAndIsolatedCPUs, LoopInv, inputs
  <2>2. NumaNodeNum' = NumaNodeNum
    BY <1>1, TopologyRead
  <2> QED
    BY <2>1, <2>2 DEF SplitInv
<1>2. CASE getCPUsSplitAcrossNUMA
  <2>1. /\ pc = "split" /\ UNCHANGED <<cores, inputs, htEnabled>>
        /\ max' = SplitMax /\ remainder' = NextRemainder
    BY <1>2 DEF getCPUsSplitAcrossNUMA
  <2>2. /\ Nodes' = Nodes /\ NumaNodeNum' = NumaNodeNum
        /\ UNCHANGED <<split, requested, cores>>
        /\ \A n : AllOf(n)' = AllOf(n)
        /\ \A n, i : CPUs(n, i)' = CPUs(n, i)
    BY <2>1, TopologyKept DEF inputs
  <2>3. Share' = Share /\ First' = First /\ (Roomy' <=> Roomy)
    BY <2>2 DEF Share, First, Roomy
  <2>4. CASE pc' = "error"
    BY <2>4 DEF SplitInv
  <2>5. CASE reserved' = AddCores(SplitMax) /\ LoopOn("split")
    <3> SUFFICES ASSUME split, Roomy, NumaNodeNum <= 2
                 PROVE  /\ pc' = "split" /\ node' = 1 =>
                              max' = 0 /\ reserved' = {} /\ remainder' = requested % NumaNodeNum
                        /\ pc' = "split" /\ node' = 2 =>
                              max' = First /\ remainder' = 0 /\ reserved' = CPUs(1, First)
                        /\ pc' = "done" /\ NumaNodeNum = 1 => reserved' = CPUs(1, requested)
                        /\ pc' = "done" /\ NumaNodeNum = 2 =>
                              reserved' = CPUs(1, First) \union CPUs(2, Share)
      <4> USE <2>2, <2>3
      <4>1. CPUs(1, First)' = CPUs(1, First) /\ CPUs(2, Share)' = CPUs(2, Share)
            /\ CPUs(1, requested)' = CPUs(1, requested)
        BY DEF CPUs, Position
      <4> QED
        BY <4>1 DEF SplitInv
    <3>1. /\ NumaNodeNum \in {1, 2} /\ Share \in Nat /\ First \in Nat /\ requested \in Nat
          /\ NumaNodeNum = 1 => Share = requested /\ requested % NumaNodeNum = 0
          /\ NumaNodeNum = 2 => First + Share = requested /\ First \in {Share, Share + 1}
      BY ShareNumbers DEF TypeOK
    <3>2. node \in 1..NumaNodeNum /\ Nodes = 1..NumaNodeNum
      BY <2>1, NodesNumbered DEF LoopInv
    <3>3. node' = node + 1 /\ pc' = IF node = NumaNodeNum THEN "done" ELSE "split"
      BY <2>5 DEF LoopOn
    <3>4. Cardinality(AllOf(node)) > Share /\ Cardinality(AllOf(node)) \in Nat
      <4>1. Cardinality(AllOf(node)) > Share
        BY <3>2 DEF Roomy, Share
      <4> QED
        BY <3>2, <4>1, AllOfNode
    <3>5. CASE NumaNodeNum = 1
      <4>1. node = 1 /\ max = 0 /\ reserved = {} /\ remainder = 0
        BY <2>1, <3>1, <3>2, <3>5 DEF SplitInv
      <4>2. SplitMax = requested /\ Cardinality(reserved) = 0
        BY <3>1, <3>5, <4>1, FS_EmptySet DEF SplitMax, Share
      <4>3. AddCores(requested) = reserved \union CPUs(1, requested)
        BY <3>1, <3>2, <3>4, <3>5, <4>1, <4>2, AddCoresExact
      <4> QED
        BY <2>5, <3>3, <3>5, <4>1, <4>2, <4>3
    <3>6. CASE NumaNodeNum = 2 /\ node = 1
      <4>1. max = 0 /\ reserved = {} /\ remainder = requested % 2
        BY <2>1, <3>6 DEF SplitInv
      <4>2. SplitMax = First /\ NextRemainder = 0
        <5>1. Share = requested \div 2
          BY <3>6 DEF Share
        <5> QED
          BY <3>1, <3>6, <4>1, <5>1 DEF SplitMax, First, NextRemainder
      <4>3. Cardinality(reserved) = 0
        BY <4>1, FS_EmptySet
      <4>4. AddCores(First) = reserved \union CPUs(1, First)
        BY <3>1, <3>2, <3>4, <3>6, <4>1, <4>3, AddCoresExact
      <4> QED
        BY <2>1, <2>5, <3>3, <3>6, <4>1, <4>2, <4>4
    <3>7. CASE NumaNodeNum = 2 /\ node = 2
      <4>1. max = First /\ reserved = CPUs(1, First) /\ remainder = 0
        BY <2>1, <3>7 DEF SplitInv
      <4>2. SplitMax = requested
        BY <3>1, <3>7, <4>1 DEF SplitMax, Share
      <4>3. Cardinality(reserved) = First
        <5>1. Cardinality(AllOf(1)) > Share
          BY <3>2, <3>7 DEF Roomy, Share
        <5>2. Cardinality(AllOf(1)) \in Nat
          BY <3>7, AllOfNode
        <5>3. Cardinality(CPUs(1, First)) = Least(First, Cardinality(AllOf(1)))
          BY <3>1, <3>7, CPUsCount
        <5> QED
          BY <3>1, <3>7, <4>1, <5>1, <5>2, <5>3 DEF Least
      <4>4. AddCores(requested) = reserved \union CPUs(2, Share)
        BY <3>1, <3>2, <3>4, <3>7, <4>3, AddCoresExact
      <4> QED
        BY <2>5, <3>3, <3>7, <4>1, <4>2, <4>4
    <3> QED
      BY <3>1, <3>2, <3>5, <3>6, <3>7
  <2> QED
    BY <1>2, <2>4, <2>5 DEF getCPUsSplitAcrossNUMA
<1>3. CASE getCPUsSequentially
  BY <1>3 DEF getCPUsSequentially, LoopInv, SplitInv, inputs
<1>4. CASE UNCHANGED vars
  <2>1. UNCHANGED <<pc, split, requested, node, max, remainder, reserved, cores>>
    BY <1>4 DEF vars, inputs
  <2>2. /\ Nodes' = Nodes /\ NumaNodeNum' = NumaNodeNum
        /\ \A n : AllOf(n)' = AllOf(n)
    BY <2>1, TopologyKept
  <2>3. Share' = Share /\ First' = First /\ (Roomy' <=> Roomy)
    BY <2>1, <2>2 DEF Share, First, Roomy
  <2>4. CPUs(1, First)' = CPUs(1, First) /\ CPUs(2, Share)' = CPUs(2, Share)
        /\ CPUs(1, requested)' = CPUs(1, requested)
    BY <2>1, <2>2, <2>3 DEF CPUs, Position
  <2> QED
    BY <2>1, <2>2, <2>3, <2>4 DEF SplitInv
<1> QED
  BY <1>1, <1>2, <1>3, <1>4 DEF Next

\* On one or two NUMA nodes of any size a split reserves exactly what was
\* requested, and the shares differ by one CPU at most: the formula for the
\* remainder is right there (it is not for three, see SplitExact).
THEOREM SplitOfTwo == Spec => []SplitOfTwoExact
<1>1. Init => SplitInv
  BY DEF Init, SplitInv
<1>2. TypeOK /\ LoopInv /\ SplitInv /\ [Next]_vars => SplitInv'
  BY SplitStep
<1>3. TypeOK /\ LoopInv /\ SplitInv => SplitOfTwoExact
  <2> SUFFICES ASSUME TypeOK, LoopInv, SplitInv, pc = "done", split, Roomy, NumaNodeNum <= 2
               PROVE  Cardinality(reserved) = requested /\ Balanced
    BY DEF SplitOfTwoExact
  <2>1. /\ NumaNodeNum \in {1, 2} /\ Share \in Nat /\ First \in Nat /\ requested \in Nat
        /\ NumaNodeNum = 1 => Share = requested
        /\ NumaNodeNum = 2 => First + Share = requested /\ First \in {Share, Share + 1}
    BY ShareNumbers DEF TypeOK
  <2>2. Nodes = 1..NumaNodeNum
    BY NodesNumbered
  <2>3. ASSUME NEW n \in Nodes, NEW i \in Nat, i <= Share + 1
        PROVE  /\ IsFiniteSet(CPUs(n, i)) /\ Cardinality(CPUs(n, i)) = i
               /\ CPUs(n, i) \subseteq AllOf(n) /\ \A cpu \in AllOf(n) : cpu[1] = n
    <3>1. Cardinality(AllOf(n)) > Share
      BY DEF Roomy, Share
    <3>2. Cardinality(AllOf(n)) \in Nat
      BY <2>2, AllOfNode
    <3>3. IsFiniteSet(CPUs(n, i)) /\ Cardinality(CPUs(n, i)) = Least(i, Cardinality(AllOf(n)))
      BY <2>2, CPUsCount
    <3>4. Cardinality(CPUs(n, i)) = i
      BY <2>1, <2>3, <3>1, <3>2, <3>3 DEF Least
    <3> QED
      BY <2>2, <3>3, <3>4, AllOfElements
  <2>4. CASE NumaNodeNum = 1
    <3>1. reserved = CPUs(1, requested) /\ 1 \in Nodes /\ requested <= Share + 1
      BY <2>1, <2>2, <2>4 DEF SplitInv
    <3>2. Cardinality(reserved) = requested /\ reserved \subseteq AllOf(1)
      BY <2>1, <2>3, <3>1
    <3>3. \A n \in Nodes : reserved \intersect AllOf(n) = reserved
      BY <2>2, <2>4, <3>2
    <3> QED
      BY <2>1, <2>4, <3>2, <3>3 DEF Balanced, Share
  <2>5. CASE NumaNodeNum = 2
    <3>1. reserved = CPUs(1, First) \union CPUs(2, Share)
      BY <2>5 DEF SplitInv
    <3>2. /\ IsFiniteSet(CPUs(1, First)) /\ Cardinality(CPUs(1, First)) = First
          /\ CPUs(1, First) \subseteq AllOf(1) /\ \A cpu \in AllOf(1) : cpu[1] = 1
      BY <2>1, <2>2, <2>3, <2>5
    <3>3. /\ IsFiniteSet(CPUs(2, Share)) /\ Cardinality(CPUs(2, Share)) = Share
          /\ CPUs(2, Share) \subseteq AllOf(2) /\ \A cpu \in AllOf(2) : cpu[1] = 2
      BY <2>1, <2>2, <2>3, <2>5
    <3>4. AllOf(1) \intersect AllOf(2) = {}
      BY <3>2, <3>3
    <3>5. CPUs(1, First) \intersect CPUs(2, Share) = {}
      BY <3>2, <3>3, <3>4
    <3>6. Cardinality(reserved) = First + Share
      BY <2>1, <3>1, <3>2, <3>3, <3>5, FS_Union, FS_EmptySet
    <3>7. /\ reserved \intersect AllOf(1) = CPUs(1, First)
          /\ reserved \intersect AllOf(2) = CPUs(2, Share)
      BY <3>1, <3>2, <3>3, <3>4
    <3>8. \A n \in Nodes : n = 1 \/ n = 2
      BY <2>2, <2>5
    <3>9. \A n \in Nodes : Cardinality(reserved \intersect AllOf(n)) \in {Share, Share + 1}
      BY <2>1, <2>5, <3>2, <3>3, <3>7, <3>8
    <3> QED
      BY <2>1, <2>5, <3>6, <3>9 DEF Balanced, Share
  <2> QED
    BY <2>1, <2>4, <2>5
<1> QED
  BY <1>1, <1>2, <1>3, LoopInvariant, PTL DEF Spec

\* The loops end at the last NUMA node, the remainder runs out before it does,
\* and nothing is reserved that the topology does not have.
THEOREM AllocationTypes == Spec => []TypeOK
BY LoopInvariant, PTL

-----------------------------------------------------------------------------
(* Threads.                                                                *)

\* Hyperthreading is off wherever it is to be switched off; without that a
\* request that was in range stays in range.
ThreadsInv ==
    /\ pc = "start" /\ ~htEnabled =>
          \A n \in Nodes : \A c \in DOMAIN cores[n] : cores[n][c] = 1
    /\ pc # "start" /\ disableHT =>
          \A n \in Nodes : \A c \in DOMAIN cores[n] : cores[n][c] = 1
    /\ pc \in {"sequential", "done"} /\ ~split /\ ~disableHT => requested < Cardinality(All)

\* Only the first step changes the threads.
LEMMA ThreadsStep ==
    ASSUME TypeOK, LoopInv, ThreadsInv, [Next]_vars
    PROVE  ThreadsInv'
<1>1. CASE GetReservedAndIsolatedCPUs
  <2>1. /\ pc = "start" /\ UNCHANGED <<disableHT, split, requested>>
        /\ pc' \notin {"start", "done"} /\ (pc' = "sequential" => InRange)
    BY <1>1 DEF GetReservedAndIsolatedCPUs, inputs
  <2>2. disableHT => \A n \in Nodes' : \A c \in DOMAIN cores'[n] : cores'[n][c] = 1
    <3>1. CASE htEnabled
      BY <1>1, <3>1, TopologyRead
    <3>2. CASE ~htEnabled
      <4>1. UNCHANGED cores /\ Nodes' = Nodes
        BY <1>1, <3>2, TopologyRead
      <4> QED
        BY <2>1, <3>2, <4>1 DEF ThreadsInv
    <3> QED
      BY <3>1, <3>2
  <2>3. ~disableHT => All' = All
    BY <1>1, TopologyRead, TopologyKept
  <2> QED
    BY <2>1, <2>2, <2>3 DEF ThreadsInv, InRange
<1>2. CASE getCPUsSplitAcrossNUMA
  <2>1. pc = "split" /\ pc' # "start" /\ UNCHANGED <<cores, split, disableHT>>
    BY <1>2 DEF getCPUsSplitAcrossNUMA, LoopOn, inputs
  <2>2. split
    BY <2>1 DEF LoopInv
  <2> QED
    BY <2>1, <2>2 DEF ThreadsInv, Nodes
<1>3. CASE getCPUsSequentially
  <2>1. /\ pc = "sequential" /\ pc' \in {"sequential", "done"}
        /\ UNCHANGED <<cores, split, disableHT, requested>>
    BY <1>3 DEF getCPUsSequentially, LoopOn, inputs
  <2>2. All' = All /\ Nodes' = Nodes
    BY <2>1, TopologyKept
  <2> QED
    BY <2>1, <2>2 DEF ThreadsInv
<1>4. CASE UNCHANGED vars
  <2>1. UNCHANGED <<pc, cores, split, disableHT, requested, htEnabled>>
    BY <1>4 DEF vars, inputs
  <2>2. All' = All /\ Nodes' = Nodes
    BY <2>1, TopologyKept
  <2> QED
    BY <2>1, <2>2 DEF ThreadsInv
<1> QED
  BY <1>1, <1>2, <1>3, <1>4 DEF Next

\* What the steps of the creator keep about the allocation.
AllocationInv == TypeOK /\ LoopInv /\ SequentialInv /\ ThreadsInv

\* It holds of the allocation alone.
LEMMA AllocationInvariant == Spec => []AllocationInv
<1>1. Init => AllocationInv
  <2> SUFFICES ASSUME Init PROVE AllocationInv
    OBVIOUS
  <2>1. TypeOK /\ LoopInv /\ SequentialInv /\ pc = "start"
    BY LoopInit DEF Init, SequentialInv
  <2>2. ASSUME ~htEnabled, NEW n \in Nodes, NEW c \in DOMAIN cores[n]
        PROVE  cores[n][c] = 1
    <3>1. ~(cores[n][c] > 1)
      BY <2>2 DEF Init
    <3>2. cores[n][c] \in 1..MaxThreads
      BY <2>1, NodesNumbered, CoresOf
    <3> QED
      BY <3>1, <3>2, CPUAssumption
  <2> QED
    BY <2>1, <2>2 DEF AllocationInv, ThreadsInv
<1>2. AllocationInv /\ [Next]_vars => AllocationInv'
  BY LoopStep, SequentialStep, ThreadsStep DEF AllocationInv
<1> QED
  BY <1>1, <1>2, PTL DEF Spec

-----------------------------------------------------------------------------
(* The stages of the creator.                                              *)

\* The steps of the creator that are no steps of the allocation.
LEMMA CreatorSteps ==
    ASSUME [CreatorNext]_creatorVars
    PROVE  \/ AllocateCPUs
           \/ UNCHANGED allocation
BY DEF CreatorNext, creatorVars, gather_nodes, CheckFlags, getClusterData, ShowClusterInfo,
       getDataFromFlags, findNodes, createProfile, Stage

\* The creator, whatever else it does, allocates CPUs as ReservedCPUs says, so
\* that the theorems about that hold of the creator.
THEOREM CreatorAllocates == CreatorSpec => Spec
<1>1. CreatorInit => Init
  BY DEF CreatorInit, Start
<1>2. [CreatorNext]_creatorVars => [Next]_vars
  <2> SUFFICES ASSUME [CreatorNext]_creatorVars PROVE [Next]_vars
    OBVIOUS
  <2>1. CASE AllocateCPUs
    BY <2>1 DEF AllocateCPUs
  <2>2. CASE UNCHANGED allocation
    BY <2>2 DEF allocation, vars
  <2> QED
    BY <2>1, <2>2, CreatorSteps
<1> QED
  BY <1>1, <1>2, PTL DEF CreatorSpec, Spec

\* A profile is the last thing the creator makes, from a finished allocation.
StageInv ==
    /\ created # Nil => stage = "done"
    /\ stage = "create" => pc = "done"

\* When there is a profile, it has just been printed or nothing happens.
LEMMA ProfileIsLast ==
    ASSUME StageInv, [CreatorNext]_creatorVars, created' # Nil
    PROVE  createProfile \/ UNCHANGED creatorVars
<1>1. CASE createProfile
  BY <1>1
<1>2. CASE UNCHANGED creatorVars
  BY <1>2
<1>3. CASE \/ gather_nodes \/ CheckFlags \/ getClusterData \/ ShowClusterInfo
           \/ getDataFromFlags \/ findNodes \/ AllocateCPUs
  <2>1. UNCHANGED created /\ stage # "done"
    BY <1>3 DEF gather_nodes, CheckFlags, getClusterData, ShowClusterInfo, getDataFromFlags,
                findNodes, AllocateCPUs, Stage
  <2> QED
    BY <2>1 DEF StageInv
<1> QED
  BY <1>1, <1>2, <1>3 DEF CreatorNext

\* A step other than those that allocate or create leaves the profile alone and
\* leads to other stages.
LEMMA StageStep ==
    ASSUME StageInv, [CreatorNext]_creatorVars
    PROVE  StageInv'
<1>1. CASE createProfile
  BY <1>1 DEF createProfile, StageInv
<1>2. CASE UNCHANGED creatorVars
  BY <1>2 DEF creatorVars, allocation, StageInv
<1>3. CASE AllocateCPUs
  <2>1. UNCHANGED created /\ stage = "allocate" /\ (stage' = "create" => pc' = "done")
    BY <1>3 DEF AllocateCPUs
  <2> QED
    BY <2>1 DEF StageInv
<1>4. CASE \/ gather_nodes \/ CheckFlags \/ getClusterData \/ ShowClusterInfo
           \/ getDataFromFlags \/ findNodes
  <2>1. UNCHANGED created /\ stage # "done" /\ stage' # "create"
    BY <1>4 DEF gather_nodes, CheckFlags, getClusterData, ShowClusterInfo, getDataFromFlags,
                findNodes, Stage
  <2> QED
    BY <2>1 DEF StageInv
<1> QED
  BY <1>1, <1>2, <1>3, <1>4 DEF CreatorNext

\* The stages and the allocation of the creator.
LEMMA CreatorInvariant == CreatorSpec => [](AllocationInv /\ StageInv)
<1>1. CreatorInit => StageInv
  BY DEF CreatorInit, Start, StageInv
<1>2. StageInv /\ [CreatorNext]_creatorVars => StageInv'
  BY StageStep
<1> QED
  BY <1>1, <1>2, CreatorAllocates, AllocationInvariant, PTL DEF CreatorSpec

\* The creator panics over a master pool it cannot read, and over a NUMA node
\* without cores when threads are switched off, in any cluster.
THEOREM PanicsAreExplained == CreatorSpec => []PanicsExplained
<1>1. CreatorInit => PanicsExplained
  BY DEF CreatorInit, Start, PanicsExplained
<1>2. PanicsExplained /\ [CreatorNext]_creatorVars => PanicsExplained'
  <2> SUFFICES ASSUME PanicsExplained, [CreatorNext]_creatorVars, stage' = "panicked"
               PROVE  cluster'.masterPool = Bad
                      \/ (disableHT' /\ \E n \in Nodes' : cores'[n] = <<>>)
    BY DEF PanicsExplained
  <2>1. CASE getClusterData
    BY <2>1 DEF getClusterData, Stage
  <2>2. CASE AllocateCPUs
    <3>1. Next /\ UNCHANGED cluster /\ pc' = "panic"
      BY <2>2 DEF AllocateCPUs
    <3>2. GetReservedAndIsolatedCPUs /\ MissingNode
      BY <3>1 DEF Next, GetReservedAndIsolatedCPUs, getCPUsSplitAcrossNUMA,
                  getCPUsSequentially, LoopOn
    <3>3. PICK n \in Nodes : htEnabled /\ disableHT /\ cores[n] = <<>>
      BY <3>2 DEF MissingNode
    <3>4. cores' = [m \in Nodes |-> [c \in DOMAIN cores[m] |-> 1]] /\ UNCHANGED disableHT
      BY <3>2, <3>3 DEF GetReservedAndIsolatedCPUs, topologyHTDisabled, inputs
    <3>5. Nodes' = Nodes /\ cores'[n] = [c \in DOMAIN cores[n] |-> 1]
      BY <3>4 DEF Nodes
    <3>6. cores'[n] = <<>>
      BY <3>3, <3>5
    <3> QED
      BY <3>3, <3>4, <3>5, <3>6
  <2>3. CASE UNCHANGED creatorVars
    BY <2>3 DEF creatorVars, allocation, inputs, PanicsExplained, Nodes
  <2>4. CASE \/ gather_nodes \/ CheckFlags \/ ShowClusterInfo \/ getDataFromFlags
             \/ findNodes \/ createProfile
    BY <2>4 DEF gather_nodes, CheckFlags, ShowClusterInfo, getDataFromFlags, findNodes,
                createProfile, Stage
  <2> QED
    BY <2>1, <2>2, <2>3, <2>4 DEF CreatorNext
<1> QED
  BY <1>1, <1>2, PTL DEF CreatorSpec

-----------------------------------------------------------------------------
(* What the creator knows of the cluster.                                  *)

\* The pools of the cluster, by name.
PoolsInv ==
    /\ \A p, q \in cluster.pools : p.name = q.name => p = q
    /\ \A p \in cluster.pools : p.selector \notin {Nil, Bad} => p.selector.matchLabels # Nil

\* What the stages have found out by the time the CPUs are allocated: flags
\* that are valid, and a pool with nodes of the same hardware.
FoundInv ==
    /\ stage \in {"pool", "allocate", "create"} =>
          args.power.word \in PowerModes /\ args.policy.word \in TMPolicies
    /\ stage \in {"allocate", "create"} =>
          \E pool \in Named(cluster.pools, args.mcpName) :
             GetNodesForPool(pool) # {} /\ SameHardware(GetNodesForPool(pool))

\* The cluster changes when it is gathered, the command line never.
LEMMA ClusterKept ==
    ASSUME [CreatorNext]_creatorVars
    PROVE  gather_nodes \/ UNCHANGED <<cluster, args>>
BY DEF CreatorNext, creatorVars, CheckFlags, getClusterData, ShowClusterInfo,
       getDataFromFlags, findNodes, AllocateCPUs, createProfile, Stage

\* Gathering leaves the pools alone.
LEMMA GatheredPools ==
    ASSUME IsCluster(cluster), gather_nodes
    PROVE  /\ cluster'.pools = cluster.pools
           /\ cluster'.nodes = {Gathered(n) : n \in cluster.nodes}
<1> DEFINE G == {Gathered(n) : n \in cluster.nodes}
<1>1. cluster' = [cluster EXCEPT !.nodes = G]
  BY DEF gather_nodes
<1>2. cluster \in [pools: {cluster.pools}, nodes: {cluster.nodes}, isDir: BOOLEAN,
                   masterPool: {Nil, Bad}, otherPools: {Nil, Bad}, nodeFiles: {Nil, Bad}]
  BY DEF IsCluster
<1> HIDE DEF G
<1>3. cluster'.pools = cluster.pools /\ cluster'.nodes = G
  BY <1>1, <1>2
<1> QED
  BY <1>3 DEF G

\* Before it is gathered the cluster is as given.
UngatheredInv == stage = "gather" => IsCluster(cluster)

\* No stage leads back to the gathering.
LEMMA UngatheredStep ==
    ASSUME UngatheredInv, [CreatorNext]_creatorVars
    PROVE  UngatheredInv'
<1>1. stage' = "gather" => UNCHANGED <<stage, cluster>>
  BY DEF CreatorNext, creatorVars, gather_nodes, CheckFlags, getClusterData, ShowClusterInfo,
         getDataFromFlags, findNodes, AllocateCPUs, createProfile, Stage
<1> QED
  BY <1>1 DEF UngatheredInv

\* The pools stay the same.
LEMMA PoolsStep ==
    ASSUME UngatheredInv, PoolsInv, [CreatorNext]_creatorVars
    PROVE  PoolsInv'
<1>1. cluster'.pools = cluster.pools
  BY ClusterKept, GatheredPools DEF UngatheredInv, gather_nodes
<1> QED
  BY <1>1 DEF PoolsInv

\* Each check leads on only when it succeeds.
LEMMA FoundStep ==
    ASSUME FoundInv, [CreatorNext]_creatorVars
    PROVE  FoundInv'
<1>1. CASE getDataFromFlags
  <2>1. stage' = "pool" => args.power.word \in PowerModes /\ args.policy.word \in TMPolicies
    BY <1>1 DEF getDataFromFlags, Stage, validateFlag
  <2>2. stage' \in {"pool", "failed"} /\ UNCHANGED args
    BY <1>1 DEF getDataFromFlags, Stage
  <2> QED
    BY <2>1, <2>2 DEF FoundInv
<1>2. CASE findNodes
  <2>1. /\ stage = "pool" /\ stage' \in {"allocate", "failed"} /\ UNCHANGED <<cluster, args>>
        /\ stage' = "allocate" =>
              \E pool \in Named(cluster.pools, args.mcpName) :
                 GetNodesForPool(pool) # {} /\ SameHardware(GetNodesForPool(pool))
    BY <1>2 DEF findNodes, Stage
  <2>2. \A pool : GetNodesForPool(pool)' = GetNodesForPool(pool)
    BY <2>1 DEF GetNodesForPool, getPrimaryPool, PoolsOf, ValidSelectors
  <2> QED
    BY <2>1, <2>2 DEF FoundInv, Named
<1>3. CASE AllocateCPUs
  <2>1. stage = "allocate" /\ UNCHANGED <<cluster, args>>
    BY <1>3 DEF AllocateCPUs
  <2>2. \A pool : GetNodesForPool(pool)' = GetNodesForPool(pool)
    BY <2>1 DEF GetNodesForPool, getPrimaryPool, PoolsOf, ValidSelectors
  <2> QED
    BY <2>1, <2>2 DEF FoundInv, Named
<1>4. CASE UNCHANGED creatorVars
  <2>1. UNCHANGED <<stage, cluster, args>>
    BY <1>4 DEF creatorVars
  <2>2. \A pool : GetNodesForPool(pool)' = GetNodesForPool(pool)
    BY <2>1 DEF GetNodesForPool, getPrimaryPool, PoolsOf, ValidSelectors
  <2> QED
    BY <2>1, <2>2 DEF FoundInv, Named
<1>5. CASE gather_nodes \/ CheckFlags \/ getClusterData \/ ShowClusterInfo \/ createProfile
  <2>1. stage' \notin {"pool", "allocate", "create"}
    BY <1>5 DEF gather_nodes, CheckFlags, getClusterData, ShowClusterInfo, createProfile, Stage
  <2> QED
    BY <2>1 DEF FoundInv
<1> QED
  BY <1>1, <1>2, <1>3, <1>4, <1>5 DEF CreatorNext

\* What is known of the cluster.
ClusterInv == UngatheredInv /\ PoolsInv /\ FoundInv

\* It holds of the creator at all times.
LEMMA ClusterInvariant == CreatorSpec => []ClusterInv
<1>1. CreatorInit => ClusterInv
  BY CreatorAssumption
     DEF CreatorInit, Start, ClusterInv, UngatheredInv, PoolsInv, FoundInv, IsCluster
<1>2. ClusterInv /\ [CreatorNext]_creatorVars => ClusterInv'
  BY UngatheredStep, PoolsStep, FoundStep DEF ClusterInv
<1> QED
  BY <1>1, <1>2, PTL DEF CreatorSpec

-----------------------------------------------------------------------------
(* The profile.                                                            *)

\* What is printed of the profile are its fields.
LEMMA CreatedFields ==
    ASSUME createProfile
    PROVE  \E pool \in Named(cluster.pools, args.mcpName) : \E label \in GetMCPSelector(pool) :
              /\ created'.cpu = [reserved |-> reserved, isolated |-> All \ reserved,
                                 balanceIsolated |-> Nil]
              /\ created'.nodeSelector = NodeSelector(pool)
              /\ created'.machineConfigPoolSelector = {label}
              /\ created'.machineConfigLabel = Nil /\ created'.hugepages = Nil
              /\ created'.numa = [policy |-> IF args.policy.exact THEN args.policy.word ELSE Bad]
              /\ created'.net = (IF args.userLevelNetworking = Nil THEN Nil
                                 ELSE [userLevelNetworking |-> args.userLevelNetworking,
                                       devices |-> <<>>])
              /\ created'.kernelArgs = GetAdditionalKernelArgs
BY DEF createProfile, MarshallObject

\* The pool selector of the profile picks the pool that was asked for, and no
\* other one, for any labels of the pools.
THEOREM CreatedSelectsThePool == CreatorSpec => []SelectsThePool
<1>1. CreatorInit => SelectsThePool
  BY DEF CreatorInit, Start, SelectsThePool
<1>2. PoolsInv /\ StageInv /\ SelectsThePool /\ [CreatorNext]_creatorVars => SelectsThePool'
  <2> SUFFICES ASSUME PoolsInv, StageInv, SelectsThePool, [CreatorNext]_creatorVars,
                      created' # Nil
               PROVE  SelectsThePool'
    BY DEF SelectsThePool
  <2>1. CASE UNCHANGED creatorVars
    BY <2>1 DEF creatorVars, SelectsThePool, Named
  <2>2. CASE createProfile
    <3>0. PICK pool \in Named(cluster.pools, args.mcpName) : \E label \in GetMCPSelector(pool) :
             created'.machineConfigPoolSelector = {label}
      BY <2>2, CreatedFields
    <3>1. PICK label \in GetMCPSelector(pool) : created'.machineConfigPoolSelector = {label}
      BY <3>0
    <3>2. UNCHANGED <<cluster, args>>
      BY <2>2 DEF createProfile
    <3>3. label \in UniqueLabels(pool)
      BY <3>1 DEF GetMCPSelector
    <3>4. pool \in cluster.pools /\ Named(cluster.pools, args.mcpName) = {pool}
      BY <3>1 DEF Named, PoolsInv
    <3>5. {p \in cluster.pools : {label} \subseteq p.labels} = {pool}
      BY <3>3, <3>4 DEF UniqueLabels
    <3> QED
      BY <3>1, <3>2, <3>4, <3>5 DEF SelectsThePool, Named
  <2> QED
    BY <2>1, <2>2, ProfileIsLast
<1> QED
  BY <1>1, <1>2, CreatorInvariant, ClusterInvariant, PTL DEF CreatorSpec, ClusterInv

\* The argument nosmt is there when threads are to be switched off.
LEMMA Nosmt ==
    ASSUME args.power.word \in PowerModes
    PROVE  "nosmt" \in GetAdditionalKernelArgs <=> disableHT
<1>1. "nosmt" \notin LowLatency /\ "nosmt" \notin UltraLow
  BY DEF LowLatency, UltraLow
<1>2. "nosmt" \in {a \in {"nosmt"} : disableHT} <=> disableHT
  OBVIOUS
<1>3. "nosmt" \notin (IF ~args.power.exact THEN {}
                      ELSE CASE args.power.word = "default" -> {}
                             [] args.power.word = "low-latency" -> LowLatency
                             [] args.power.word = "ultra-low-latency" -> LowLatency \union UltraLow)
  BY <1>1 DEF PowerModes
<1> QED
  BY <1>2, <1>3 DEF GetAdditionalKernelArgs

\* A profile with nosmt names the first threads of all cores, one without it all
\* threads, as reserved or isolated.
THEOREM OnlineCPUsNamed == CreatorSpec => []NamesOnlineCPUs
<1>1. CreatorInit => NamesOnlineCPUs
  BY DEF CreatorInit, Start, NamesOnlineCPUs
<1>2. AllocationInv /\ FoundInv /\ StageInv /\ NamesOnlineCPUs /\ [CreatorNext]_creatorVars
        => NamesOnlineCPUs'
  <2> SUFFICES ASSUME AllocationInv, FoundInv, StageInv, NamesOnlineCPUs,
                      [CreatorNext]_creatorVars, created' # Nil
               PROVE  NamesOnlineCPUs'
    BY DEF NamesOnlineCPUs
  <2>1. CASE UNCHANGED creatorVars
    <3>1. All' = All /\ UNCHANGED created
      BY <2>1, TopologyKept DEF creatorVars, allocation
    <3> QED
      BY <3>1 DEF NamesOnlineCPUs
  <2>2. CASE createProfile
    <3>1. /\ stage = "create" /\ UNCHANGED cores
          /\ created'.cpu.reserved = reserved /\ created'.cpu.isolated = All \ reserved
          /\ created'.kernelArgs = GetAdditionalKernelArgs
      <4>1. stage = "create" /\ UNCHANGED cores
        BY <2>2 DEF createProfile, allocation
      <4>2. /\ created'.cpu = [reserved |-> reserved, isolated |-> All \ reserved,
                               balanceIsolated |-> Nil]
            /\ created'.kernelArgs = GetAdditionalKernelArgs
        BY <2>2, CreatedFields
      <4> QED
        BY <4>1, <4>2
    <3>2. pc = "done" /\ args.power.word \in PowerModes /\ TypeOK /\ ThreadsInv
      BY <3>1 DEF StageInv, FoundInv, AllocationInv
    <3>3. "nosmt" \in created'.kernelArgs <=> disableHT
      BY <3>1, <3>2, Nosmt
    <3>4. ASSUME disableHT, NEW cpu \in All PROVE cpu[3] = 1
      <4>1. PICK n \in Nodes : cpu \in AllOf(n)
        BY <3>4 DEF All
      <4>2. cpu[2] \in DOMAIN cores[n] /\ cpu[3] \in 1..cores[n][cpu[2]]
        BY <3>2, <4>1, NodesNumbered, AllOfNode
      <4> QED
        BY <3>2, <3>4, <4>2 DEF ThreadsInv
    <3>5. created'.cpu.reserved \union created'.cpu.isolated = All
      BY <3>1, <3>2 DEF TypeOK
    <3>6. All' = All
      BY <3>1, TopologyKept
    <3> QED
      BY <3>3, <3>4, <3>5, <3>6 DEF NamesOnlineCPUs
  <2> QED
    BY <2>1, <2>2, ProfileIsLast
<1> QED
  BY <1>1, <1>2, CreatorInvariant, ClusterInvariant, PTL DEF CreatorSpec, ClusterInv

\* The pool of the profile, and the nodes that were compared.
LEMMA TheCreatedPool ==
    ASSUME PoolsInv, FoundInv, createProfile
    PROVE  \E pool \in cluster.pools :
              /\ Named(cluster.pools, args.mcpName) = {pool}
              /\ GetNodesForPool(pool) # {} /\ SameHardware(GetNodesForPool(pool))
              /\ created'.nodeSelector = NodeSelector(pool)
              /\ pool.selector \notin {Nil, Bad}
<1>1. PICK pool \in Named(cluster.pools, args.mcpName) :
         GetNodesForPool(pool) # {} /\ SameHardware(GetNodesForPool(pool))
  BY DEF createProfile, FoundInv
<1>2. pool \in cluster.pools /\ Named(cluster.pools, args.mcpName) = {pool}
  BY <1>1 DEF Named, PoolsInv
<1>3. created'.nodeSelector = NodeSelector(pool)
  BY <1>2, CreatedFields
<1>4. PICK n \in cluster.nodes : getPrimaryPool(n) = {pool}
  BY <1>1 DEF GetNodesForPool
<1>5. getPrimaryPool(n) \subseteq PoolsOf(n)
  BY DEF getPrimaryPool, Custom, Named
<1>6. pool.selector \notin {Nil, Bad}
  <2>1. pool.selector # Nil
    BY <1>4, <1>5 DEF PoolsOf, Matches
  <2>2. ValidSelectors
    BY <1>4 DEF getPrimaryPool
  <2> QED
    BY <1>2, <2>1, <2>2 DEF ValidSelectors
<1> QED
  BY <1>1, <1>2, <1>3, <1>6

\* A node the pool's selector matches is one of its nodes, unless it is a
\* Windows node, not schedulable, or claimed by another pool but worker.
LEMMA NodesOfCustomPool ==
    ASSUME ValidSelectors, NEW pool \in cluster.pools, pool.name \notin {"master", "worker"},
           NEW n \in cluster.nodes, pool \in PoolsOf(n), n \notin GetNodesForPool(pool),
           ~n.windows, \A p \in PoolsOf(n) \ {pool} : p.name = "worker"
    PROVE  ~Schedulable(n, pool)
<1>1. Custom(PoolsOf(n)) = {pool}
  BY DEF Custom
<1>2. Cardinality(Custom(PoolsOf(n))) = 1
  BY <1>1, FS_Singleton
<1>3. Named(PoolsOf(n), "master") = {}
  BY DEF Named
<1>4. getPrimaryPool(n) = {pool}
  BY <1>1, <1>2, <1>3 DEF getPrimaryPool
<1> QED
  BY <1>4 DEF GetNodesForPool

\* The profile of a custom pool applies to the nodes whose hardware was
\* compared, and to others only where the pools say so, in any cluster.
THEOREM AppliesToCompared == CreatorSpec => []AppliesToComparedNodes
<1>1. CreatorInit => AppliesToComparedNodes
  BY DEF CreatorInit, Start, AppliesToComparedNodes
<1>2. PoolsInv /\ FoundInv /\ StageInv /\ AppliesToComparedNodes /\ [CreatorNext]_creatorVars
        => AppliesToComparedNodes'
  <2> SUFFICES ASSUME PoolsInv, FoundInv, StageInv, AppliesToComparedNodes,
                      [CreatorNext]_creatorVars, created' # Nil
               PROVE  AppliesToComparedNodes'
    BY DEF AppliesToComparedNodes
  <2>1. CASE UNCHANGED creatorVars
    <3>1. UNCHANGED <<cluster, args, created>>
      BY <2>1 DEF creatorVars
    <3>2. \A p : GetNodesForPool(p)' = GetNodesForPool(p) /\ PoolsOf(p)' = PoolsOf(p)
      BY <3>1 DEF GetNodesForPool, getPrimaryPool, PoolsOf, ValidSelectors
    <3> QED
      BY <3>1, <3>2 DEF AppliesToComparedNodes
  <2>2. CASE createProfile
    <3>1. PICK pool \in cluster.pools :
              /\ Named(cluster.pools, args.mcpName) = {pool}
              /\ created'.nodeSelector = NodeSelector(pool)
              /\ pool.selector # Nil /\ GetNodesForPool(pool) # {}
      BY <2>2, TheCreatedPool
    <3>1a. ValidSelectors
      BY <3>1 DEF GetNodesForPool, getPrimaryPool
    <3>2. UNCHANGED <<cluster, args>>
      BY <2>2 DEF createProfile
    <3> SUFFICES ASSUME created'.nodeSelector # Nil, pool \in Custom({pool})
                 PROVE  /\ \A n \in GetNodesForPool(pool) : created'.nodeSelector \subseteq n.labels
                        /\ \A n \in cluster.nodes \ GetNodesForPool(pool) :
                              pool.selector.matchExpressions = {}
                              /\ created'.nodeSelector \subseteq n.labels =>
                                 \/ n.windows
                                 \/ \E t \in n.noSchedule : pool.selector.matchLabels \subseteq {t}
                                 \/ \E p \in PoolsOf(n) \ {pool} : p.name # "worker"
      <4>1. \A p : GetNodesForPool(p)' = GetNodesForPool(p) /\ PoolsOf(p)' = PoolsOf(p)
        BY <3>2 DEF GetNodesForPool, getPrimaryPool, PoolsOf, ValidSelectors
      <4>2. Custom(Named(cluster'.pools, args'.mcpName)) = Custom({pool})
        BY <3>1, <3>2
      <4>3. \A p \in Custom({pool}) : p = pool
        BY DEF Custom
      <4> QED
        BY <3>2, <4>1, <4>2, <4>3 DEF AppliesToComparedNodes
    <3>3. created'.nodeSelector = pool.selector.matchLabels /\ pool.selector.matchLabels # {}
      BY <3>1 DEF NodeSelector
    <3>4. pool.name \notin {"master", "worker"}
      BY DEF Custom
    <3>5. ASSUME NEW n \in GetNodesForPool(pool)
          PROVE  pool.selector.matchLabels \subseteq n.labels
      <4>1. pool \in PoolsOf(n)
        BY DEF GetNodesForPool, getPrimaryPool, Custom, Named
      <4> QED
        BY <4>1 DEF PoolsOf, Matches
    <3>6. ASSUME NEW n \in cluster.nodes, n \notin GetNodesForPool(pool),
                 pool.selector.matchExpressions = {}, pool.selector.matchLabels \subseteq n.labels,
                 ~n.windows, \A p \in PoolsOf(n) \ {pool} : p.name = "worker"
          PROVE  \E t \in n.noSchedule : pool.selector.matchLabels \subseteq {t}
      <4>1. pool \in PoolsOf(n)
        BY <3>1, <3>3, <3>6 DEF PoolsOf, IsEmpty, Matches
      <4>2. ~Schedulable(n, pool)
        BY <3>1a, <3>4, <3>6, <4>1, NodesOfCustomPool
      <4> QED
        BY <4>2 DEF Schedulable, Matches
    <3> QED
      BY <3>3, <3>5, <3>6
  <2> QED
    BY <2>1, <2>2, ProfileIsLast
<1> QED
  BY <1>1, <1>2, CreatorInvariant, ClusterInvariant, PTL DEF CreatorSpec, ClusterInv

-----------------------------------------------------------------------------
(* The snapshots.                                                          *)

\* The files a snapshot is made of.
LEMMA ExpectedFiles ==
    ToSet(kniExpectedCloneContent) \union ToSet(ExpectedCloneContent)
        = {<<"proc", "cmdline">>, <<"proc", "interrupts">>, NumaFiles, <<"sys", "bus", "pci">>}
BY DEF ToSet, kniExpectedCloneContent, ExpectedCloneContent

\* SetToSeq names every element of a finite set once.
LEMMA SetToSeqNames ==
    ASSUME NEW S, IsFiniteSet(S)
    PROVE  /\ SetToSeq(S) \in [1..Cardinality(S) -> S] /\ IsInjective(SetToSeq(S))
           /\ ToSet(SetToSeq(S)) = S
<1> DEFINE k == Cardinality(S)
           f == SetToSeq(S)
<1>1. k \in Nat /\ ExistsBijection(1..k, S)
  BY FS_CardinalityType
<1>2. PICK g \in Bijection(1..k, S) : TRUE
  BY <1>1 DEF ExistsBijection
<1>3. g \in [1..k -> S] /\ IsInjective(g)
  BY <1>2 DEF Bijection, Injection, IsInjective
<1>4. f \in [1..k -> S] /\ IsInjective(f)
  BY <1>3 DEF SetToSeq
<1>5. IsFiniteSet(1..k) /\ Cardinality(1..k) = k
  BY <1>1, FS_Interval
<1>6. f \in Injection(1..k, S)
  BY <1>4 DEF Injection
<1>7. f \in Surjection(1..k, S)
  BY <1>5, <1>6, FS_Injection
<1>8. ToSet(f) = S
  BY <1>4, <1>7 DEF ToSet, Surjection
<1> QED
  BY <1>4, <1>8

\* A path on the mounted host starts with the mount, and the rest is the path
\* on the host.
LEMMA MountedPath ==
    ASSUME NEW W, "host" \in W, NEW p \in Seq(W)
    PROVE  LET m == <<"host">> \o p IN
           /\ m \in Seq(W) /\ IsPrefix(<<"host">>, m)
           /\ SubSeq(m, Len(<<"host">>) + 1, Len(m)) = p
<1> DEFINE h == <<"host">>
           m == h \o p
<1>1. h \in Seq(W) /\ Len(h) = 1 /\ h[1] = "host"
  OBVIOUS
<1> HIDE DEF h
<1>2. m \in Seq(W) /\ Len(m) = Len(p) + 1 /\ Len(p) \in Nat
  <2>1. Len(p) \in Nat
    BY LenProperties
  <2>2. m \in Seq(W)
    BY <1>1, ConcatProperties
  <2>3. Len(m) = Len(h) + Len(p)
    BY <1>1, ConcatProperties
  <2> QED
    BY <1>1, <2>1, <2>2, <2>3
<1>2a. m[1] = "host"
  BY <1>1, <1>2, ConcatProperties
<1>2b. ASSUME NEW i \in 1..Len(p) PROVE m[i + 1] = p[i]
  BY <1>1, <1>2, ConcatProperties
<1> HIDE DEF m
<1>3. IsPrefix(h, m)
  BY <1>1, <1>2, <1>2a DEF IsPrefix
<1>4. SubSeq(m, 2, Len(m)) = p
  BY <1>2, <1>2b
<1> QED
  BY <1>1, <1>2, <1>3, <1>4 DEF h, m

\* What gather_nodes asks of the snapshot command.
Options == [dumpList |-> FALSE, output |-> "-", rootDir |-> <<"host">>]

\* The words of the paths.
Words == {"host", "proc", "cmdline", "interrupts", "sys", "devices", "system", "node",
          "bus", "pci", "machineinfo.json"}

\* When no call fails that the snapshot needs, the archive has the files of the
\* NUMA nodes, and nothing but the files that are asked for; otherwise there is
\* no archive.  The host's files are copied from where it is mounted, each of
\* them once.
LEMMA SnapshotFiles ==
    ASSUME NEW host, host.mount = <<"host">>
    PROVE  IF host.fails \intersect {"temp", "copy", "pack"} = {}
           THEN /\ NumaFiles \in makeSnapshot(Options, host)
                /\ makeSnapshot(Options, host) \in SUBSET ArchiveFiles
           ELSE makeSnapshot(Options, host) = Bad
<1> DEFINE h == <<"host">>
           S == ToSet(kniExpectedCloneContent) \union ToSet(ExpectedCloneContent)
           all == dedupExpectedContent(kniExpectedCloneContent, ExpectedCloneContent)
           fileSpecs == chrootFileSpecs(all, h)
           copied == CopyFilesInto(fileSpecs, host)
           packed == Below(h, copied)
<1>1. /\ Options.rootDir = h /\ Options.rootDir # <<>> /\ ~Options.dumpList
      /\ Options.output # Nil
  BY SnapshotAssumption DEF Options
<1>2. makeSnapshot(Options, host) =
         IF "temp" \in host.fails \/ copied = Bad \/ "pack" \in host.fails THEN Bad
         ELSE packed \union collectMachineinfo(host, FALSE \/ packed # {})
  BY <1>1 DEF makeSnapshot
<1>3. CASE "copy" \in host.fails
  <2>1. copied = Bad
    BY <1>3 DEF CopyFilesInto
  <2> QED
    BY <1>2, <1>3, <2>1
<1>4. CASE "copy" \notin host.fails
  <2>1. IsFiniteSet(S) /\ S \in SUBSET Seq(Words) /\ NumaFiles \in S
    <3>1. S = {<<"proc", "cmdline">>, <<"proc", "interrupts">>, NumaFiles, <<"sys", "bus", "pci">>}
      BY ExpectedFiles
    <3> HIDE DEF S
    <3>2. IsFiniteSet(S)
      <4> DEFINE A == {<<"proc", "cmdline">>}
                 B == A \union {<<"proc", "interrupts">>}
                 C == B \union {NumaFiles}
                 D == C \union {<<"sys", "bus", "pci">>}
      <4>1. S = D
        BY <3>1
      <4>2. IsFiniteSet(A)
        BY FS_Singleton
      <4> HIDE DEF A
      <4>3. IsFiniteSet(B)
        BY <4>2, FS_AddElement
      <4> HIDE DEF B
      <4>4. IsFiniteSet(C)
        BY <4>3, FS_AddElement
      <4> HIDE DEF C
      <4>5. IsFiniteSet(D)
        BY <4>4, FS_AddElement
      <4> QED
        BY <4>1, <4>5
    <3>3. /\ <<"proc", "cmdline">> \in Seq(Words) /\ <<"proc", "interrupts">> \in Seq(Words)
          /\ <<"sys", "bus", "pci">> \in Seq(Words) /\ NumaFiles \in Seq(Words)
      BY DEF Words, NumaFiles
    <3> QED
      BY <3>1, <3>2, <3>3
  <2>2. DOMAIN all = 1..Cardinality(S) /\ IsInjective(all) /\ ToSet(all) = S
    BY <2>1, SetToSeqNames DEF dedupExpectedContent
  <2>3. S \subseteq ArchiveFiles
    BY DEF ArchiveFiles
  <2> HIDE DEF S, all, h
  <2>4. \A i \in DOMAIN all : all[i] \in S
    BY <2>2 DEF ToSet
  <2>5. \A p \in S : /\ IsPrefix(h, h \o p)
                     /\ SubSeq(h \o p, Len(h) + 1, Len(h \o p)) = p
    <3>1. "host" \in Words
      BY DEF Words
    <3> QED
      BY <2>1, <3>1, MountedPath DEF h
  <2>6. DOMAIN fileSpecs = DOMAIN all /\ \A i \in DOMAIN all : fileSpecs[i] = h \o all[i]
    BY DEF chrootFileSpecs
  <2> HIDE DEF fileSpecs
  <2>7. IsInjective(fileSpecs)
    <3> SUFFICES ASSUME NEW i \in DOMAIN all, NEW j \in DOMAIN all, fileSpecs[i] = fileSpecs[j]
                 PROVE  i = j
      BY <2>6 DEF IsInjective
    <3>1. h \o all[i] = h \o all[j]
      BY <2>6
    <3>2. all[i] = all[j]
      BY <2>4, <2>5, <3>1
    <3> QED
      BY <2>2, <3>2 DEF IsInjective
  <2>8. ToSet(fileSpecs) = {h \o p : p \in S}
    <3>1. \A p \in S : \E i \in DOMAIN all : all[i] = p
      BY <2>2 DEF ToSet
    <3>2. ToSet(fileSpecs) = {fileSpecs[i] : i \in DOMAIN all}
      BY <2>6 DEF ToSet
    <3>3. {fileSpecs[i] : i \in DOMAIN all} = {h \o all[i] : i \in DOMAIN all}
      BY <2>6
    <3>4. {h \o all[i] : i \in DOMAIN all} \subseteq {h \o p : p \in S}
      BY <2>4
    <3>5. ASSUME NEW p \in S PROVE h \o p \in {h \o all[i] : i \in DOMAIN all}
      BY <3>1
    <3> QED
      BY <3>2, <3>3, <3>4, <3>5
  <2>9. copied = {h \o p : p \in S}
    <3>1. copied = {p \in ToSet(fileSpecs) : IsPrefix(h, p)}
      BY <1>4, <2>7 DEF CopyFilesInto, h
    <3>2. \A x \in {h \o p : p \in S} : IsPrefix(h, x)
      BY <2>5
    <3> HIDE DEF copied
    <3> QED
      BY <2>8, <3>1, <3>2
  <2>10. copied # Bad
    <3> HIDE DEF copied
    <3>1. copied \in SUBSET MountedFiles
      BY <2>3, <2>9 DEF MountedFiles, h
    <3>2. \A files \in SUBSET MountedFiles : files # Bad
      BY SnapshotAssumption
    <3> QED
      BY <3>1, <3>2
  <2>11. packed = S
    <3>1. packed = {SubSeq(p, Len(h) + 1, Len(p)) : p \in {q \in {h \o r : r \in S} : IsPrefix(h, q)}}
      BY <2>9 DEF Below
    <3>2. {q \in {h \o r : r \in S} : IsPrefix(h, q)} = {h \o r : r \in S}
      BY <2>5
    <3>3. packed = {SubSeq(p, Len(h) + 1, Len(p)) : p \in {h \o r : r \in S}}
      BY <3>1, <3>2
    <3> QED
      BY <2>5, <3>3
  <2> HIDE DEF copied, packed
  <2>12. collectMachineinfo(host, FALSE \/ packed # {}) \subseteq ArchiveFiles
    BY DEF collectMachineinfo, ArchiveFiles
  <2> QED
    BY <1>2, <1>4, <2>1, <2>3, <2>10, <2>11, <2>12
<1> QED
  BY <1>3, <1>4

\* The topology of a gathered host is the host's, or there is none.
LEMMA GatheredHost ==
    ASSUME NEW n, IsHost(n)
    PROVE  LET g == Gathered(n) IN
           /\ g.running = n.running /\ g.fails = n.fails /\ g.hardware = n.hardware
           /\ g.running /\ g.fails \subseteq {"machineinfo"} => g.topology = g.hardware
           /\ g.topology \in {Bad, g.hardware}
<1> DEFINE t == IF n.running THEN Topology(makeSnapshot(Options, n), n) ELSE Bad
           g == Gathered(n)
<1>1. n.mount = <<"host">>
  BY DEF IsHost
<1>2. g.running = n.running /\ g.fails = n.fails /\ g.hardware = n.hardware /\ g.topology = t
  <2>1. g = [n EXCEPT !.snapshot = n.running, !.topology = t]
    BY DEF Gathered, Options
  <2> HIDE DEF g, t
  <2> QED
    BY <2>1 DEF IsHost
<1> HIDE DEF g
<1>3. CASE n.fails \intersect {"temp", "copy", "pack"} = {}
  <2>1. /\ NumaFiles \in makeSnapshot(Options, n)
        /\ makeSnapshot(Options, n) \in SUBSET ArchiveFiles
    BY <1>1, <1>3, SnapshotFiles
  <2>2. Topology(makeSnapshot(Options, n), n) = n.hardware
    BY <2>1, SnapshotAssumption DEF Topology
  <2> QED
    BY <1>2, <2>2 DEF g
<1>4. CASE n.fails \intersect {"temp", "copy", "pack"} # {}
  <2>1. makeSnapshot(Options, n) = Bad
    BY <1>1, <1>4, SnapshotFiles
  <2>2. t = Bad
    BY <2>1 DEF Topology
  <2>3. ~(n.fails \subseteq {"machineinfo"})
    BY <1>4
  <2> QED
    BY <1>2, <2>2, <2>3 DEF g
<1> QED
  BY <1>3, <1>4

\* However the hosts are gathered, the creator sees their hardware or nothing;
\* it does when no call fails that a snapshot needs.
THEOREM GatheredTrue == CreatorSpec => []GatheredIsTrue
<1>1. CreatorInit => GatheredIsTrue
  BY DEF CreatorInit, Start, GatheredIsTrue
<1>2. UngatheredInv /\ GatheredIsTrue /\ [CreatorNext]_creatorVars => GatheredIsTrue'
  <2> SUFFICES ASSUME UngatheredInv, GatheredIsTrue, [CreatorNext]_creatorVars
               PROVE  GatheredIsTrue'
    OBVIOUS
  <2>1. CASE gather_nodes
    <3>1. IsCluster(cluster)
      BY <2>1 DEF gather_nodes, UngatheredInv
    <3>2. cluster'.nodes = {Gathered(n) : n \in cluster.nodes}
      BY <2>1, <3>1, GatheredPools
    <3>3. ASSUME NEW g \in cluster'.nodes
          PROVE  /\ g.running /\ g.fails \subseteq {"machineinfo"} => g.topology = g.hardware
                 /\ g.topology \in {Bad, g.hardware}
      <4>1. PICK n \in cluster.nodes : g = Gathered(n)
        BY <3>2
      <4>2. IsHost(n)
        BY <3>1 DEF IsCluster
      <4> QED
        BY <4>1, <4>2, GatheredHost
    <3> QED
      BY <3>3 DEF GatheredIsTrue
  <2>2. CASE ~gather_nodes
    <3>1. UNCHANGED cluster
      BY <2>2, ClusterKept
    <3>2. stage' # "gather" => stage # "gather"
      BY <2>2 DEF CreatorNext, creatorVars, CheckFlags, getClusterData, ShowClusterInfo,
                  getDataFromFlags, findNodes, AllocateCPUs, createProfile
    <3> QED
      BY <3>1, <3>2 DEF GatheredIsTrue
  <2> QED
    BY <2>1, <2>2
<1> QED
  BY <1>1, <1>2, ClusterInvariant, PTL DEF CreatorSpec, ClusterInv

\* When there is a profile, the nodes of its pool really have the same hardware,
\* whatever failed when they were visited.
THEOREM ComparedAlike == CreatorSpec => []ComparedNodesAlike
<1>1. CreatorInit => ComparedNodesAlike
  BY DEF CreatorInit, Start, ComparedNodesAlike
<1>2. PoolsInv /\ FoundInv /\ StageInv /\ GatheredIsTrue /\ ComparedNodesAlike
      /\ [CreatorNext]_creatorVars => ComparedNodesAlike'
  <2> SUFFICES ASSUME PoolsInv, FoundInv, StageInv, GatheredIsTrue, ComparedNodesAlike,
                      [CreatorNext]_creatorVars, created' # Nil
               PROVE  ComparedNodesAlike'
    BY DEF ComparedNodesAlike
  <2>1. CASE UNCHANGED creatorVars
    <3>1. UNCHANGED <<cluster, args, created>>
      BY <2>1 DEF creatorVars
    <3>2. \A p : GetNodesForPool(p)' = GetNodesForPool(p)
      BY <3>1 DEF GetNodesForPool, getPrimaryPool, PoolsOf, ValidSelectors
    <3> QED
      BY <3>1, <3>2 DEF ComparedNodesAlike, Named
  <2>2. CASE createProfile
    <3>1. PICK pool \in cluster.pools :
             Named(cluster.pools, args.mcpName) = {pool} /\ SameHardware(GetNodesForPool(pool))
      BY <2>2, TheCreatedPool
    <3>2. UNCHANGED <<cluster, args>> /\ stage = "create"
      BY <2>2 DEF createProfile
    <3>3. \A p : GetNodesForPool(p)' = GetNodesForPool(p)
      BY <3>2 DEF GetNodesForPool, getPrimaryPool, PoolsOf, ValidSelectors
    <3>4. \A n \in GetNodesForPool(pool) : n.topology \in {Bad, n.hardware}
      BY <3>2 DEF GetNodesForPool, GatheredIsTrue
    <3>5. ASSUME NEW m \in GetNodesForPool(pool), NEW n \in GetNodesForPool(pool)
          PROVE  m.hardware = n.hardware /\ n.topology = n.hardware
      BY <3>1, <3>4 DEF SameHardware
    <3>6. \A p \in Named(cluster'.pools, args'.mcpName) : p = pool
      BY <3>1, <3>2
    <3>7. \A p \in Named(cluster'.pools, args'.mcpName) :
             \A m, n \in GetNodesForPool(p)' : m.hardware = n.hardware /\ n.topology = n.hardware
      BY <3>3, <3>5, <3>6
    <3> QED
      BY <3>7 DEF ComparedNodesAlike, Named
  <2> QED
    BY <2>1, <2>2, ProfileIsLast
<1> QED
  BY <1>1, <1>2, CreatorInvariant, ClusterInvariant, GatheredTrue, PTL DEF CreatorSpec, ClusterInv

-----------------------------------------------------------------------------
(* Admission of the profile.                                               *)

\* The webhook counts as everyone does.
LEMMA SameCount == \A S : Valid!Cardinality(S) = Cardinality(S)
BY DEF Valid!Cardinality, Cardinality

\* The CPUs are finitely many of those that there may be.
LEMMA FiniteCPUs ==
    ASSUME TypeOK
    PROVE  IsFiniteSet(All) /\ All \in SUBSET AllCPUs
<1>1. All \in SUBSET AllCPUs
  BY NodesNumbered, AllOfNode DEF All
<1> QED
  BY <1>1, FiniteAllCPUs, FS_Subset

\* Without threads that are switched off and without a split, a CPU is left to
\* isolate.
LEMMA SomeIsolated ==
    ASSUME AllocationInv, pc = "done", ~disableHT, ~split
    PROVE  Cardinality(All \ reserved) # 0
<1>1. IsFiniteSet(All) /\ reserved \subseteq All /\ requested \in Nat
  BY FiniteCPUs DEF AllocationInv, TypeOK
<1>2. /\ Cardinality(reserved) \in Nat /\ Cardinality(reserved) <= requested
      /\ requested < Cardinality(All)
  BY DEF AllocationInv, SequentialInv, ThreadsInv
<1>3. reserved # All
  BY <1>1, <1>2, FS_CardinalityType
<1>4. IsFiniteSet(All \ reserved) /\ All \ reserved # {}
  BY <1>1, <1>3, FS_Subset
<1> QED
  BY <1>4, FS_EmptySet

\* The CPU section passes, but for isolated CPUs that are not there.
LEMMA CPUsAdmitted ==
    ASSUME AllocationInv, pc = "done", NEW p,
           p.cpu = [reserved |-> reserved, isolated |-> All \ reserved, balanceIsolated |-> Nil]
    PROVE  /\ \A f \in Valid!validateCPUs(p) : f = "cpu.isolated" /\ (disableHT \/ split)
           /\ p.cpu.reserved # Nil
<1>1. All \in SUBSET AllCPUs /\ reserved \subseteq All
  BY FiniteCPUs DEF AllocationInv, TypeOK
<1>2. reserved \in SUBSET AllCPUs /\ All \ reserved \in SUBSET AllCPUs
  BY <1>1
<1>3. p.cpu.reserved = reserved /\ p.cpu.isolated = All \ reserved
  OBVIOUS
<1>4. p.cpu \in CPULists
  BY <1>2 DEF CPULists
<1>5. p.cpu # Nil
  BY <1>4, CreatorAssumption
<1>6. /\ p.cpu.reserved # Nil /\ p.cpu.reserved # Bad
      /\ p.cpu.isolated # Nil /\ p.cpu.isolated # Bad
  BY <1>2, <1>3, CreatorAssumption
<1>7. Valid!Intersect(p.cpu) = {}
  BY <1>3 DEF Valid!Intersect
<1>8. Valid!validateCPUs(p) = {f \in {"cpu.isolated"} : Valid!CountIsolated(p.cpu) = 0}
  BY <1>5, <1>6, <1>7 DEF Valid!validateCPUs
<1>9. Valid!CountIsolated(p.cpu) = 0 => disableHT \/ split
  BY <1>3, SomeIsolated, SameCount DEF Valid!CountIsolated
<1> QED
  BY <1>6, <1>8, <1>9

\* The selectors pass when the node selector is one key of the form
\* domain/role.
LEMMA SelectorsAdmitted ==
    ASSUME NEW p, NEW label, p.machineConfigLabel = Nil,
           p.machineConfigPoolSelector = {label}
    PROVE  /\ \A f \in Valid!validateSelectors(p) : f = "nodeSelector"
           /\ \A k : Len(k) = 2 /\ p.nodeSelector = {k} /\ {k} # Nil
                       => Valid!validateSelectors(p) = {}
<1>1. Valid!Cardinality({label}) = 1
  BY FS_Singleton, SameCount
<1>2. \A f \in Valid!validateSelectors(p) : f = "nodeSelector"
  BY <1>1 DEF Valid!validateSelectors
<1>3. ASSUME NEW k, Len(k) = 2, p.nodeSelector = {k}, {k} # Nil
      PROVE  Valid!validateSelectors(p) = {}
  <2>1. Valid!Cardinality({k}) = 1
    BY FS_Singleton, SameCount
  <2>2. Valid!FirstKeys({k}) = {k}
    BY <1>3, Zenon DEF Valid!FirstKeys
  <2>3. \A key \in Valid!FirstKeys(p.nodeSelector) : Valid!Splits(key)
    BY <1>3, <2>2 DEF Valid!Splits
  <2>4. p.nodeSelector # Nil /\ ~(Valid!Cardinality(p.nodeSelector) > 1)
    BY <1>3, <2>1
  <2> QED
    BY <1>2, <2>3, <2>4 DEF Valid!validateSelectors
<1> QED
  BY <1>2, <1>3

\* What the webhook may say of a profile of the creator, at the time it is
\* printed.
LEMMA CreatedAdmitted ==
    ASSUME AllocationInv, PoolsInv, FoundInv, StageInv, createProfile,
           NEW f \in Valid!validateFields(created')
    PROVE  \/ /\ f = "nodeSelector"
              /\ \A pool \in Named(cluster.pools, args.mcpName) :
                    ~\E k \in pool.selector.matchLabels :
                        pool.selector.matchLabels = {k} /\ Len(k) = 2
           \/ f = "numa.topologyPolicy" /\ ~args.policy.exact
           \/ f = "cpu.isolated" /\ (disableHT \/ split)
<1>1. PICK pool \in cluster.pools :
         /\ Named(cluster.pools, args.mcpName) = {pool}
         /\ created'.nodeSelector = NodeSelector(pool)
         /\ pool.selector \notin {Nil, Bad}
  BY TheCreatedPool
<1>2. pc = "done" /\ args.policy.word \in TMPolicies
  BY DEF createProfile, StageInv, FoundInv
<1>3. PICK label :
         /\ created'.cpu = [reserved |-> reserved, isolated |-> All \ reserved,
                            balanceIsolated |-> Nil]
         /\ created'.machineConfigPoolSelector = {label}
         /\ created'.machineConfigLabel = Nil /\ created'.hugepages = Nil
         /\ created'.numa = [policy |-> IF args.policy.exact THEN args.policy.word ELSE Bad]
         /\ created'.net = IF args.userLevelNetworking = Nil THEN Nil
                           ELSE [userLevelNetworking |-> args.userLevelNetworking,
                                 devices |-> <<>>]
  BY CreatedFields
<1>4. CASE f \in Valid!validateCPUs(created')
  BY <1>2, <1>3, <1>4, CPUsAdmitted
<1>5. CASE f \in Valid!validateSelectors(created')
  <2>1. f = "nodeSelector"
    BY <1>3, <1>5, SelectorsAdmitted
  <2>2. ASSUME NEW k, pool.selector.matchLabels = {k}, Len(k) = 2 PROVE FALSE
    <3>1. {k} # Nil
      BY <1>1, <2>2 DEF PoolsInv
    <3>2. created'.nodeSelector = {k}
      BY <1>1, <2>2 DEF NodeSelector
    <3> QED
      BY <1>3, <1>5, <2>2, <3>1, <3>2, SelectorsAdmitted
  <2> QED
    BY <1>1, <2>1, <2>2
<1>6. CASE f \in Valid!validateHugePages(created')
  BY <1>3, <1>6 DEF Valid!validateHugePages
<1>7. CASE f \in Valid!validateNUMA(created')
  <2>1. f = "numa.topologyPolicy" /\ created'.numa.policy \notin Valid!TopologyPolicies
    BY <1>7 DEF Valid!validateNUMA
  <2>2. args.policy.exact => created'.numa.policy \in TMPolicies
    BY <1>2, <1>3
  <2> QED
    BY <2>1, <2>2 DEF TMPolicies, Valid!TopologyPolicies
<1>8. CASE f \in Valid!validateNet(created')
  <2>1. created'.net # Nil
    BY <1>8 DEF Valid!validateNet
  <2>2. created'.net.devices = <<>>
    BY <1>3, <2>1
  <2>3. created'.cpu.reserved # Nil
    BY <1>2, <1>3, CPUsAdmitted
  <2> QED
    BY <1>8, <2>1, <2>2, <2>3 DEF Valid!validateNet
<1> QED
  BY <1>4, <1>5, <1>6, <1>7, <1>8 DEF Valid!validateFields

\* The profile that is printed passes the webhook, for every cluster and every
\* command line, but for the three reasons CreatedIsAdmitted names.
THEOREM CreatedPasses == CreatorSpec => []CreatedIsAdmitted
<1>1. CreatorInit => CreatedIsAdmitted
  BY DEF CreatorInit, Start, CreatedIsAdmitted
<1>2. AllocationInv /\ PoolsInv /\ FoundInv /\ StageInv /\ CreatedIsAdmitted
      /\ [CreatorNext]_creatorVars => CreatedIsAdmitted'
  <2> SUFFICES ASSUME AllocationInv, PoolsInv, FoundInv, StageInv, CreatedIsAdmitted,
                      [CreatorNext]_creatorVars, created' # Nil
               PROVE  CreatedIsAdmitted'
    BY DEF CreatedIsAdmitted
  <2>1. CASE UNCHANGED creatorVars
    <3>1. UNCHANGED <<cluster, args, created, disableHT, split>>
      BY <2>1 DEF creatorVars, allocation, inputs
    <3>2. Valid!validateFields(created') = Valid!validateFields(created)
      BY <3>1
    <3> QED
      BY <3>1, <3>2 DEF CreatedIsAdmitted, Named
  <2>2. CASE createProfile
    <3>1. UNCHANGED <<cluster, args, disableHT, split>>
      BY <2>2 DEF createProfile, allocation, inputs
    <3>2. \A f \in Valid!validateFields(created') :
             \/ /\ f = "nodeSelector"
                /\ \A pool \in Named(cluster.pools, args.mcpName) :
                      ~\E k \in pool.selector.matchLabels :
                          pool.selector.matchLabels = {k} /\ Len(k) = 2
             \/ f = "numa.topologyPolicy" /\ ~args.policy.exact
             \/ f = "cpu.isolated" /\ (disableHT \/ split)
      BY <2>2, CreatedAdmitted
    <3> QED
      BY <3>1, <3>2 DEF CreatedIsAdmitted, Named
  <2> QED
    BY <2>1, <2>2, ProfileIsLast
<1> QED
  BY <1>1, <1>2, CreatorInvariant, ClusterInvariant, PTL DEF CreatorSpec, ClusterInv
=============================================================================
