----------------------- MODULE ProfileManifests_proofs -----------------------
(***************************************************************************)
(* The properties of ProfileManifests for every set of profiles and every  *)
(* sequence of render's inputs.  Those of the operator rest on what        *)
(* validateFields has established by the time GetNewComponents runs, and   *)
(* on every manifest being that of the current profile; ReservedAgree also *)
(* on the masks of CPUMask, which decode to the CPUs they were made of.    *)
(***************************************************************************)
EXTENDS ProfileManifests, NaturalsOrder, FiniteSetTheorems, SequenceTheorems

\* What an admitted profile has.
LEMMA AdmittedProfile ==
    ASSUME NEW p, validateFields(p) = {}
    PROVE  /\ p.cpu # Nil /\ p.cpu.reserved # Bad
           /\ p.hugepages # Nil =>
                 \A i \in DOMAIN p.hugepages.pages : p.hugepages.pages[i].size \in Sizes
<1>1. validateCPUs(p) = {} /\ validateHugePages(p) = {}
  BY DEF validateFields
<1>2. p.cpu # Nil
  BY <1>1 DEF validateCPUs
<1>3. p.cpu.isolated # Nil /\ p.cpu.reserved # Nil
  BY <1>1, <1>2 DEF validateCPUs
<1>4. p.cpu.reserved # Bad
  BY <1>1, <1>2, <1>3 DEF validateCPUs
<1>5. p.hugepages # Nil =>
        \A i \in DOMAIN p.hugepages.pages : p.hugepages.pages[i].size \in Sizes
  BY <1>1 DEF validateHugePages
<1> QED
  BY <1>2, <1>4, <1>5

-----------------------------------------------------------------------------
(* The operator.                                                           *)

\* The operator handles one profile and, past the webhook, an admitted one.
OperatorInv ==
    caller = "operator" =>
        /\ pc \in {"validate", "rejected", "MachineConfig", "KubeletConfig", "Tuned",
                   "RuntimeClass", "done", "error", "panic"}
        /\ pc \notin {"validate", "rejected"} => validateFields(profile) = {}
        /\ profile \in Profiles

\* The kubelet configuration can only fail over the annotation.
LEMMA SnippetAtFault ==
    ASSUME NEW p \in Profiles, p.snippet # Bad,
           KubeletConfiguration(p, Default(p.snippet, NoSnippet)).reservedMemory = Bad
    PROVE  /\ p.snippet # Nil
           /\ Bad \in {p.snippet.kubeReserved, p.snippet.systemReserved, p.snippet.evictionHard}
<1> DEFINE snippet == Default(p.snippet, NoSnippet)
           kube == Default(snippet.kubeReserved, 500)
           system == Default(snippet.systemReserved, 500)
           eviction == Default(snippet.evictionHard, 100)
<1>1. snippet.reservedMemory # Bad
  BY ManifestsAssumption DEF Default, NoSnippet
<1>2. Bad \in {kube, system, eviction} \/ SumUp(kube, system, eviction) = Bad
  BY <1>1 DEF KubeletConfiguration
<1>3. CASE p.snippet = Nil
  <2>1. kube = 500 /\ system = 500 /\ eviction = 100
    BY <1>3 DEF Default, NoSnippet
  <2>2. Bad \notin {kube, system, eviction} /\ SumUp(kube, system, eviction) \in Nat
    BY <2>1, ManifestsAssumption DEF SumUp
  <2> QED
    BY <1>2, <2>2, ManifestsAssumption
<1>4. CASE p.snippet # Nil
  <2>1. snippet = p.snippet
    BY <1>4 DEF Default
  <2>2. CASE Bad \in {p.snippet.kubeReserved, p.snippet.systemReserved, p.snippet.evictionHard}
    BY <1>4, <2>2
  <2>3. CASE Bad \notin {p.snippet.kubeReserved, p.snippet.systemReserved,
                         p.snippet.evictionHard}
    <3>1. {p.snippet.kubeReserved, p.snippet.systemReserved, p.snippet.evictionHard}
            \subseteq Nat \union {Nil}
      BY <1>4, <2>3, ManifestsAssumption
    <3>2. kube \in Nat /\ system \in Nat /\ eviction \in Nat
      BY <2>1, <3>1 DEF Default
    <3> HIDE DEF kube, system, eviction
    <3>3. SumUp(kube, system, eviction) \in Nat
      BY <3>2 DEF SumUp
    <3> QED
      BY <1>2, <3>2, <3>3, ManifestsAssumption
  <2> QED
    BY <2>2, <2>3
<1> QED
  BY <1>3, <1>4

\* The operator starts at the webhook and takes no step of render's or of the
\* generator's.
LEMMA OperatorStepInv ==
    ASSUME OperatorInv, [Next]_vars, caller = "operator"
    PROVE  OperatorInv' /\ profile' = profile
<1> USE DEF OperatorInv, profile
<1>1. CASE ValidateFields
  BY <1>1 DEF ValidateFields, Outcome
<1>2. CASE NewMachineConfig
  BY <1>2 DEF NewMachineConfig, Outcome
<1>3. CASE NewKubeletConfig
  BY <1>3 DEF NewKubeletConfig, Outcome
<1>4. CASE NewNodePerformance
  BY <1>4 DEF NewNodePerformance, Outcome
<1>5. CASE NewRuntimeClass
  BY <1>5 DEF NewRuntimeClass
<1>6. CASE \/ ValidateOptions \/ ReadProfile \/ (\E kind \in ManifestKinds : WriteManifest(kind))
           \/ readInput \/ MakeMachineConfig \/ writeOutput
  BY <1>6 DEF ValidateOptions, ReadProfile, WriteManifest, readInput, MakeMachineConfig, writeOutput
<1>7. CASE UNCHANGED vars
  BY <1>7 DEF vars
<1> QED
  BY <1>1, <1>2, <1>3, <1>4, <1>5, <1>6, <1>7 DEF Next

\* A profile the webhook lets through is turned into manifests: neither the
\* machine config nor the tuned can fail or panic on it, but for a net section
\* without userLevelNetworking, and the kubelet config only over a reservation
\* in the annotation.
THEOREM AdmittedGenerated == Spec => []AdmittedIsGenerated
<1>1. Init => OperatorInv /\ AdmittedIsGenerated
  <2> SUFFICES ASSUME Init, caller = "operator" PROVE OperatorInv /\ AdmittedIsGenerated
    BY DEF OperatorInv, AdmittedIsGenerated
  <2>1. pc = "validate" /\ profile \in Profiles
    BY DEF Init, profile
  <2> QED
    BY <2>1 DEF OperatorInv, AdmittedIsGenerated
<1>2. OperatorInv /\ AdmittedIsGenerated /\ [Next]_vars => OperatorInv' /\ AdmittedIsGenerated'
  <2> SUFFICES ASSUME OperatorInv, AdmittedIsGenerated, [Next]_vars
               PROVE  OperatorInv' /\ AdmittedIsGenerated'
    OBVIOUS
  <2>0. UNCHANGED caller
    BY DEF Next, vars, Outcome, ValidateFields, NewMachineConfig, NewKubeletConfig,
           NewNodePerformance, NewRuntimeClass, ValidateOptions, ReadProfile, WriteManifest,
           readInput, MakeMachineConfig, writeOutput
  <2>1. CASE caller # "operator"
    BY <2>0, <2>1 DEF OperatorInv, AdmittedIsGenerated
  <2>2. CASE caller = "operator"
    <3>1. OperatorInv' /\ profile' = profile
      BY <2>2, OperatorStepInv
    <3>2. CASE pc' \notin {"panic", "error"}
      BY <3>1, <3>2 DEF AdmittedIsGenerated
    <3>3. CASE UNCHANGED pc
      BY <2>0, <3>1, <3>3 DEF AdmittedIsGenerated
    <3>4. CASE NewMachineConfig
      <4>1. validateFields(profile) = {}
        BY <2>2, <3>4 DEF NewMachineConfig, OperatorInv
      <4>2. pc' = "KubeletConfig"
        BY <3>4, <4>1, AdmittedProfile DEF NewMachineConfig, Pages
      <4> QED
        BY <3>2, <4>2
    <3>5. CASE NewKubeletConfig
      <4>1. profile \in Profiles
        BY <2>2 DEF OperatorInv
      <4>2. pc' \in {"Tuned", "error"}
        BY <3>5 DEF NewKubeletConfig, Outcome
      <4>3. CASE pc' = "error"
        <5>1. \/ profile.snippet = Bad
              \/ /\ profile.snippet # Bad
                 /\ KubeletConfiguration(profile, Default(profile.snippet, NoSnippet)).reservedMemory
                      = Bad
          BY <3>5, <4>3 DEF NewKubeletConfig
        <5>2. \/ profile.snippet = Bad
              \/ /\ profile.snippet # Nil
                 /\ Bad \in {profile.snippet.kubeReserved, profile.snippet.systemReserved,
                             profile.snippet.evictionHard}
          BY <4>1, <5>1, SnippetAtFault
        <5> QED
          BY <3>1, <4>3, <5>2 DEF AdmittedIsGenerated
      <4> QED
        BY <3>2, <4>2, <4>3
    <3>6. CASE NewNodePerformance
      <4>1. validateFields(profile) = {}
        BY <2>2, <3>6 DEF NewNodePerformance, OperatorInv
      <4>2. pc' = "RuntimeClass" \/ (pc' = "panic" /\ profile.net # Nil
                                     /\ profile.net.userLevelNetworking = Nil)
        BY <3>6, <4>1, AdmittedProfile DEF NewNodePerformance, Outcome
      <4> QED
        BY <3>1, <3>2, <4>2 DEF AdmittedIsGenerated
    <3>7. CASE ValidateFields \/ NewRuntimeClass
      BY <2>2, <3>2, <3>7 DEF ValidateFields, NewRuntimeClass, Outcome
    <3>8. CASE \/ ValidateOptions \/ ReadProfile
               \/ (\E kind \in ManifestKinds : WriteManifest(kind))
               \/ readInput \/ MakeMachineConfig \/ writeOutput
      BY <2>2, <3>8 DEF ValidateOptions, ReadProfile, WriteManifest, readInput,
                        MakeMachineConfig, writeOutput, OperatorInv
    <3> QED
      BY <3>3, <3>4, <3>5, <3>6, <3>7, <3>8 DEF Next, vars
  <2> QED
    BY <2>1, <2>2
<1> QED
  BY <1>1, <1>2, PTL DEF Spec
-----------------------------------------------------------------------------
(* The kubelet configuration.                                              *)

\* Once it is there, the kubelet configuration is the current profile's, and it
\* was not refused; the generator makes none.
KubeletInv ==
    /\ pc \in {"Tuned", "RuntimeClass", "write"} \/ (pc = "done" /\ caller # "generator") =>
          /\ kc.config = KubeletConfiguration(profile, Default(profile.snippet, NoSnippet))
          /\ kc.config.reservedMemory # Bad
    /\ caller = "generator" => pc \in {"input", "generator", "output", "done", "error"}
    /\ pc \in {"input", "generator", "output"} => caller = "generator"

\* Render goes on to the next profile, or stays with this one.
LEMMA WritingStep ==
    ASSUME NEW kind, WriteManifest(kind)
    PROVE  /\ pc = "write" /\ UNCHANGED caller
           /\ pc' \in {"error", "read"} \/ (pc' \in {"write", "done"} /\ UNCHANGED <<inputs, pos, kc>>)
BY DEF WriteManifest, NextProfile, Outcome, manifests

\* The inductive step.
LEMMA KubeletStep == KubeletInv /\ [Next]_vars => KubeletInv'
<1> SUFFICES ASSUME KubeletInv, [Next]_vars PROVE KubeletInv'
  OBVIOUS
<1> USE DEF KubeletInv, profile
<1>1. CASE ValidateFields \/ NewMachineConfig \/ ValidateOptions \/ ReadProfile
  BY <1>1 DEF ValidateFields, NewMachineConfig, ValidateOptions, ReadProfile, Outcome
<1>2. CASE NewKubeletConfig
  BY <1>2 DEF NewKubeletConfig, Outcome
<1>3. CASE NewNodePerformance
  BY <1>3 DEF NewNodePerformance, Outcome
<1>4. CASE NewRuntimeClass
  BY <1>4 DEF NewRuntimeClass
<1>5. CASE \E kind \in ManifestKinds : WriteManifest(kind)
  <2>1. PICK kind \in ManifestKinds : WriteManifest(kind)
    BY <1>5
  <2>2. /\ pc = "write" /\ UNCHANGED caller
        /\ pc' \in {"error", "read"} \/ (pc' \in {"write", "done"} /\ UNCHANGED <<inputs, pos, kc>>)
    BY <2>1, WritingStep
  <2>3. caller' # "generator"
    BY <2>2
  <2>4. CASE pc' \in {"error", "read"}
    BY <2>3, <2>4
  <2>5. CASE UNCHANGED <<inputs, pos, kc>>
    BY <2>2, <2>3, <2>5
  <2> QED
    BY <2>2, <2>4, <2>5
<1>6. CASE readInput \/ MakeMachineConfig \/ writeOutput
  BY <1>6 DEF readInput, MakeMachineConfig, writeOutput, Outcome
<1>7. CASE UNCHANGED vars
  BY <1>7 DEF vars, manifests
<1> QED
  BY <1>1, <1>2, <1>3, <1>4, <1>5, <1>6, <1>7 DEF Next

\* With the static memory manager, the reserved memory in the kubelet
\* configuration is the sum of the reservations, for every profile and snippet
\* that leaves both to the operator, and in every position of render's inputs.
THEOREM MemoryBalanced == Spec => []KubeletMemoryBalanced
<1>1. Init => KubeletInv
  BY DEF Init, KubeletInv
<1>2. KubeletInv => KubeletMemoryBalanced
  <2> SUFFICES ASSUME KubeletInv, Finished, caller # "generator",
                      Default(profile.snippet, NoSnippet).reservedMemory = Nil,
                      Default(profile.snippet, NoSnippet).memoryManager = Nil,
                      kc.config.memoryManager = "Static"
               PROVE  kc.config.reservedMemory =
                         kc.config.kubeReserved + kc.config.systemReserved + kc.config.evictionHard
    BY DEF KubeletMemoryBalanced
  <2>1. /\ kc.config = KubeletConfiguration(profile, Default(profile.snippet, NoSnippet))
        /\ kc.config.reservedMemory # Bad
    BY DEF KubeletInv, Finished
  <2>2. Policy(profile) \in {"restricted", "single-numa-node"}
    BY <2>1, ManifestsAssumption DEF KubeletConfiguration
  <2> QED
    BY <2>1, <2>2 DEF KubeletConfiguration, SumUp
<1> QED
  BY <1>1, <1>2, KubeletStep, PTL DEF Spec

-----------------------------------------------------------------------------
(* CPU masks.                                                              *)

\* A finite set of numbers has an upper bound.
LEMMA FiniteBounded ==
    ASSUME NEW S \in SUBSET Nat, IsFiniteSet(S)
    PROVE  \E b \in Nat : \A x \in S : x <= b
<1>1. PICK seq \in Seq(S) : \A x \in S : \E n \in 1..Len(seq) : seq[n] = x
  BY DEF IsFiniteSet
<1> DEFINE K == {n \in Nat : \E b \in Nat : \A i \in 1..Len(seq) : i <= n => seq[i] <= b}
<1>2. Len(seq) \in Nat /\ \A i \in 1..Len(seq) : seq[i] \in Nat
  <2>1. Len(seq) \in Nat /\ seq \in [1..Len(seq) -> S]
    BY LenProperties
  <2> QED
    BY <2>1
<1>3. 0 \in K
  <2>1. \A i \in 1..Len(seq) : ~(i <= 0)
    BY <1>2
  <2> QED
    BY <2>1
<1>4. ASSUME NEW n \in K PROVE n + 1 \in K
  <2>1. PICK b \in Nat : \A i \in 1..Len(seq) : i <= n => seq[i] <= b
    BY <1>4
  <2>2. CASE n + 1 \in 1..Len(seq)
    <3> DEFINE c == b + seq[n + 1]
    <3>1. c \in Nat /\ b <= c /\ seq[n + 1] <= c
      BY <1>2, <2>2
    <3>2. ASSUME NEW i \in 1..Len(seq), i <= n + 1 PROVE seq[i] <= c
      <4>1. i <= n \/ i = n + 1
        BY <1>2, <3>2
      <4>2. seq[i] \in Nat
        BY <1>2
      <4> HIDE DEF c
      <4> QED
        BY <2>1, <3>1, <4>1, <4>2
    <3> HIDE DEF c
    <3>3. \A i \in 1..Len(seq) : i <= n + 1 => seq[i] <= c
      BY <3>2
    <3> QED
      BY <1>4, <3>1, <3>3
  <2>3. CASE n + 1 \notin 1..Len(seq)
    <3>1. \A i \in 1..Len(seq) : i <= n + 1 => i <= n
      BY <1>2, <2>3
    <3> QED
      BY <2>1, <3>1
  <2> QED
    BY <2>2, <2>3
<1>5. K = Nat
  BY <1>3, <1>4, SetInduction
<1> HIDE DEF K
<1>6. Len(seq) \in K
  BY <1>2, <1>5
<1>7. PICK b \in Nat : \A i \in 1..Len(seq) : i <= Len(seq) => seq[i] <= b
  BY <1>6 DEF K
<1>8. ASSUME NEW x \in S PROVE x <= b
  <2>1. PICK n \in 1..Len(seq) : seq[n] = x
    BY <1>1
  <2> QED
    BY <1>2, <1>7, <2>1
<1> QED
  BY <1>7, <1>8

\* Every CPU has a digit in the mask.
LEMMA DigitsEnough ==
    ASSUME NEW cpus \in SUBSET Nat, IsFiniteSet(cpus)
    PROVE  /\ Digits(cpus) \in Nat /\ Digits(cpus) >= 64
           /\ \A x \in cpus : x \div 4 < Digits(cpus)
<1>1. CASE cpus = {}
  BY <1>1 DEF Digits, PadDigits
<1>2. CASE cpus # {}
  <2>1. PICK b \in Nat : \A x \in cpus : x <= b
    BY FiniteBounded
  <2> DEFINE m == Max(cpus)
             T == {64, m \div 4 + 1}
  <2>2. m \in Nat /\ \A x \in cpus : x <= m
    BY <1>2, <2>1, GreatestNatural
  <2>3. Digits(cpus) = Max(T)
    BY <1>2 DEF Digits, PadDigits, DigitBits
  <2> HIDE DEF m
  <2>4. m \div 4 + 1 \in Nat
    BY <2>2
  <2>5. /\ T \in SUBSET Nat /\ T # {} /\ 64 + m \div 4 + 1 \in Nat
        /\ \A n \in T : n <= 64 + m \div 4 + 1
    BY <2>4, <2>2
  <2>6. Max(T) \in T /\ \A n \in T : n <= Max(T)
    BY <2>5, GreatestNatural
  <2>7. Max(T) \in Nat /\ 64 <= Max(T) /\ m \div 4 + 1 <= Max(T)
    BY <2>5, <2>6
  <2> HIDE DEF T
  <2>8. ASSUME NEW x \in cpus PROVE x \div 4 < Max(T)
    <3>1. x \in Nat /\ x <= m
      BY <2>2
    <3>2. x \div 4 <= m \div 4
      BY <2>2, <3>1
    <3> QED
      BY <2>2, <2>7, <3>1, <3>2
  <2> QED
    BY <2>3, <2>7, <2>8
<1> QED
  BY <1>1, <1>2

\* A position in a mask is a digit of a chunk.
LEMMA DigitOfChunk ==
    ASSUME NEW p \in Nat, p >= 1
    PROVE  /\ (p - 1) \div 8 \in Nat /\ ((p - 1) % 8) + 1 \in 1..8
           /\ p = 8 * ((p - 1) \div 8) + (((p - 1) % 8) + 1)
OBVIOUS

\* Where the chunks of a mask of whole chunks start and end.
LEMMA ChunkBounds ==
    ASSUME NEW q \in Nat, q >= 1, NEW mask, Len(mask) = 8 * q
    PROVE  \E a \in 0..q - 1 :
              /\ FirstIndex(mask) = 8 * a /\ LastIndex(mask) = 8 * (q - 1)
              /\ \A k \in 0..q - 1 : (\E d \in 1..8 : Chunk(mask, 8 * k)[d] # {}) => a <= k
<1>1. Indices(mask) = {8 * i : i \in 0..q}
  BY DEF Indices, ChunkDigits
<1> DEFINE F == {i \in Indices(mask) :
                    \/ i + 8 >= 8 * q
                    \/ \E d \in 1..8 : Chunk(mask, i)[d] # {}}
<1>2. FirstIndex(mask) = Min(F)
  BY DEF FirstIndex, ChunkDigits
<1>3. F \in SUBSET Nat /\ 8 * (q - 1) \in F
  <2>1. 8 * (q - 1) \in Indices(mask)
    BY <1>1
  <2>2. Indices(mask) \subseteq Nat
    BY <1>1
  <2> QED
    BY <2>1, <2>2
<1>4. Min(F) \in F /\ \A i \in F : Min(F) <= i
  BY <1>3, MinNatural
<1>5. PICK a \in 0..q : Min(F) = 8 * a
  BY <1>1, <1>4
<1>6. a \in 0..q - 1
  <2>1. Min(F) <= 8 * (q - 1)
    BY <1>3, <1>4
  <2> HIDE DEF F
  <2>2. 8 * a <= 8 * (q - 1)
    BY <1>5, <2>1
  <2> QED
    BY <2>2
<1>7. ASSUME NEW k \in 0..q - 1, \E d \in 1..8 : Chunk(mask, 8 * k)[d] # {}
      PROVE  a <= k
  <2>1. 8 * k \in F
    BY <1>1, <1>7
  <2>2. 8 * a <= 8 * k
    BY <1>4, <1>5, <2>1
  <2> QED
    BY <2>2
<1> DEFINE L == {i \in Indices(mask) : i >= 8 * a /\ i + 16 > 8 * q}
<1>8. LastIndex(mask) = Min(L)
  <2>1. FirstIndex(mask) = 8 * a
    BY <1>2, <1>5
  <2>2. LastIndex(mask) = Min({i \in Indices(mask) : i >= 8 * a /\ i + 2 * 8 > 8 * q})
    BY <2>1 DEF LastIndex, ChunkDigits
  <2>3. {i \in Indices(mask) : i >= 8 * a /\ i + 2 * 8 > 8 * q} = L
    OBVIOUS
  <2> QED
    BY <2>2, <2>3
<1>9. L \in SUBSET Nat /\ 8 * (q - 1) \in L
  <2>1. 8 * (q - 1) \in Indices(mask)
    BY <1>1
  <2>2. Indices(mask) \subseteq Nat
    BY <1>1
  <2> QED
    BY <1>6, <2>1, <2>2
<1>10. Min(L) \in L /\ \A i \in L : Min(L) <= i
  BY <1>9, MinNatural
<1>11. PICK b \in 0..q : Min(L) = 8 * b
  BY <1>1, <1>10
<1>12. b = q - 1
  <2>1. Min(L) <= 8 * (q - 1) /\ Min(L) + 16 > 8 * q
    BY <1>9, <1>10
  <2> HIDE DEF L
  <2>2. 8 * b <= 8 * (q - 1) /\ 8 * b + 16 > 8 * q
    BY <1>11, <2>1
  <2> QED
    BY <2>2
<1> QED
  BY <1>2, <1>5, <1>6, <1>7, <1>8, <1>11, <1>12

\* The mask list decodes to the CPUs it was made of, when the digits fill whole
\* chunks: no chunk with a CPU is left out at the front, the loop over the
\* chunks stops at the last but one, and that last one is written after it.
THEOREM MaskRoundTrip ==
    ASSUME NEW cpus \in SUBSET Nat, IsFiniteSet(cpus), Digits(cpus) % ChunkDigits = 0
    PROVE  CPUMaskToCPUSet(CPUListToMaskList(cpus)) = cpus
<1> DEFINE len == Digits(cpus)
           q == len \div 8
           mask == CPUListToHexMask(cpus)
<1>1. len \in Nat /\ len >= 64 /\ \A x \in cpus : x \div 4 < len
  BY DigitsEnough
<1>2. len % 8 = 0
  BY DEF ChunkDigits
<1>3. /\ mask \in Seq(SUBSET (0..3)) /\ Len(mask) = len
      /\ \A p \in 1..len : mask[p] = {b \in 0..3 : (len - p) * 4 + b \in cpus}
  <2> DEFINE g == [p \in 1..len |-> {b \in 0..3 : (len - p) * 4 + b \in cpus}]
  <2>1. mask = g
    BY DEF CPUListToHexMask, DigitBits
  <2>2. g \in [1..len -> SUBSET (0..3)]
    OBVIOUS
  <2>3. g \in Seq(SUBSET (0..3)) /\ Len(g) = len
    BY <1>1, <2>2
  <2> QED
    BY <2>1, <2>3
<1> HIDE DEF len, mask
<1>4. len = 8 * q /\ q \in Nat /\ q >= 1
  BY <1>1, <1>2
<1> HIDE DEF q
<1>5. PICK a \in 0..q - 1 :
         /\ FirstIndex(mask) = 8 * a /\ LastIndex(mask) = 8 * (q - 1)
         /\ \A k \in 0..q - 1 : (\E d \in 1..8 : Chunk(mask, 8 * k)[d] # {}) => a <= k
  BY <1>3, <1>4, ChunkBounds
<1> DEFINE n == q - a
           chunks == CPUListToMaskList(cpus)
<1>6. n \in Nat /\ n >= 1
  BY <1>4, <1>5
<1>7. ASSUME NEW k \in 0..q - 1, NEW d \in 1..8
      PROVE  /\ Chunk(mask, 8 * k)[d] = mask[8 * k + d] /\ 8 * k + d \in 1..len
  <2>1. 8 * k + d \in 1..len /\ 8 * k + 1 \in Int /\ 8 * k + 8 \in Int
    BY <1>4
  <2>2. \A i \in 8 * k + 1..8 * k + 8 : mask[i] \in SUBSET (0..3)
    BY <1>3, <1>4
  <2>3. SubSeq(mask, 8 * k + 1, 8 * k + 8)[d] = mask[8 * k + 1 + d - 1]
    <3>1. d \in 1..(8 * k + 8) - (8 * k + 1) + 1
      BY <1>4
    <3> QED
      BY <2>1, <2>2, <3>1, SubSeqProperties
  <2>4. 8 * k + 1 + d - 1 = 8 * k + d
    OBVIOUS
  <2> QED
    BY <2>1, <2>3, <2>4 DEF Chunk, ChunkDigits
<1>8. chunks = [c \in 1..n |-> Chunk(mask, 8 * (a + c - 1))]
  <2>1. (8 * (q - 1) - 8 * a) \div 8 + 1 = n
    BY <1>4, <1>5
  <2>2. chunks = [c \in 1..((8 * (q - 1) - 8 * a) \div 8 + 1) |-> Chunk(mask, 8 * a + (c - 1) * 8)]
    BY <1>5 DEF CPUListToMaskList, ChunkDigits, mask
  <2>3. \A c \in 1..n : 8 * a + (c - 1) * 8 = 8 * (a + c - 1)
    BY <1>5, <1>6
  <2> HIDE DEF n, chunks
  <2> QED
    BY <2>1, <2>2, <2>3
<1> HIDE DEF chunks
<1>9. Len(chunks) = n
  BY <1>6, <1>8
<1>10. ASSUME NEW c \in 1..n, NEW d \in 1..8
       PROVE  chunks[c][d] = {b \in 0..3 : (n - c) * 32 + (8 - d) * 4 + b \in cpus}
  <2>1. a + c - 1 \in 0..q - 1
    BY <1>4, <1>5
  <2>2. chunks[c][d] = mask[8 * (a + c - 1) + d] /\ 8 * (a + c - 1) + d \in 1..len
    BY <1>7, <1>8, <2>1
  <2>3. (len - (8 * (a + c - 1) + d)) * 4 = (n - c) * 32 + (8 - d) * 4
    BY <1>4, <1>5
  <2> QED
    BY <1>3, <2>2, <2>3
<1>11. CPUMaskToCPUSet(chunks) =
          {(n - x[1]) * 32 + (8 - x[2]) * 4 + x[3] :
              x \in {y \in (1..n) \X (1..8) \X (0..3) : y[3] \in chunks[y[1]][y[2]]}}
  BY <1>9 DEF CPUMaskToCPUSet, BitsInWord, ChunkDigits, DigitBits
<1>12. ASSUME NEW x \in (1..n) \X (1..8) \X (0..3), x[3] \in chunks[x[1]][x[2]]
       PROVE  (n - x[1]) * 32 + (8 - x[2]) * 4 + x[3] \in cpus
  BY <1>10, <1>12
<1>13. ASSUME NEW x \in cpus
       PROVE  \E c \in 1..n, d \in 1..8, b \in 0..3 :
                 b \in chunks[c][d] /\ x = (n - c) * 32 + (8 - d) * 4 + b
  <2> DEFINE p == len - x \div 4
             k == (p - 1) \div 8
             d == ((p - 1) % 8) + 1
             b == x % 4
  <2>1. x \in Nat /\ x \div 4 \in Nat /\ x \div 4 < len /\ b \in 0..3 /\ x = 4 * (x \div 4) + b
    BY <1>1
  <2>2. p \in Nat /\ p >= 1 /\ p <= len
    BY <1>1, <2>1
  <2>3. x = (len - p) * 4 + b
    BY <1>1, <2>1
  <2> HIDE DEF p, b
  <2>4. k \in Nat /\ d \in 1..8 /\ p = 8 * k + d
    BY <2>2, DigitOfChunk
  <2> HIDE DEF k, d
  <2>5. k \in 0..q - 1
    BY <1>4, <2>2, <2>4
  <2>6. Chunk(mask, 8 * k)[d] = mask[p]
    BY <1>7, <2>4, <2>5
  <2>7. b \in mask[p]
    <3>1. p \in 1..len
      BY <1>1, <2>2
    <3>2. mask[p] = {e \in 0..3 : (len - p) * 4 + e \in cpus}
      BY <1>3, <3>1
    <3>3. (len - p) * 4 + b \in cpus
      BY <1>13, <2>3
    <3> QED
      BY <2>1, <3>2, <3>3
  <2>8. a <= k
    BY <1>5, <2>4, <2>5, <2>6, <2>7
  <2> DEFINE c == k - a + 1
  <2>9. c \in 1..n /\ a + c - 1 = k
    BY <1>4, <1>5, <2>5, <2>8
  <2> HIDE DEF c
  <2>10. chunks[c] = Chunk(mask, 8 * k)
    BY <1>8, <2>9
  <2>11. b \in chunks[c][d]
    BY <2>6, <2>7, <2>10
  <2>12. x = (n - c) * 32 + (8 - d) * 4 + b
    BY <1>4, <1>5, <2>1, <2>3, <2>4, <2>5, <2>9
  <2> QED
    BY <2>1, <2>4, <2>9, <2>11, <2>12
<1> HIDE DEF n
<1>14. cpus \subseteq CPUMaskToCPUSet(chunks)
  <2> SUFFICES ASSUME NEW x \in cpus PROVE x \in CPUMaskToCPUSet(chunks)
    OBVIOUS
  <2>1. PICK c \in 1..n, d \in 1..8, b \in 0..3 :
           b \in chunks[c][d] /\ x = (n - c) * 32 + (8 - d) * 4 + b
    BY <1>13
  <2> DEFINE t == <<c, d, b>>
  <2>2. /\ t \in {y \in (1..n) \X (1..8) \X (0..3) : y[3] \in chunks[y[1]][y[2]]}
        /\ x = (n - t[1]) * 32 + (8 - t[2]) * 4 + t[3]
    BY <2>1
  <2> HIDE DEF t
  <2> QED
    BY <1>11, <2>2
<1>15. CPUMaskToCPUSet(chunks) \subseteq cpus
  BY <1>11, <1>12
<1> QED
  BY <1>14, <1>15 DEF chunks

-----------------------------------------------------------------------------
(* What the operator has made.                                             *)

\* An admitted profile has CPU lists that are fit for use, and each huge page
\* request once.
LEMMA AdmittedCPUs ==
    ASSUME NEW p \in Profiles, validateFields(p) = {}
    PROVE  /\ p.cpu.reserved \in SUBSET Nat /\ IsFiniteSet(p.cpu.reserved)
           /\ p.cpu.reserved # Nil /\ p.cpu.reserved # Bad
           /\ p.cpu.isolated # {} /\ p.cpu.isolated \intersect p.cpu.reserved = {}
<1>1. validateCPUs(p) = {}
  BY DEF validateFields
<1>2. p.cpu # Nil
  BY <1>1 DEF validateCPUs
<1>3. p.cpu.isolated # Nil /\ p.cpu.reserved # Nil
  BY <1>1, <1>2 DEF validateCPUs
<1>4. p.cpu.reserved # Bad /\ p.cpu.isolated # Bad
  BY <1>1, <1>2, <1>3 DEF validateCPUs
<1>5. CountIsolated(p.cpu) # 0 /\ Intersect(p.cpu) = {}
  BY <1>1, <1>2, <1>3, <1>4 DEF validateCPUs
<1>6. p.cpu.isolated # {}
  BY <1>5, FS_EmptySet DEF CountIsolated
<1>7. p.cpu.reserved \in SUBSET Nat /\ IsFiniteSet(p.cpu.reserved)
  BY <1>2, <1>3, <1>4, ManifestsAssumption
<1> QED
  BY <1>3, <1>4, <1>5, <1>6, <1>7 DEF Intersect

\* The manifests of the operator are those of its profile.
MadeInv ==
    caller = "operator" =>
        /\ pc \in {"KubeletConfig", "Tuned", "RuntimeClass", "done"} =>
              /\ mc.crioCPUs = profile.cpu.reserved /\ mc.rps = RPSUnit(profile.cpu)
              /\ mc.hooks = OCIHooksMask(profile.cpu) /\ mc.units = HugepagesUnits(profile)
        /\ pc \in {"RuntimeClass", "done"} =>
              /\ tuned.isolated = profile.cpu.isolated
              /\ tuned.default = IF profile.hugepages = Nil THEN Nil ELSE profile.hugepages.default
              /\ tuned.hugepages = HugepagesArgs(profile)
              /\ tuned.net = NetSections(profile)

\* A step of the operator makes one manifest and keeps the others.
LEMMA MadeStep ==
    ASSUME OperatorInv, MadeInv, [Next]_vars
    PROVE  MadeInv'
<1>0. UNCHANGED caller
  BY DEF Next, vars, Outcome, ValidateFields, NewMachineConfig, NewKubeletConfig,
         NewNodePerformance, NewRuntimeClass, ValidateOptions, ReadProfile, WriteManifest,
         readInput, MakeMachineConfig, writeOutput
<1>1. CASE caller # "operator"
  BY <1>0, <1>1 DEF MadeInv
<1>2. CASE caller = "operator"
  <2>0. profile' = profile
    BY <1>2, OperatorStepInv
  <2> HIDE DEF profile
  <2>1. CASE ValidateFields
    BY <2>1 DEF ValidateFields, Outcome, MadeInv
  <2>2. CASE NewMachineConfig
    <3>1. CASE pc' \in {"panic", "error"}
      BY <3>1 DEF MadeInv
    <3>2. CASE pc' = "KubeletConfig"
      <4>1. /\ mc'.crioCPUs = profile.cpu.reserved /\ mc'.rps = RPSUnit(profile.cpu)
            /\ mc'.hooks = OCIHooksMask(profile.cpu) /\ mc'.units = HugepagesUnits(profile)
        BY <2>2, <3>2 DEF NewMachineConfig, Outcome, renderCrioConfigSnippet
      <4> QED
        BY <2>0, <3>2, <4>1 DEF MadeInv
    <3> QED
      BY <2>2, <3>1, <3>2 DEF NewMachineConfig, Outcome
  <2>3. CASE NewKubeletConfig
    <3>1. pc = "KubeletConfig" /\ pc' \in {"Tuned", "error"} /\ UNCHANGED <<mc, tuned>>
      BY <2>3 DEF NewKubeletConfig, Outcome, manifests
    <3> QED
      BY <1>2, <2>0, <3>1 DEF MadeInv
  <2>4. CASE NewNodePerformance
    <3>1. CASE pc' \in {"panic", "error"}
      BY <3>1 DEF MadeInv
    <3>2. CASE pc' = "RuntimeClass"
      <4>1. pc = "Tuned" /\ UNCHANGED mc
        BY <2>4, <3>2 DEF NewNodePerformance, Outcome
      <4>2. /\ tuned'.isolated = profile.cpu.isolated
            /\ tuned'.default = IF profile.hugepages = Nil THEN Nil ELSE profile.hugepages.default
            /\ tuned'.hugepages = HugepagesArgs(profile)
            /\ tuned'.net = NetSections(profile)
        BY <2>4, <3>2 DEF NewNodePerformance, Outcome
      <4> QED
        BY <1>2, <2>0, <3>2, <4>1, <4>2 DEF MadeInv
    <3> QED
      BY <2>4, <3>1, <3>2 DEF NewNodePerformance, Outcome
  <2>5. CASE NewRuntimeClass
    <3>1. pc = "RuntimeClass" /\ pc' = "done" /\ UNCHANGED <<mc, tuned>>
      BY <1>2, <2>5 DEF NewRuntimeClass
    <3> QED
      BY <1>2, <2>0, <3>1 DEF MadeInv
  <2>6. CASE \/ ValidateOptions \/ ReadProfile
             \/ (\E kind \in ManifestKinds : WriteManifest(kind))
             \/ readInput \/ MakeMachineConfig \/ writeOutput
    BY <1>2, <2>6 DEF ValidateOptions, ReadProfile, WriteManifest, readInput,
                      MakeMachineConfig, writeOutput, OperatorInv
  <2>7. CASE UNCHANGED vars
    <3>1. UNCHANGED <<pc, mc, tuned>>
      BY <2>7 DEF vars, manifests
    <3> QED
      BY <1>2, <2>0, <3>1 DEF MadeInv
  <2> QED
    BY <2>1, <2>2, <2>3, <2>4, <2>5, <2>6, <2>7 DEF Next
<1> QED
  BY <1>1, <1>2

\* The operator's steps, from the webhook to the last manifest.
LEMMA OperatorInvariant == Spec => [](OperatorInv /\ MadeInv /\ KubeletInv)
<1>1. Init => OperatorInv /\ MadeInv /\ KubeletInv
  <2> SUFFICES ASSUME Init PROVE OperatorInv /\ MadeInv /\ KubeletInv
    OBVIOUS
  <2>1. caller = "operator" => pc = "validate" /\ profile \in Profiles
    BY DEF Init, profile
  <2>2. KubeletInv
    BY DEF Init, KubeletInv
  <2> QED
    BY <2>1, <2>2 DEF OperatorInv, MadeInv
<1>2. OperatorInv /\ MadeInv /\ KubeletInv /\ [Next]_vars => (OperatorInv /\ MadeInv /\ KubeletInv)'
  <2> SUFFICES ASSUME OperatorInv, MadeInv, KubeletInv, [Next]_vars
               PROVE  OperatorInv' /\ MadeInv' /\ KubeletInv'
    OBVIOUS
  <2>1. UNCHANGED caller
    BY DEF Next, vars, Outcome, ValidateFields, NewMachineConfig, NewKubeletConfig,
           NewNodePerformance, NewRuntimeClass, ValidateOptions, ReadProfile, WriteManifest,
           readInput, MakeMachineConfig, writeOutput
  <2>2. OperatorInv'
    <3>1. CASE caller = "operator"
      BY <3>1, OperatorStepInv
    <3>2. CASE caller # "operator"
      BY <2>1, <3>2 DEF OperatorInv
    <3> QED
      BY <3>1, <3>2
  <2> QED
    BY <2>2, MadeStep, KubeletStep
<1> QED
  BY <1>1, <1>2, PTL DEF Spec

\* The manifests of an admitted profile agree on the CPUs, for every profile:
\* masks, kubelet, CRI-O and network queues are made of one set of reserved
\* CPUs, of which none is isolated.
THEOREM ReservedAlike == Spec => []ReservedAgree
<1>1. OperatorInv /\ MadeInv /\ KubeletInv => ReservedAgree
  <2> SUFFICES ASSUME OperatorInv, MadeInv, KubeletInv, caller = "operator", Finished
               PROVE  LET reserved == kc.config.reservedSystemCPUs IN
                      /\ mc.crioCPUs = reserved
                      /\ tuned.isolated # {} /\ tuned.isolated \intersect reserved = {}
                      /\ mc.hooks = mc.rps
                      /\ Digits(reserved) % ChunkDigits = 0 => CPUMaskToCPUSet(mc.rps) = reserved
                      /\ \A i \in DOMAIN tuned.net :
                            tuned.net[i].queues \in {Nil, Cardinality(reserved)}
    BY DEF ReservedAgree
  <2>1. pc = "done" /\ validateFields(profile) = {} /\ profile \in Profiles
    BY DEF OperatorInv, Finished
  <2>2. /\ kc.config = KubeletConfiguration(profile, Default(profile.snippet, NoSnippet))
        /\ mc.crioCPUs = profile.cpu.reserved /\ mc.rps = RPSUnit(profile.cpu)
        /\ mc.hooks = OCIHooksMask(profile.cpu)
        /\ tuned.isolated = profile.cpu.isolated /\ tuned.net = NetSections(profile)
    BY <2>1 DEF KubeletInv, MadeInv
  <2> DEFINE r == profile.cpu.reserved
  <2>3. /\ r \in SUBSET Nat /\ IsFiniteSet(r) /\ r # Nil /\ r # Bad
        /\ profile.cpu.isolated # {} /\ profile.cpu.isolated \intersect r = {}
    BY <2>1, AdmittedCPUs
  <2>4. kc.config.reservedSystemCPUs = r
    BY <2>2, <2>3 DEF KubeletConfiguration, Default
  <2>5. mc.rps = CPUListToMaskList(r) /\ mc.hooks = CPUListToMaskList(r)
    BY <2>2, <2>3 DEF RPSUnit, OCIHooksMask, RPSMask
  <2>6. Digits(r) % ChunkDigits = 0 => CPUMaskToCPUSet(mc.rps) = r
    BY <2>3, <2>5, MaskRoundTrip
  <2>7. \A i \in DOMAIN NetSections(profile) :
           NetSections(profile)[i].queues \in {Nil, Cardinality(r)}
    BY DEF NetSections
  <2> HIDE DEF r
  <2> QED
    BY <2>2, <2>3, <2>4, <2>5, <2>6, <2>7 DEF r
<1> QED
  BY <1>1, OperatorInvariant, PTL

-----------------------------------------------------------------------------
(* Huge pages.                                                             *)

\* The pages of an admitted profile: no two requests for the same size and the
\* same NUMA node.
LEMMA AdmittedPages ==
    ASSUME NEW p \in Profiles, validateFields(p) = {}
    PROVE  /\ \A i \in DOMAIN Pages(p) : i \in Nat /\ i # 0
           /\ \A i, j \in DOMAIN Pages(p) :
                 Pages(p)[i].size = Pages(p)[j].size /\ Pages(p)[i].node = Pages(p)[j].node => i = j
<1>1. validateHugePages(p) = {}
  BY DEF validateFields
<1>2. CASE p.hugepages = Nil
  BY <1>2 DEF Pages
<1>3. CASE p.hugepages # Nil
  <2> DEFINE pages == p.hugepages.pages
  <2>1. Pages(p) = pages
    BY <1>3 DEF Pages
  <2>2. pages \in Seq(ToSet(pages))
    BY <1>3, ManifestsAssumption
  <2>3. DOMAIN pages = 1..Len(pages) /\ Len(pages) \in Nat
    BY <2>2, LenProperties
  <2>4. ~\E i, j \in DOMAIN pages : i < j /\ Duplicate(pages[i], pages[j])
    BY <1>1, <1>3 DEF validateHugePages
  <2> HIDE DEF pages
  <2>5. ASSUME NEW i \in DOMAIN pages, NEW j \in DOMAIN pages,
               pages[i].size = pages[j].size, pages[i].node = pages[j].node
        PROVE  i = j
    <3>1. ~(i < j) /\ ~(j < i)
      BY <2>4, <2>5 DEF Duplicate
    <3> QED
      BY <2>3, <3>1
  <2> QED
    BY <2>1, <2>3, <2>5
<1> QED
  BY <1>2, <1>3

\* Every page of an admitted profile is allocated once, by the kernel or by a
\* unit, and the kernel knows the sizes the units allocate, for every list of
\* pages.
THEOREM PagesAllocatedOnce == Spec => []HugePagesAllocatedOnce
<1>1. OperatorInv /\ MadeInv => HugePagesAllocatedOnce
  <2> SUFFICES ASSUME OperatorInv, MadeInv, caller = "operator", Finished
               PROVE  HugePagesAllocatedOnce
    BY DEF HugePagesAllocatedOnce
  <2> DEFINE pages == Pages(profile)
             args == tuned.hugepages
             units == mc.units
             off == {i \in DOMAIN pages : ~OnNode(pages[i])}
             dummy == {i \in {0} : /\ profile.hugepages # Nil /\ profile.hugepages.default = "1G"
                                   /\ Is2MHugepagesRequested(pages)}
  <2>1. pc = "done" /\ validateFields(profile) = {} /\ profile \in Profiles
    BY DEF OperatorInv, Finished
  <2>2. /\ units = HugepagesUnits(profile) /\ args = HugepagesArgs(profile)
        /\ tuned.default = IF profile.hugepages = Nil THEN Nil ELSE profile.hugepages.default
    BY <2>1 DEF MadeInv
  <2>3. /\ \A i \in DOMAIN pages : i \in Nat /\ i # 0
        /\ \A i, j \in DOMAIN pages :
              pages[i].size = pages[j].size /\ pages[i].node = pages[j].node => i = j
    BY <2>1, AdmittedPages
  <2>4. /\ DOMAIN args = dummy \union off
        /\ \A i \in dummy : args[i] = [size |-> "2M", count |-> 0]
        /\ \A i \in off : args[i] = [size |-> pages[i].size, count |-> pages[i].count]
    BY <2>2, <2>3 DEF HugepagesArgs
  <2>10. /\ \A i \in dummy : args[i].size = "2M"
         /\ \A i \in off : args[i].size = pages[i].size
    <3> HIDE DEF pages, args, off, dummy
    <3> QED
      BY <2>4
  <2>11. \A i \in off : i \in DOMAIN pages /\ pages[i].node = Nil
    BY DEF OnNode
  <2>12. \A i \in dummy : i = 0 /\ \A l \in off : pages[l].size # "2M"
    BY DEF Is2MHugepagesRequested, PagesOf2M
  <2>5. /\ DOMAIN units = {i \in DOMAIN pages : OnNode(pages[i])}
        /\ \A i \in DOMAIN units : units[i] = pages[i]
    BY <2>2 DEF HugepagesUnits, Restrict
  <2> HIDE DEF pages, args, units
  <2>6. ASSUME NEW i \in DOMAIN args, NEW j \in DOMAIN args, args[i].size = args[j].size
        PROVE  i = j
    <3>1. ASSUME NEW k \in dummy, NEW l \in off PROVE args[k].size # args[l].size
      <4> HIDE DEF off, dummy
      <4> QED
        BY <2>10, <2>12, <3>1
    <3> HIDE DEF off, dummy
    <3>2. CASE i \in dummy /\ j \in dummy
      BY <2>12, <3>2
    <3>3. CASE i \in off /\ j \in off
      BY <2>3, <2>6, <2>10, <2>11, <3>3
    <3> QED
      BY <2>4, <2>6, <3>1, <3>2, <3>3
  <2>7. ASSUME NEW i \in DOMAIN pages, OnNode(pages[i])
        PROVE  /\ i \in DOMAIN units /\ units[i] = pages[i]
               /\ {u \in DOMAIN units : units[u].node = pages[i].node
                                        /\ units[u].size = pages[i].size} = {i}
    BY <2>3, <2>5, <2>7
  <2>8. ASSUME NEW i \in DOMAIN pages, ~OnNode(pages[i])
        PROVE  i \in DOMAIN args /\ args[i] = [size |-> pages[i].size, count |-> pages[i].count]
    BY <2>4, <2>8
  <2>9. ASSUME NEW u \in DOMAIN units, units[u].size = "2M", tuned.default = "1G"
        PROVE  \E a \in DOMAIN args : args[a].size = "2M"
    <3>1. u \in PagesOf2M(pages)
      BY <2>5, <2>9 DEF PagesOf2M
    <3>2. CASE \E l \in off : pages[l].size = "2M"
      <4> HIDE DEF off, dummy
      <4> QED
        BY <2>4, <2>10, <3>2
    <3>3. CASE ~\E l \in off : pages[l].size = "2M"
      <4>1. Is2MHugepagesRequested(pages)
        BY <3>1, <3>3 DEF Is2MHugepagesRequested, PagesOf2M
      <4>2. profile.hugepages # Nil
        BY <2>5, <2>9 DEF Pages, pages
      <4>3. profile.hugepages.default = "1G"
        BY <2>2, <2>9, <4>2
      <4>4. 0 \in dummy
        BY <4>1, <4>2, <4>3
      <4> HIDE DEF off, dummy
      <4> QED
        BY <2>4, <2>10, <4>4
    <3> QED
      BY <3>2, <3>3
  <2> QED
    BY <2>6, <2>7, <2>8, <2>9 DEF HugePagesAllocatedOnce, pages, args, units
<1> QED
  BY <1>1, OperatorInvariant, PTL

-----------------------------------------------------------------------------
(* The render command.                                                     *)

\* The manifest of this kind of the profile at this position is written.
Written(i, kind) ==
    i < pos \/ (i = pos /\ (pc = "done" \/ (pc = "write" /\ kind \notin unwritten)))

\* It is, and none of a later profile of the same name.
LastWritten(i, kind) ==
    /\ Written(i, kind)
    /\ \A j \in DOMAIN inputs : j > i /\ Written(j, kind) => inputs[j].name # inputs[i].name

\* Render's position is one of its inputs', at the end the last one, and a file
\* has the last of the profiles that were written to it.
RenderInv ==
    caller = "render" /\ pc \notin {"error", "panic"} =>
        /\ Len(inputs) \in Nat /\ DOMAIN inputs = 1..Len(inputs) /\ pos \in DOMAIN inputs
        /\ pc = "done" => pos = Len(inputs)
        /\ \A i \in DOMAIN inputs, kind \in ManifestKinds :
              LastWritten(i, kind) => /\ <<inputs[i].name, kind>> \in DOMAIN out
                                      /\ out[<<inputs[i].name, kind>>] = inputs[i]

\* Nothing is written at first.
LEMMA RenderInit == Init => RenderInv
<1> SUFFICES ASSUME Init, caller = "render" PROVE RenderInv
  BY DEF RenderInv
<1>1. pc = "options" /\ pos = 1
  BY DEF Init
<1>2. inputs # <<>> /\ inputs \in Seq(ToSet(inputs))
  <2>1. CASE inputs \in RenderInputs
    BY <2>1, ManifestsAssumption
  <2>2. CASE \E p \in Profiles : inputs = <<p>>
    <3>1. PICK p \in Profiles : inputs = <<p>>
      BY <2>2
    <3>2. ToSet(inputs) = {p}
      BY <3>1 DEF ToSet
    <3> QED
      BY <3>1, <3>2
  <2> QED
    BY <2>1, <2>2 DEF Init
<1>3. Len(inputs) \in Nat /\ DOMAIN inputs = 1..Len(inputs)
  BY <1>2, LenProperties
<1>4. Len(inputs) # 0
  BY <1>2, EmptySeq
<1>5. \A i \in DOMAIN inputs, kind \in ManifestKinds : ~Written(i, kind)
  BY <1>1, <1>3 DEF Written
<1> QED
  BY <1>1, <1>3, <1>4, <1>5 DEF RenderInv, LastWritten

\* Writing one file.
LEMMA RenderWrites ==
    ASSUME RenderInv, caller = "render", NEW kind \in ManifestKinds, WriteManifest(kind)
    PROVE  RenderInv'
<1>1. CASE pc' = "error"
  BY <1>1 DEF RenderInv
<1>2. CASE pc' # "error"
  <2> DEFINE file == <<inputs[pos].name, kind>>
  <2>1. /\ pc = "write" /\ kind \in unwritten /\ unwritten' = unwritten \ {kind}
        /\ out' = [f \in DOMAIN out \union {file} |-> IF f = file THEN inputs[pos] ELSE out[f]]
        /\ NextProfile /\ UNCHANGED <<caller, inputs>>
    BY <1>2 DEF WriteManifest, Outcome, profile
  <2>2. /\ Len(inputs) \in Nat /\ DOMAIN inputs = 1..Len(inputs) /\ pos \in DOMAIN inputs
        /\ \A i \in DOMAIN inputs, k \in ManifestKinds :
              LastWritten(i, k) => /\ <<inputs[i].name, k>> \in DOMAIN out
                                   /\ out[<<inputs[i].name, k>>] = inputs[i]
    BY <2>1 DEF RenderInv
  <2>3. /\ pos' \in DOMAIN inputs /\ (pc' = "done" => pos' = Len(inputs))
        /\ \A i \in DOMAIN inputs, k \in ManifestKinds :
              Written(i, k)' <=> Written(i, k) \/ (i = pos /\ k = kind)
    <3>1. CASE unwritten' # {}
      <4>1. UNCHANGED <<pc, pos>>
        BY <2>1, <3>1 DEF NextProfile
      <4> QED
        BY <2>1, <2>2, <4>1 DEF Written
    <3>2. CASE unwritten' = {} /\ pos = Len(inputs)
      <4>1. pc' = "done" /\ pos' = pos
        BY <2>1, <3>2 DEF NextProfile
      <4> QED
        BY <2>1, <2>2, <3>2, <4>1 DEF Written
    <3>3. CASE unwritten' = {} /\ pos # Len(inputs)
      <4>1. pc' = "read" /\ pos' = pos + 1
        BY <2>1, <3>3 DEF NextProfile
      <4> QED
        BY <2>1, <2>2, <3>3, <4>1 DEF Written
    <3> QED
      BY <3>1, <3>2, <3>3
  <2>4. \A i \in DOMAIN inputs, k \in ManifestKinds : Written(i, k) => i <= pos
    BY <2>2 DEF Written
  <2>5. ASSUME NEW i \in DOMAIN inputs, NEW k \in ManifestKinds, LastWritten(i, k)'
        PROVE  /\ <<inputs[i].name, k>> \in DOMAIN out'
               /\ out'[<<inputs[i].name, k>>] = inputs[i]
    <3>1. /\ Written(i, k)'
          /\ \A j \in DOMAIN inputs : j > i /\ Written(j, k)' => inputs[j].name # inputs[i].name
      BY <2>1, <2>5 DEF LastWritten
    <3>2. CASE k = kind /\ i = pos
      BY <2>1, <3>2
    <3>3. CASE k # kind \/ i # pos
      <4>1. LastWritten(i, k)
        BY <2>3, <3>1, <3>3 DEF LastWritten
      <4>2. <<inputs[i].name, k>> # file
        <5>1. CASE k # kind
          BY <5>1
        <5>2. CASE k = kind
          <6>0. PICK p \in DOMAIN inputs : p = pos
            BY <2>2
          <6>1. Written(p, k)'
            BY <2>3, <5>2, <6>0
          <6>2. i <= pos
            BY <2>4, <4>1 DEF LastWritten
          <6>3. pos > i
            BY <2>2, <3>3, <5>2, <6>2
          <6>4. inputs[pos].name # inputs[i].name
            BY <3>1, <6>0, <6>1, <6>3
          <6> QED
            BY <6>4
        <5> QED
          BY <5>1, <5>2
      <4>3. <<inputs[i].name, k>> \in DOMAIN out /\ out[<<inputs[i].name, k>>] = inputs[i]
        BY <2>2, <4>1
      <4> HIDE DEF file
      <4> QED
        BY <2>1, <4>2, <4>3
    <3> QED
      BY <3>2, <3>3
  <2> QED
    BY <2>1, <2>2, <2>3, <2>5 DEF RenderInv
<1> QED
  BY <1>1, <1>2

\* The other steps write nothing.
LEMMA RenderStep == KubeletInv /\ RenderInv /\ [Next]_vars => RenderInv'
<1> SUFFICES ASSUME KubeletInv, RenderInv, [Next]_vars, caller' = "render",
                    pc' \notin {"error", "panic"}
             PROVE  RenderInv'
  BY DEF RenderInv
<1>0. caller = "render"
  BY DEF Next, vars, Outcome, ValidateFields, NewMachineConfig, NewKubeletConfig,
         NewNodePerformance, NewRuntimeClass, ValidateOptions, ReadProfile, WriteManifest,
         readInput, MakeMachineConfig, writeOutput
<1>1. CASE \E kind \in ManifestKinds : WriteManifest(kind)
  BY <1>0, <1>1, RenderWrites
<1>2. CASE ~\E kind \in ManifestKinds : WriteManifest(kind)
  <2>1. pc \notin {"input", "generator", "output"}
    BY <1>0 DEF KubeletInv
  <2>2. /\ UNCHANGED <<caller, inputs, pos, out>>
        /\ \/ UNCHANGED <<pc, unwritten>>
           \/ pc \notin {"write", "done"} /\ pc' \notin {"write", "done"}
           \/ pc \notin {"write", "done"} /\ pc' = "write" /\ unwritten' = ManifestKinds
    <3>1. CASE ValidateFields \/ ValidateOptions \/ ReadProfile
      BY <3>1 DEF ValidateFields, ValidateOptions, ReadProfile, Outcome
    <3>2. CASE NewMachineConfig
      BY <3>2 DEF NewMachineConfig, Outcome
    <3>3. CASE NewKubeletConfig
      BY <3>3 DEF NewKubeletConfig, Outcome
    <3>4. CASE NewNodePerformance
      BY <3>4 DEF NewNodePerformance, Outcome
    <3>5. CASE NewRuntimeClass
      BY <1>0, <3>5 DEF NewRuntimeClass
    <3>6. CASE readInput \/ MakeMachineConfig \/ writeOutput
      BY <2>1, <3>6 DEF readInput, MakeMachineConfig, writeOutput
    <3>7. CASE UNCHANGED vars
      BY <3>7 DEF vars
    <3> QED
      BY <1>2, <3>1, <3>2, <3>3, <3>4, <3>5, <3>6, <3>7 DEF Next
  <2>3. pc \notin {"error", "panic"}
    BY <1>2 DEF Next, vars, Outcome, ValidateFields, NewMachineConfig, NewKubeletConfig,
                NewNodePerformance, NewRuntimeClass, ValidateOptions, ReadProfile,
                readInput, MakeMachineConfig, writeOutput
  <2>4. \A i, kind : kind \in ManifestKinds => (Written(i, kind)' <=> Written(i, kind))
    BY <2>2 DEF Written
  <2>5. \A i \in DOMAIN inputs, kind \in ManifestKinds :
           LastWritten(i, kind)' <=> LastWritten(i, kind)
    BY <2>2, <2>4 DEF LastWritten
  <2>6. pc' = "done" => pc = "done"
    BY <2>2
  <2> QED
    BY <1>0, <2>2, <2>3, <2>5, <2>6 DEF RenderInv
<1> QED
  BY <1>1, <1>2

\* When render ends well, every file is the last profile's of its name, for
\* every list of profiles, whatever the order in which the manifests of a
\* profile are written.
THEOREM RendersAll == Spec => []RenderedWhole
<1>1. RenderInv => RenderedWhole
  <2> SUFFICES ASSUME RenderInv, caller = "render", pc = "done",
                      NEW i \in DOMAIN inputs, NEW kind \in ManifestKinds
               PROVE  out[<<inputs[i].name, kind>>] =
                         inputs[Max({j \in DOMAIN inputs : inputs[j].name = inputs[i].name})]
    BY DEF RenderedWhole
  <2> DEFINE same == {j \in DOMAIN inputs : inputs[j].name = inputs[i].name}
             last == Max(same)
  <2>1. Len(inputs) \in Nat /\ DOMAIN inputs = 1..Len(inputs) /\ pos = Len(inputs)
    BY DEF RenderInv
  <2>2. same \in SUBSET Nat /\ same # {} /\ \A j \in same : j <= Len(inputs)
    BY <2>1
  <2>3. last \in same /\ \A j \in same : j <= last
    <3> HIDE DEF same
    <3> QED
      BY <2>1, <2>2, GreatestNatural
  <2>4. last \in DOMAIN inputs /\ inputs[last].name = inputs[i].name
    BY <2>3
  <2>5. \A j \in DOMAIN inputs : j > last => inputs[j].name # inputs[last].name
    <3> HIDE DEF last
    <3>1. ASSUME NEW j \in DOMAIN inputs, j > last, inputs[j].name = inputs[last].name
          PROVE  FALSE
      <4>1. j \in same
        BY <2>4, <3>1
      <4>2. j <= last /\ last \in Nat /\ j \in Nat
        BY <2>1, <2>3, <2>4, <4>1
      <4> QED
        BY <3>1, <4>2
    <3> QED
      BY <3>1
  <2> HIDE DEF last
  <2>6. LastWritten(last, kind)
    BY <2>1, <2>4, <2>5 DEF LastWritten, Written
  <2>7. out[<<inputs[last].name, kind>>] = inputs[last]
    BY <2>4, <2>6 DEF RenderInv
  <2> QED
    BY <2>4, <2>7 DEF last
<1>2. Init => KubeletInv
  BY DEF Init, KubeletInv
<1> QED
  BY <1>1, <1>2, KubeletStep, RenderInit, RenderStep, PTL DEF Spec
=============================================================================
