# Performance addon operator: TLA+ specifications

The performance addon operator turns one cluster-wide resource, a
`PerformanceProfile`, into a `MachineConfig`, a `KubeletConfig`, a `Tuned` and a
`RuntimeClass`, and reports in the profile's status how the nodes fare with them.
Beside the operator the repository has a validating and a converting webhook, a
command-line tool that proposes a profile for given hardware, and build tools.

These specifications model the parts that carry decisions: the reconcile loop with
the caches and watches it depends on, the status it reports, the admission of
profiles, the conversion between API versions, the generation of the manifests, and
the profile creator from the snapshots of the nodes to the profile it prints. TLC
checks them on small instances; TLAPS proves their safety properties for every
instance.

## 1. Inventory

| Part | State | Operations | Interacts with | Hard to get right |
|---|---|---|---|---|
| Reconcile loop (`controllers/performanceprofile_controller.go`) | none of its own: cached profile, components and pools; the key in a workqueue | `Reconcile`, `applyComponents`, `deleteComponents`, the finalizer, watches with predicates and mapping functions | reads informer caches, writes to the API server, woken by watch events | decisions on stale copies; one failed write of several; events that a predicate drops; a profile deleted, recreated or paused during a reconcile; restarts |
| Component resources (`controllers/resources.go`) | the components in the API server and in the caches | `getMutated*`, `createOrUpdate*`, `delete*`, `removeOutdatedTuned` | called by the loop | the cache is read twice and may change in between; conflicts; lost responses; order of removal and creation on upgrade |
| Status (`controllers/status.go`) | the profile's conditions | `updateStatus`, digests of pool, kubelet config and Tuned conditions | called by the loop | a swallowed error; conditions computed from older reads; ties between timestamps; an address of a loop variable; nodes that are not watched |
| Operator process (`main.go`) | - | start, leader election | - | a crash between two writes |
| Admission webhook (`api/v2/performanceprofile_validation.go`) | none: the cached list of profiles | `ValidateCreate`, `ValidateUpdate`, `ValidateDelete` | called by the API server for every Create and Update, also those of the loop | check and storage are two steps; the operator's own Updates are refused too |
| Conversion (`api/*/performanceprofile_conversion.go`) | the stored profile, in v2 | `ConvertTo`, `ConvertFrom` of v1alpha1 and v2, hub v1 | called by the API server for clients of each version | fields that one version does not have; a default set on the way |
| Manifest generation (`pkg/controller/performanceprofile/components`) | none | `GetNewComponents` | called by the loop and by the render command | optional fields that are not set; sections that depend on each other |
| CPU masks (`components/utils.go`) | none | `CPUListToMaskList`, `CPUMaskToCPUSet` | manifest generation | CPUs from 256 on |
| Render command (`pkg/cmd/render`) | output files | options, one profile after the other | manifest generation, without validation | files of the same name, a failure half way |
| Huge pages generator (`tools/hugepages-machineconfig-generator`) | one output file | read, generate, write | manifest generation | a panic it recovers from |
| Sysinfo gathering (`tools/gather-sysinfo`, `must-gather/collection-scripts/gather_nodes`) | a scratch directory, an archive per node | `snapshot` on every node | feeds the profile creator | failures that leave an empty archive; files named twice |
| Profile creator (`pkg/profilecreator`, `cmd/performance-profile-creator`) | the topology of the nodes | choice of pool, nodes and selectors; `GetReservedAndIsolatedCPUs` | reads a must-gather archive, prints a profile for the webhook | uneven topologies, remainders, sibling threads, threads switched off; files that cannot be read |
| Build and documentation tools, functional tests | files; a test cluster | - | - | nothing of the operator's own logic |

What makes each part correct:

- the loop: it works only for profiles that it holds by its finalizer; a deleted
  profile goes away; when nothing happens any more the components and the status
  are what the profile asks for; the old Tuned is gone before the new one is there;
- the webhook: no two profiles with the same node selector are deployed, and a valid
  deletion is never blocked;
- the conversion: a client of an older version loses nothing it did not touch;
- the status: no report gets lost, Degraded names what is wrong and nothing else;
- the manifests: what is admitted can be generated, and the four manifests of a
  profile agree with each other;
- the profile creator: as many CPUs reserved as asked for, balanced if split, with
  sibling threads on the same side and something left to isolate; a profile that is
  admitted, selects its pool and applies to nodes that are alike.

## 2. Modules

### PerformanceProfileController

One profile, one worker, one operator process. The API server's objects are
`profile`, `objs`, `pool` and `tunedFails`; the informer caches are the same names
with a `c`. `events` is the set of sources whose watch event is under way: a write
puts its source there if the change passes the predicate of `SetupWithManager`, and
the source's `Deliver` action updates the cache and queues the key. `pc` and the
variables after it are the frame of the running `Reconcile`.

| Code | Actions |
|---|---|
| `Reconcile` up to the checks of deletion timestamp and finalizer | `Reconcile`, `Path` |
| `deleteComponents`, `isComponentsExist`, removal of the finalizer | `deleteComponents` (one step per kind), `releaseFinalizer` |
| adding the finalizer | `addFinalizer` |
| `getMachineConfigPoolByProfile`, `validateProfileMachineConfigPool` | `findPool` |
| `deleteDeprecatedComponents` | the same |
| `applyComponents` | `applyComponents` (pause, generation, `getMutated*`), `createOrUpdateComponent` (one step per kind, `removeOutdatedTuned` before the Tuned) |
| the conditions of kubelet config, pool and Tuned | `getConditions` |
| `updateStatus`, `updateDegradedCondition` | `updateStatus`, `Degrade` |
| the watches | `ObjEvent`, `PoolEvent`, `Observe`, `Deliver*` |
| process restart | `Restart` |

The environment: administrators create, edit, pause and delete the profile, edit or
delete components by hand and change pools; the machine config and node tuning
operators report status; the garbage collector removes components whose owner is
gone; other controllers hold finalizers.

How the abstraction is justified:

- A reconcile has one step per API write. The cache reads before a write belong to
  its step: an informer's delivery between the reads and the write commutes with
  the write, so it can be taken to come after. Where the code reads the cache twice
  with other writes in between (`getMutated*`, then `createOrUpdate*`) the model does
  too.
- `resourceVersion` is abstracted to the object's value. A write through a stale copy
  is refused when the object differs from the copy. An object that changed and
  changed back would be refused by the version number; that case is one of the
  rejected calls of `Call`, as are refusals by the webhook.
- `Call` lets any call fail that the server would accept, before or after it took
  effect. Each such failure counts as one of `MaxFaults`.
- Informers may coalesce any number of changes into one delivery; the events of
  these changes are judged one by one when they are written and are not lost.
- Components are reduced to a content, an owner and, for the kubelet config, whether
  its latest condition is a failure. The content comes from the constant function
  `Manifest`, and specs in `BadSpecs` cannot be rendered.
- The history variable `poolKnown` says whether the operator has listed the pools as
  they are since one was last created, deleted or relabelled, without a failure
  since: of those changes it is not told, and a failed listing is not repeated. No
  action depends on it.
- All pools together are one record: `config` says whether exactly one pool matches
  the profile and consumes its machine config. "unmatched" also stands for several
  matching pools, which the code treats alike. The pool selector of the kubelet
  config is taken from the profile's spec.
- `getMachineConfigPoolByProfile` counts the pools without duplicates and then takes
  as many from the list that still has them
  (`performanceprofile_controller.go:549`). The list is that of one namespace cache
  followed by that of the other, each with every pool once: while the two caches
  agree the first half is right. In the moment in which only one of them has seen a
  new or a deleted pool, a pool may be missed or looked at twice. The outcome is then
  that of a missing pool, of several, or of the older list; the model has the first
  two as the failed listing of `findPool` and the third as a cache that lags behind.
- A `Tuned` list names each object of the tuned namespace twice, because the
  manager's cache is built for that namespace and for all namespaces (`main.go`); the
  second deletion may therefore fail (`removeOutdatedTuned`).
- `Restart` joins the crash and the start of the next process: between them nothing
  happens that cannot happen before or after.

### ProfileLifecycle

The abstract specification of the loop: a profile is created, held, deleted,
released and vanishes; components are deployed for the incarnation that is held,
never change hands, and may be removed. There are no caches, queue or calls in it.
`PerformanceProfileController` implements it (`ImplementsLifecycle`) under the
mapping at its `INSTANCE`: the incarnation is the last uid given out, the owner of a
component is that of the stored object. That components may be removed at any time,
and the hold be given up before they are gone, is as much as the code keeps: see the
run stale_release.

### StatusConditions

The reports `status.go` digests, which the controller model reduces to a flag each:
the KubeletConfig's list of conditions with times in seconds, the pool's, and the
list of conditions of each node's Tuned profile, in any order and with or without a
text, together with the nodes the profile selects. `getKubeletConditions`,
`getMCPDegradedCondition` and `getTunedConditions` follow the code's loops
(`TunedFails` has the loop variable whose address is kept), `Announces` the
predicates, `Deliver` the mapping of a pool and of a node's Tuned profile to the
profile, `updateStatus` the comparison with the stored condition and the conflict
with a newer one. The profile and its components stay as they are. `Texts` are the
texts of conditions, of which `NoText` is the empty one. `NewestReports` are the
KubeletConfig's reports of the last second in which there is one: times have whole
seconds, the code keeps one of those that share the greatest, and no document says
which. `StatusTrue` holds the status to one of them, to the texts of the pool's
failing conditions, and to what the code quotes of each failing node (`Quoted`), the
last condition of its list. `Mute` is a node of which that condition has no text: the
code does not name it.

### ProfileAdmission

Several profiles, the webhook's check for duplicate node selectors and the two
Updates in which `Reconcile` changes a profile's finalizers. A request is first
reviewed against `cache` (`Review`, `Admit`) and later stored if the object has not
changed (`Store`). Fields other than the node selector are taken to be valid;
`PerformanceProfileController` has the rest of the reconcile loop. One replica of the
operator serves the webhook, as in the deployment the operator ships with.

### ProfileConversion

One stored profile, a function from the fields that are set to values, and clients
that read it in their version, edit one field and write it back. `V2ToHub`,
`V2FromHub`, `AlphaToHub` and `AlphaFromHub` are the four conversion functions;
`View` and `Unview` are what the API server makes of them; `Encoded` is the effect
of `omitempty` on empty maps and lists. `SectionFields` and `AlphaSectionFields` give
the fields of each section in v1 and v2, and in v1alpha1; a field inside a section
that is not set is not set either. Profiles without the required fields are refused.

### ProfileValidation, CPUMask

Operators only. `validateFields` gives the set of the fields the webhook refuses; a
spec is a record whose optional parts may be `Nil`, and `Bad` stands for a text that
does not parse. `CPUMask` has the masks digit by digit: `CPUListToMaskList` with its
leading zeros, chunks and the loop's end, and `CPUMaskToCPUSet`.

### ProfileManifests

One call of the operator, of the render command or of the huge pages generator, one
step per manifest, as `GetNewComponents` makes them: the machine config, the kubelet
config, the Tuned, the runtime class. The operator's profile is validated first;
render and the generator validate nothing. A manifest is a record of the parts the
profile decides; templates, paths and unit texts are left out. The kubelet config
starts from the snippet of the profile's annotation, whose own reserved CPUs remain
when the profile has none, as render allows. Panics and errors are
values of `pc`. Render writes the manifests of a profile in any order, since it
iterates over a map.

### ReservedCPUs

`GetReservedAndIsolatedCPUs`, one step for the checks and one per NUMA node. The
initial states are all topologies up to the bounds and all arguments: every core has
a number of threads of its own, as when threads are off line, and NUMA nodes without
cores are included. A machine without any NUMA node, on which the split would divide
by zero (`profilecreator.go:390`), is not: the topology comes from sysfs, and a
Linux kernel without NUMA support reports its CPUs as node 0. A CPU is the triple of
its NUMA node, core and thread; the order of `AddCores` is that of the sorted
topology.

### SysinfoSnapshot, ProfileCreator

`ProfileCreator` extends `ReservedCPUs`, `SysinfoSnapshot` and uses
`ProfileValidation`: must-gather visits the nodes (`gather_nodes`), then the command
checks its flags, reads pools, nodes and snapshots, and either shows them or finds
the pool's nodes, compares their hardware, allocates CPUs and prints the profile.
`SysinfoSnapshot` is the snapshot command with the calls that can fail on a host;
its options are those the script passes, though `makeSnapshot` has the others too.
The nodes of a cluster are a set, since nothing depends on the order in which their
files are read. A label is a key with or without a value, so that `Exists` and
`DoesNotExist` also stand for `In` and `NotIn`; a pool's selector may be one that
`LabelSelectorAsSelector` refuses (`Bad`). `MarshallObject` is the part of
`pkg/utils/csvtools` that prints the profile. `IsCluster` says what a cluster is
before must-gather has visited it. What ghw copies, packs and reads is external.
Packing that fails leaves something that does not unpack. `ReservedCPUs` describes
the first node of the pool; the other nodes have an abstract `hardware`.

### MC modules

`MCController` has the manifest function of the controller's instances: two specs
that differ in the machine config and the Tuned only, as when huge pages change.
`MCStatus`, `MCManifests` and `MCCreator` have the reports, profiles, clusters and
command lines of theirs. Admission and conversion need no more than the values in
their configurations.

### Proof modules

`PerformanceProfileController_proofs`, `ProfileLifecycle_proofs`,
`StatusConditions_proofs`, `ProfileAdmission_proofs`, `ProfileConversion_proofs`,
`ProfileManifests_proofs` (with the masks of `CPUMask` and the render command),
`ProfileCreator_proofs` (with `ReservedCPUs` and `SysinfoSnapshot`), and
`NaturalsOrder`, the facts about natural numbers that several of them cite: see
section 5.

## 3. Runs

Passing runs:

| Run | Property | Instance |
|---|---|---|
| lifecycle | `FinalizerHeldWhileWorking`, `OutdatedTunedRemovedFirst`, `ImplementsLifecycle`, `CreatedForHeldProfile` | two incarnations, the first one new or left by an older release with its objects, one deletion, one fault or restart |
| settle | `TypeOK`, `SettledIsConverged`, `PausedEditsKept` | two outside events of any kind |
| deletion | `DeletionCompletes` (fair) | one incarnation, deletion with and without a foreign finalizer, one fault |
| convergence | `SettledIsConverged`, `EventuallyConverged` (fair) | a good spec and one that cannot be rendered; one edit, manual change, report, change of the pools, or an upgrade with an outdated Tuned; one fault or restart |
| admission | `HeldSelectorsUnique`, `UniqueDeletionCompletes` (fair) | two names, three creations, two selectors, one edit of a selector, two requests under way |
| conversion | `CommonFieldsKept`, `IrqStaysDisabled` | seven fields, among them a section and its content, a list, a field that v1alpha1 does not have and the IRQ flag |
| profile_creator | `TypeOK`, `SequentialExact`, `SiblingsTogether`, `SplitOfTwoExact`; `CreatedIsAdmitted`, `SelectsThePool`, `AppliesToComparedNodes`, `NamesOnlineCPUs`, `PanicsExplained`, `ComparedNodesAlike`, `GatheredIsTrue` | every allocation on up to three NUMA nodes with none to two cores of one or two threads each; a small allocation on clusters of up to two nodes and four pools with every combination of labels, taints, hardware and failures, and on every command line |
| manifests | `AdmittedIsGenerated`, `HugePagesAllocatedOnce`, `ReservedAgree`, `KubeletMemoryBalanced`, `RenderedWhole` | the sections of a profile varied in groups, up to three huge page entries, CPUs up to 287; render with up to two profiles |
| status | `SettledStatusTrue`, `StatusEventuallyTrue` (fair) | two nodes, three changes within two seconds |

Why the bounds are enough for the cases that matter. Two incarnations are needed for
a copy of a profile to be confused with its successor. One fault suffices to cut a
reconcile at every write, before or after its effect, and to restart the process at
every point; the steps after it start from what it left. Two outside events let one
arrive while the operator deals with the other. Two names and three creations let
two reviews race and a profile come back under its name while a request for its
predecessor is under way. Three NUMA nodes give remainders 0, 1 and 2, and two cores
a core with one thread before and after one with two. Two seconds give reports of
the same and of different times, and three changes let a third party's report arrive
between the operator's read and write of another. Two pages decide every case of the
huge page loop, and three put an entry on each side of the one that decides. CPUs
256 and 287 are the first after 64 digits and the last of the chunk that follows.

What the properties leave open is part of what they show. `CreatedIsAdmitted`,
`AdmittedIsGenerated`, `PanicsExplained` and `StatusTrue` name each case in which the
code does not do what one would like: a pool selected by several labels or
expressions, a topology policy in other letters, no CPU left to isolate; a net section
without `userLevelNetworking`, on which the operator panics at every reconcile; a
master pool that cannot be read, a NUMA node without cores; a report whose quoted text
is empty. `ReservedAgree` has the width of a mask, `SiblingsTogether` cores that all
have two threads, `CommonFieldsKept` the fields of the client's version as a premise.
What happens outside these premises is listed below.

Runs that show a disagreement between the code and what its comments, tests or
documents say. Each expects the violation.

| Run | What happens |
|---|---|
| stale_release | The finalizer is removed while a component exists that the caches have not seen yet; only the garbage collector removes it. |
| blocked_deletion | Two creations reviewed close to each other are both stored with the same node selector; then the webhook refuses the Update that removes the finalizer of a deleted profile as long as another profile has its node selector. |
| split_over_count | Splitting one CPU over three NUMA nodes reserves two. |

Further disagreements that the models show in a few steps, or in every behaviour,
and that have no run of their own:

- The Progressing conditions set together with the finalizer
  (`performanceprofile_controller.go:277`) are sent through `Update`, which ignores
  the status of a kind with a status subresource; they are never stored
  (`addFinalizer`).
- `IsPaused` is asked once per reconcile. A reconcile that began before the pause
  annotation was set still overwrites manual changes made under it
  (`applyComponents`, then `createOrUpdate`).
- A pool that is deleted, or whose selectors or labels are edited, raises no event
  that reaches the profile; its status stays as it was until the resync
  (`PoolEvent`, `DeliverPool`). A failure to list the pools is reported as a missing
  pool and not retried (`findPool`). `poolKnown`, the premise of
  `SettledIsConverged`, excludes these two cases.
- The comment on the IRQ flag says 'Defaults to "false"'
  (`api/v1/performanceprofile_types.go:70`, and v2 alike), but `v2.ConvertFrom` sets it
  to true whenever the hub object has none (`V2FromHub`). `docs/api-versions.md:17` wants that for the profiles of older
  releases; it happens as well to a profile created in v2 without the flag as soon as
  a v1 client edits another field. `CommonFieldsKept` names this exception.
- `docs/api-versions.md:6` says "There are no differences between the *v1* and
  *v1alpha1* versions". v1alpha1 has neither the net section nor the IRQ flag; an
  edit through it removes the former and sets the latter (`AlphaFromHub`).
- A net section without `userLevelNetworking`, which 'Defaults to "false"'
  (`api/v2/performanceprofile_types.go:133`), is admitted, and `NewNodePerformance`
  follows the nil pointer (`tuned.go:117`). `AdmittedIsGenerated` names it.
- The "Degraded Message" of a node (`status.go:262`) is the text of the last condition
  of its list, because the address of the loop variable is kept (`status.go:248`). The
  test "should update status when TunedProfile is degraded"
  (`performanceprofile_controller_test.go:714`) expects that of the Degraded condition
  and has both conditions with the same text (`getTunedConditions`, `Quoted`).
- The mask of CPUs from 256 on has a number of digits that need not fill whole
  chunks; the last digits are lost, and the mask of 4 and 256 names other CPUs
  (`LastIndex`). The test of the masks (`utils_test.go:33`) ends at CPU 255.
- "can't allocate odd number of CPUs from a NUMA Node" (`profilecreator.go:418`, and 403
  for the split) is found out by the running total being odd. With a thread off line an
  even total may take one CPU from each of two NUMA nodes, and the second one is
  separated from its sibling.
- The count of reserved CPUs is checked against all threads of the machine before
  the profile's own setting switches hyperthreading off, so that an accepted count
  may reserve every CPU that is left. This is the premise of `SequentialExact`.
- After components were written an error of the status update is swallowed and
  nothing is requeued, although the comment at `performanceprofile_controller.go:354`
  says "we still want to requeue after some, also in case of error": `applyComponents`
  returns an empty result (`updateStatus`). The run convergence shows that later
  events or the resync repair it.
- The comment at `kubeletconfig.go:22` says that settings of the snippet annotation
  such as the memory manager policy are overridden; it is only for the policies
  restricted and single-numa-node. `KubeletMemoryBalanced` has the snippet's own
  choice as a premise.
- `--power-consumption-mode` and `--topology-manager-policy` are accepted in any
  case of the letters; the former then gives no kernel arguments, the latter escapes
  the check against `--split-reserved-cpus-across-numa` and a profile that the webhook
  refuses is printed.
- A render option that is given both as a flag and in the environment is an error
  (`ValidateOptions`), and render validates no profile.
- `validateNet` follows the CPU section without looking whether it is there, which
  ends the request with a panic of the webhook (`validatePanics`).
- A component whose labels were all removed by hand makes `mergeMaps`
  (`controllers/resources.go:23`) write into a nil map.

`CHECK_DEADLOCK FALSE` is set in the controller and admission runs, because a
cluster in which nobody asks for anything may stop, and in the runs of the creator,
the CPUs and the manifests, because a command ends.

## 4. Fairness

Weak fairness is assumed of the operator's worker (controller-runtime takes keys
from the queue as long as there are any; errors requeue the key), of the informers'
deliveries (a watch is restarted when it breaks), of the resync (controller-runtime
resyncs its informers every ten hours unless told otherwise, and `main.go` does
not), of the garbage collector, of other finalizer owners and, in
`ProfileAdmission`, of the API server's answer to a reviewed request.
`StatusConditions` assumes the same of the worker, the deliveries and the resync,
which alone tells the operator of changed node labels. In the controller the
informers have one condition together, and so has the garbage collector: no delivery
needs a turn of its own for the properties to hold, which is less than the code
gives. Nothing is assumed of administrators and status reporters, and faults are
bounded, not fair. `SettledIsConverged` is the counterpart of `EventuallyConverged`
that uses no fairness and no resync: whenever nothing is left to do, everything is
as it should be.

## 5. Proofs

| Theorem | States |
|---|---|
| `TypeCorrect` | `Spec => []TypeOK` for the controller |
| `FinalizerHeld` | `Spec => []FinalizerHeldWhileWorking` |
| `CreatedForHeld` | `Spec => CreatedForHeldProfile` |
| `PausedKept` | `Spec => PausedEditsKept` |
| `OutdatedRemovedFirst` | `Spec => []OutdatedTunedRemovedFirst` |
| `RefinesLifecycle` | `Spec => ImplementsLifecycle`: the controller implements `ProfileLifecycle` |
| `AdmissionTypeCorrect`, `HeldUnique` | types and `[]HeldSelectorsUnique` for the admission model |
| `CommonKept`, `IrqStays` | `CommonFieldsKept` and `IrqStaysDisabled` for the conversion |
| `AdmittedGenerated`, `MemoryBalanced` | `[]AdmittedIsGenerated` and `[]KubeletMemoryBalanced` for the manifests |
| `SettledConverged` | `Spec => []SettledIsConverged` for the controller |
| `SettledTrue` | `Spec => []SettledStatusTrue` for the status |
| `MaskRoundTrip` | `CPUMaskToCPUSet(CPUListToMaskList(cpus)) = cpus` when the digits fill whole chunks |
| `ReservedAlike`, `PagesAllocatedOnce` | `[]ReservedAgree` and `[]HugePagesAllocatedOnce` for the manifests |
| `RendersAll` | `Spec => []RenderedWhole` for the render command |
| `AllocationTypes`, `SequentialAllocation`, `SiblingsStayTogether`, `SplitOfTwo` | `[]TypeOK`, `[]SequentialExact`, `[]SiblingsTogether` and `[]SplitOfTwoExact` for the allocation of CPUs |
| `CreatorAllocates` | `CreatorSpec => Spec`: the creator runs that allocation |
| `CreatedPasses`, `CreatedSelectsThePool`, `AppliesToCompared`, `OnlineCPUsNamed`, `PanicsAreExplained` | `CreatedIsAdmitted`, `SelectsThePool`, `AppliesToComparedNodes`, `NamesOnlineCPUs` and `PanicsExplained`, always, for the creator |
| `GatheredTrue`, `ComparedAlike` | `[]GatheredIsTrue` and `[]ComparedNodesAlike` for snapshots and creator |

They hold for every value of the constants that satisfies the assumption named in the
module that declares them, which TLC evaluates for the instances of the runs:

- `ControllerAssumption`, `AdmissionAssumption`: the bounds are natural numbers, the
  manifest function has its type and never generates the content that stands for a
  manual change, `NoObj` is none of the objects;
- `StatusAssumption`: reports are lists of conditions, and no node has the name of
  another source of events;
- `ManifestsAssumption`: quantities are natural numbers, a CPU list that parses is a
  finite set of natural numbers, pages are a list, render has at least one profile;
- `CPUAssumption`: the bounds on NUMA nodes, on cores and on threads of a core allow one;
- `CreatorAssumption`, `SnapshotAssumption`: the clusters are clusters, with one pool
  of a name, and the values that stand for "not set" and "not readable" are none of
  the others.

The conversion theorems need no assumption. The bounds of the runs (incarnations,
faults, changes, cores) are constants of the theorems too, so nothing rests on how
small they are.

*The finalizer.* `FinalizerHeldWhileWorking` is not inductive, because `Reconcile`
decides on a cached copy. `HeldInv` adds what such a copy is worth: it is older than
the profile and never of a later incarnation (`CopiesAreOlder`), and a cached profile
that holds the finalizer and is not under deletion can be relied on
(`CachedFinalizerIsHeld`), since only a reconcile of the same worker takes the
finalizer away, and it does so only from a profile under deletion
(`DeletesDeleted`). The steps are first classified by what they do to the profile
(`ProfileMoves`), to the copies (`CopyMoves`) and to `pc` (`PcMoves`); the invariant
follows from these summaries.

*The owners.* A new component has the instance as its owner from `getMutated` until
it is created (`NewComponentsAreOwned`), and the instance is held by `HeldInv`.

*The refinement.* Each action of the controller, and of the cluster around it, is
shown to be one action of `ProfileLifecycle` or a stutter. Three facts about earlier
steps are needed: `HeldInv` for `Deploy`; `UpdatesKeepOwner`, that a component to be
written by Update carries the owner the stored object has, since a write through a
stale copy is refused; and `LastExists`, that a profile in the API server is the last
one that was created.

*The pause.* `AppliesUnpaused`: while a reconcile writes components, the
profile it has read was not paused.

*The Tuned.* `OutdatedInv`: nobody creates an outdated Tuned, so a cache without one
is right, and once `applyComponents` is past `removeOutdatedTuned` with a Tuned to
write there is none.

*The settled controller.* `SettledIsConverged` speaks of the state in which nothing
is left to do; its invariant has to say what each point of a reconcile is worth on
the way there. `SettleInv`: a cache that no event is going to refresh differs from
the API server in nothing a predicate of `SetupWithManager` lets through
(`CachesFollow`); a reconcile that nothing is going to repeat (`Unprompted`: the key
is not queued and no event for it is under way) works on the profile as it is and has
written nothing (`WorkAgrees`), since each of its writes would raise an event; if the
pools are settled too, what it has read of them and the condition it is about to
write are true (`StatusAgrees`). An error, a conflict, a restart or an edit makes the
premise false rather than the conclusion. The steps are summarised first
(`OperatorMoves` and its siblings), as for the finalizer.

*The status.* Two halves. What `getConditions` makes of reports is true of these
reports: `getLatestKubeletConfigCondition` finds a condition of the last report's
time, though not always the last one (`PoolTrue` has the pool's part), and the loop
over a node's conditions leaves the address of its last element, which is the text
the status quotes (`TunedTrue`). And `StatusInv` says that the status is what
`getConditions` makes of the caches whenever no reconcile is due, what a running one
has read still holds or it will be called again, and a cache without an event under
way is right but for the node labels.

*The node selectors.* `AdmissionInv` calls a profile claimed when it has the
finalizer or a request under way would give it one. A claimed profile is in the
cache with its uid and selector (`ClaimedIsCached`), so a review that would make a
second claim on a selector sees the first one and refuses it (`ClaimsUnique`); uids
keep requests for an earlier incarnation from applying to a later one
(`CreationsFresh`).

*The conversions.* Each of the four functions, and each client edit, keeps the value
of a field it is not about; composing them gives `CommonKept`. For `IrqStays` v1alpha1
is a case of its own: the flag is lost on both ways and set by `V2FromHub`.

*The manifests.* `OperatorInv` says what validation has established and still holds
at each later step of the operator (the CPU section is there and parses, the node
selector splits), so that the steps after it can fail only where the property says.
`KubeletInv` says that the kubelet config, once made, is `KubeletConfiguration` of the
current profile; the sum follows from the definition and from the quantities being
numbers. `MadeInv` says the same of the machine config and the Tuned; with
`AdmittedCPUs` and `AdmittedPages`, what validation says of CPU lists and of pages
given twice, it gives `ReservedAgree` and `HugePagesAllocatedOnce`.

*The masks.* A CPU is bit `cpu % 4` of digit `cpu \div 4` from the right. `DigitsEnough`:
there are digits enough for the greatest CPU. `DigitOfChunk` and `ChunkBounds` relate
the digit to its chunk and the chunk to the part of the list that is written, from the
first chunk that is not all zeros on; what is left out has no CPU. This needs the
digits to fill whole chunks, which is where the code goes wrong from CPU 256 on.

*The render command.* `RenderInv`: a file has the last of the profiles that were
written to it so far. A write to a file ends the claim of every earlier profile of the
same name, and of no other. At the end all profiles are written, and the last one of
a name is the greatest of their positions.

*The CPUs.* The CPUs of a NUMA node before a position are as many as the position
says, by a bijection. From that `AddCores` takes exactly what is missing, if the
node has it. `LoopInv` says where the loop over the NUMA nodes is; `SequentialInv`
that the loop has taken everything so far, unless it has enough; `SiblingInv` that
an even number of CPUs was taken each time, hence whole cores when all have two
threads; `SplitInv` what the first and the second of at most two NUMA nodes have
given. `SplitOfTwoExact` cannot be extended to three: see split_over_count.

*The creator.* `CreatorAllocates` brings the theorems about the allocation to the
creator. `ThreadsInv` says when hyperthreading is off and a request in range,
`FoundInv` what the stages have found out by the time the CPUs are allocated,
`StageInv` that a profile is the last thing made. The properties of a created profile
follow at the step that prints it, and the state does not change afterwards. For the
snapshots, the files that `makeSnapshot` packs are followed from the lists of
expected contents through removal of duplicates, the prefix of the mounted host and
the archive, up to the topology that is read.

*Induction.* The provers cannot instantiate the library's induction theorems, which
take an operator. `NaturalsOrder` has what the proofs need in terms of sets instead:
least and greatest elements of a set of natural numbers, from the well-foundedness of
their order, and induction as "a set with 0 and with the successor of each of its
elements has them all".

Only model-checked: the liveness properties `DeletionCompletes`,
`EventuallyConverged`, `UniqueDeletionCompletes` and `StatusEventuallyTrue`, which
need fairness and `ENABLED`, and the violations of the three runs that expect one.
Every safety property of a passing run is proved.

## 6. Not modelled

- Labels and annotations of components: a component's content is one value. The
  predicates that look at labels are modelled as passing every change of content.
- The other data that must-gather collects, and the subcommands `podres` and
  `podinfo` of gather-sysinfo, which a library implements: nothing in the repository
  reads their output.
- The tools that build the operator's bundle and its documents
  (`tools/csv-processor`, `tools/csv-replace-imageref`, `tools/docs-generator`,
  `tools/imgpull-tool`, and `pkg/utils/csvtools` but for `MarshallObject`): they
  rewrite files at build time. What csv-processor says about the webhook (which
  requests are reviewed) is an input of `ProfileAdmission`.
- The functional tests, which are read as a statement of what the operator promises.
- The internals of leader election, of which one active process is assumed; logging,
  events and messages; templates and file layouts. Generated and vendored code is
  taken as its users need it.

## 7. Plan

1. Labels and annotations as parts of a component, with the predicates that look at
   them and the nil map of `mergeMaps`.
2. A refinement of the flags of `PerformanceProfileController` by
   `StatusConditions`.
3. A bound for the split over more than two NUMA nodes: by how much the count can be
   missed.
