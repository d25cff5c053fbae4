-------------------------- MODULE ProfileConversion --------------------------
(***************************************************************************)
(* The three served versions of a PerformanceProfile and the conversion    *)
(* webhook: api/v1alpha1 and api/v2 convert to and from the hub, api/v1.   *)
(* The API server stores version v2.  A client of an older version sees    *)
(* the stored profile converted to its version, changes a field, and what  *)
(* it writes is converted back.                                            *)
(*                                                                         *)
(* A profile is a function on the fields that are set; a field that is nil *)
(* is not in its domain.  A field inside a section is set only when the    *)
(* section is.  "empty" is the value of a map or list that is set without  *)
(* having elements.                                                        *)
(***************************************************************************)
EXTENDS Functions

CONSTANTS
    EditFields,  \* the fields that clients edit in the instance
    Values       \* values of the fields other than sections and flags

Sections == {"cpu", "hugepages", "realTimeKernel", "numa", "net"}

Irq == "globallyDisableIrqLoadBalancing"

StatusFields == {"status.conditions", "status.tuned", "status.runtimeClass"}

AlphaSectionFields ==
    [cpu            |-> {"cpu.reserved", "cpu.isolated", "cpu.balanceIsolated"},
     hugepages      |-> {"hugepages.defaultHugepagesSize", "hugepages.pages"},
     realTimeKernel |-> {"realTimeKernel.enabled"},
     numa           |-> {"numa.topologyPolicy"}]

\* v1 and v2 have one section more.
SectionFields ==
    [s \in Sections |-> IF s = "net" THEN {"net.userLevelNetworking", "net.devices"}
                       ELSE AlphaSectionFields[s]]

AlphaFields ==
    {"cpu", "hugepages", "machineConfigLabel", "machineConfigPoolSelector", "nodeSelector",
     "realTimeKernel", "additionalKernelArgs", "numa"}
        \union StatusFields \union (UNION {AlphaSectionFields[s] : s \in Sections \ {"net"}})

Fields == AlphaFields \union {"net", Irq} \union SectionFields["net"]

\* The section a field is in.
Parent(f) == {s \in Sections : f \in SectionFields[s]}

\* Maps and lists tagged omitempty: an empty one is not encoded.
Omitted == {"machineConfigLabel", "machineConfigPoolSelector", "additionalKernelArgs",
            "hugepages.pages", "net.devices", "status.conditions"}

ValuesOf(f) ==
    IF f \in Sections THEN {"section"}
    ELSE IF f = Irq THEN {"true", "false"}
    ELSE Values \union {v \in {"empty"} : f \in Omitted}

\* Without these a profile is refused.
Required == {"cpu", "cpu.reserved", "cpu.isolated", "nodeSelector"}

Versions == {"v1alpha1", "v1", "v2"}

VARIABLES
    stored,   \* the profile in the API server, in version v2
    last      \* the version and the field of the last update

vars == <<stored, last>>

-----------------------------------------------------------------------------
(* The conversions.                                                        *)

\* v2.ConvertTo: each field that is set is copied.
V2ToHub(p) == [f \in DOMAIN p \intersect Fields |-> p[f]]

\* Mutant: the flag is copied like the other fields.
V2FromHubNoDefault(h) == [f \in DOMAIN h \intersect Fields |-> h[f]]

\* v2.ConvertFrom: the same, but the flag for the IRQs is always set.
V2FromHub(h) ==
    [f \in (DOMAIN h \intersect Fields) \union {Irq} |->
        IF f \in DOMAIN h THEN h[f] ELSE "true"]

\* v1alpha1.ConvertTo and ConvertFrom copy the fields that v1alpha1 has.
AlphaToHub(p) == [f \in DOMAIN p \intersect AlphaFields |-> p[f]]

\* Mutant: the huge pages of a NUMA node are forgotten.
AlphaFromHubNoPages(h) ==
    [f \in (DOMAIN h \intersect AlphaFields) \ {"hugepages.pages"} |-> h[f]]

AlphaFromHub(h) == [f \in DOMAIN h \intersect AlphaFields |-> h[f]]

\* The JSON of a converted object.
Encoded(p) == Restrict(p, {f \in DOMAIN p : f \notin Omitted \/ p[f] # "empty"})

\* The API server asks the webhook when the versions differ.
View(version, p) ==
    CASE version = "v2" -> p
      [] version = "v1" -> Encoded(V2ToHub(p))
      [] version = "v1alpha1" -> Encoded(AlphaFromHub(V2ToHub(p)))

Unview(version, p) ==
    CASE version = "v2" -> p
      [] version = "v1" -> Encoded(V2FromHub(p))
      [] version = "v1alpha1" -> Encoded(V2FromHub(AlphaToHub(p)))

-----------------------------------------------------------------------------
(* The clients.                                                            *)

FieldsOf(version) == IF version = "v1alpha1" THEN AlphaFields ELSE Fields

\* A field is set, with the section it is in, or is removed with what is in it.
SetField(p, f, v) ==
    [g \in DOMAIN p \union {f} \union Parent(f) |->
        IF g = f THEN v ELSE IF g \in DOMAIN p THEN p[g] ELSE "section"]

RemoveField(p, f) == Restrict(p, {g \in DOMAIN p : g # f /\ f \notin Parent(g)})

Edits(p, f) == {SetField(p, f, v) : v \in ValuesOf(f)} \union {RemoveField(p, f)}

\* A client of v2 has created a profile with what is required; by the edits
\* of such clients it becomes any other.
Init ==
    /\ stored \in {p \in [Required -> Values \union {"section"}] :
                      \A f \in Required : p[f] \in ValuesOf(f)}
    /\ last = [version |-> "v2", field |-> "cpu"]

\* Read, modify and write in one version; a conflicting write in between makes
\* the client start again.
Update(version, f) ==
    /\ f \in FieldsOf(version)
    /\ \E q \in Edits(View(version, stored), f) : stored' = Unview(version, q)
    /\ Required \subseteq DOMAIN stored'
    /\ last' = [version |-> version, field |-> f]

Next == \E version \in Versions, f \in EditFields : Update(version, f)

Spec == Init /\ [][Next]_vars

-----------------------------------------------------------------------------
(* Properties.                                                             *)

Value(p, f) == IF f \in DOMAIN p THEN {p[f]} \ {"empty"} ELSE {}

\* The fields an edit of f may touch: f, its section, and what is in it.
Touched(f) == {f} \union Parent(f) \union {g \in Fields : f \in Parent(g)}

\* An update through any version keeps the value of every field that version
\* has, but for the field that the client edits and for the flag of the IRQs
\* where it was not set: nothing is lost on the way to the hub and back, and no
\* default replaces a value.  (An empty map or list counts as one that is not
\* set.)
CommonFieldsKept ==
    [][\A g \in FieldsOf(last'.version) \ Touched(last'.field) :
          \/ Value(stored', g) = Value(stored, g)
          \/ g = Irq /\ Value(stored, g) = {} /\ last'.version = "v1"]_vars

\* What the operator makes of the flag: one that is not set counts as false.
IrqDisabled(p) == Value(p, Irq) = {"true"}

\* The injected value is there "to keep the legacy behaviour"
\* (docs/api-versions.md:17): where the balancing of IRQs is switched off, only a
\* client that edits the flag switches it on again, although v1alpha1 does not
\* have the flag and loses it both ways.
IrqStaysDisabled ==
    [][last'.field # Irq /\ IrqDisabled(stored) => IrqDisabled(stored')]_vars
=============================================================================
