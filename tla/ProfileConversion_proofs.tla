----------------------- MODULE ProfileConversion_proofs -----------------------
(***************************************************************************)
(* CommonFieldsKept and IrqStaysDisabled for every set of values and of    *)
(* edited fields: each step between the stored profile and the client's    *)
(* copy, and the client's edit itself, keep the value of a field that is   *)
(* not edited.                                                             *)
(***************************************************************************)
EXTENDS ProfileConversion, TLAPS

\* v1alpha1 has no flag for the IRQs.
LEMMA IrqNotAlpha == Irq \notin AlphaFields
  <1>1. \A s \in Sections \ {"net"} : Irq \notin AlphaSectionFields[s]
    BY DEF Sections, AlphaSectionFields, Irq
  <1>2. Irq \notin UNION {AlphaSectionFields[s] : s \in Sections \ {"net"}}
    BY <1>1
  <1> QED
    BY <1>2 DEF AlphaFields, StatusFields, Irq

\* The conversions and the encoding keep the value of a field that both sides
\* have; the one that sets the flag of the IRQs keeps it where it is set.
LEMMA ConversionsKeep ==
    ASSUME NEW p, NEW g \in Fields
    PROVE  /\ Value(V2ToHub(p), g) = Value(p, g)
           /\ g # Irq \/ Value(p, g) # {} => Value(V2FromHub(p), g) = Value(p, g)
           /\ g \in AlphaFields => Value(AlphaToHub(p), g) = Value(p, g)
           /\ g \in AlphaFields => Value(AlphaFromHub(p), g) = Value(p, g)
           /\ Value(Encoded(p), g) = Value(p, g)
  <1>1. Value(V2ToHub(p), g) = Value(p, g)
    BY DEF V2ToHub, Value
  <1>2. ASSUME g # Irq \/ g \in DOMAIN p
        PROVE  Value(V2FromHub(p), g) = Value(p, g)
    BY <1>2 DEF V2FromHub, Value
  <1>3. Value(p, g) # {} => g \in DOMAIN p
    BY DEF Value
  <1>4. g \in AlphaFields => Value(AlphaToHub(p), g) = Value(p, g)
    BY DEF AlphaToHub, Value
  <1>5. g \in AlphaFields => Value(AlphaFromHub(p), g) = Value(p, g)
    BY DEF AlphaFromHub, Value
  <1>6. Value(Encoded(p), g) = Value(p, g)
    BY DEF Encoded, Restrict, Value
  <1> QED
    BY <1>1, <1>2, <1>3, <1>4, <1>5, <1>6

\* What a client of any version sees of a field its version has, and what is
\* stored of what it writes.
LEMMA ViewsKeep ==
    ASSUME NEW p, NEW version \in Versions, NEW g \in FieldsOf(version)
    PROVE  /\ Value(View(version, p), g) = Value(p, g)
           /\ \/ Value(Unview(version, p), g) = Value(p, g)
              \/ g = Irq /\ Value(p, g) = {} /\ version = "v1"
  <1>0. g \in Fields /\ (version = "v1alpha1" => g \in AlphaFields)
    BY DEF FieldsOf, Fields
  <1>1. CASE version = "v2"
    BY <1>1 DEF View, Unview
  <1>2. CASE version = "v1"
    <2>1. View(version, p) = Encoded(V2ToHub(p)) /\ Unview(version, p) = Encoded(V2FromHub(p))
      BY <1>2 DEF View, Unview
    <2> QED
      BY <1>0, <1>2, <2>1, ConversionsKeep
  <1>3. CASE version = "v1alpha1"
    <2>1. /\ View(version, p) = Encoded(AlphaFromHub(V2ToHub(p)))
          /\ Unview(version, p) = Encoded(V2FromHub(AlphaToHub(p)))
      BY <1>3 DEF View, Unview
    <2>2. g # Irq
      BY <1>0, <1>3, IrqNotAlpha
    <2> QED
      BY <1>0, <1>3, <2>1, <2>2, ConversionsKeep
  <1> QED
    BY <1>1, <1>2, <1>3 DEF Versions

\* An edit keeps the fields it does not touch.
LEMMA EditsKeep ==
    ASSUME NEW p, NEW f, NEW q \in Edits(p, f), NEW g \in Fields \ Touched(f)
    PROVE  Value(q, g) = Value(p, g)
  <1>1. g # f /\ g \notin Parent(f) /\ f \notin Parent(g)
    BY DEF Touched
  <1>2. ASSUME NEW v, q = SetField(p, f, v) PROVE Value(q, g) = Value(p, g)
    BY <1>1, <1>2 DEF SetField, Value
  <1>3. CASE q = RemoveField(p, f)
    BY <1>1, <1>3 DEF RemoveField, Restrict, Value
  <1> QED
    BY <1>2, <1>3 DEF Edits

\* An update through any version of the API keeps every field that the version
\* has and the client does not edit; only a flag of the IRQs that was not set
\* is given a value.
THEOREM CommonKept == Spec => CommonFieldsKept
  <1>1. ASSUME [Next]_vars
        PROVE  [\A g \in FieldsOf(last'.version) \ Touched(last'.field) :
                   \/ Value(stored', g) = Value(stored, g)
                   \/ g = Irq /\ Value(stored, g) = {} /\ last'.version = "v1"]_vars
    <2>1. CASE UNCHANGED vars
      BY <2>1
    <2>2. ASSUME NEW version \in Versions, NEW f \in EditFields, Update(version, f)
          PROVE  \A g \in FieldsOf(last'.version) \ Touched(last'.field) :
                     \/ Value(stored', g) = Value(stored, g)
                     \/ g = Irq /\ Value(stored, g) = {} /\ last'.version = "v1"
      <3>1. PICK q \in Edits(View(version, stored), f) : stored' = Unview(version, q)
        BY <2>2 DEF Update
      <3>2. last'.field = f /\ last'.version = version
        BY <2>2 DEF Update
      <3>3. ASSUME NEW g \in FieldsOf(version) \ Touched(f)
            PROVE  \/ Value(stored', g) = Value(stored, g)
                   \/ g = Irq /\ Value(stored, g) = {} /\ version = "v1"
        <4>1. \/ Value(stored', g) = Value(q, g)
              \/ g = Irq /\ Value(q, g) = {} /\ version = "v1"
          BY <3>1, ViewsKeep
        <4>2. Value(q, g) = Value(View(version, stored), g)
          BY EditsKeep DEF Fields, FieldsOf
        <4>3. Value(View(version, stored), g) = Value(stored, g)
          BY ViewsKeep
        <4> QED
          BY <4>1, <4>2, <4>3
      <3> QED
        BY <3>2, <3>3
    <2> QED
      BY <1>1, <2>1, <2>2 DEF Next
  <1> QED
    BY <1>1, PTL DEF Spec, CommonFieldsKept

\* Where the flag of the IRQs is set to true it stays so, whichever version
\* another field is edited in: v1 and v2 keep it, and for v1alpha1, which drops
\* it, the conversion from the hub puts it back.
THEOREM IrqStays == Spec => IrqStaysDisabled
  <1>1. ASSUME [Next]_vars
        PROVE  [last'.field # Irq /\ IrqDisabled(stored) => IrqDisabled(stored')]_vars
    <2>1. CASE UNCHANGED vars
      BY <2>1
    <2>2. ASSUME NEW version \in Versions, NEW f \in EditFields, Update(version, f),
                 last'.field # Irq, IrqDisabled(stored)
          PROVE  IrqDisabled(stored')
      <3>1. PICK q \in Edits(View(version, stored), f) : stored' = Unview(version, q)
        BY <2>2 DEF Update
      <3>2. last'.field = f
        BY <2>2 DEF Update
      <3>3. Irq \in Fields \ Touched(f)
        <4>1. Irq \notin Parent(f)
          BY DEF Parent, Sections, Irq
        <4>2. \A s \in Sections : Irq \notin SectionFields[s]
          BY DEF SectionFields, AlphaSectionFields, Sections, Irq
        <4>3. f \notin Parent(Irq)
          BY <4>2 DEF Parent
        <4> QED
          BY <2>2, <3>2, <4>1, <4>3 DEF Touched, Fields
      <3>4. CASE version \in {"v1", "v2"}
        <4>1. Irq \in FieldsOf(version)
          BY <3>3, <3>4 DEF FieldsOf
        <4>2. Value(q, Irq) = Value(stored, Irq)
          BY <3>3, <4>1, EditsKeep, ViewsKeep
        <4>3. Value(q, Irq) # {}
          BY <2>2, <4>2 DEF IrqDisabled
        <4>4. Value(stored', Irq) = Value(q, Irq)
          BY <3>1, <4>1, <4>3, ViewsKeep
        <4> QED
          BY <2>2, <4>2, <4>4 DEF IrqDisabled
      <3>5. CASE version = "v1alpha1"
        <4>1. Irq \notin DOMAIN AlphaToHub(q)
          BY IrqNotAlpha DEF AlphaToHub
        <4>2. V2FromHub(AlphaToHub(q))[Irq] = "true" /\ Irq \in DOMAIN V2FromHub(AlphaToHub(q))
          BY <4>1 DEF V2FromHub
        <4>3. Value(V2FromHub(AlphaToHub(q)), Irq) = {"true"}
          BY <4>2 DEF Value
        <4>4. stored' = Encoded(V2FromHub(AlphaToHub(q)))
          BY <3>1, <3>5 DEF Unview
        <4> QED
          BY <3>3, <4>3, <4>4, ConversionsKeep DEF IrqDisabled
      <3> QED
        BY <3>4, <3>5 DEF Versions
    <2> QED
      BY <1>1, <2>1, <2>2 DEF Next
  <1> QED
    BY <1>1, PTL DEF Spec, IrqStaysDisabled
=============================================================================
