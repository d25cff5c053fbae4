---------------- MODULE PerformanceProfileController_proofs ----------------
(***************************************************************************)
(* Invariants of PerformanceProfileController, proved for every set of     *)
(* specs and contents and for every bound.                                 *)
(***************************************************************************)
EXTENDS PerformanceProfileController, TLAPS

-----------------------------------------------------------------------------
(* Type correctness.                                                       *)

\* Stored (the API server's handling of a finalizer-free object) yields a
\* profile or nothing.
LEMMA StoredType ==
    ASSUME NEW p \in Profile
    PROVE  Stored(p) \in Profile \union {NoObj}
BY DEF Stored

\* The events raised by a write (Observe) come from watched sources.
LEMMA ObserveType ==
    ASSUME TypeOK, Observe
    PROVE  events' \subseteq Objs \union {"profile", "pool", "tuned"}
BY DEF TypeOK, Observe

\* getMutated* yields something that createOrUpdate* can write, or nothing.
LEMMA MutatedType ==
    ASSUME TypeOK, inst \in Profile, NEW k \in Kinds
    PROVE  getMutated(k) \in Mutation \union {NoObj}
<1>1. Manifest[inst.spec][k] \in Contents
  BY ControllerAssumption DEF Profile
<1>2. inst.uid \in Nat
  BY DEF Profile
<1>3. cObjs[k] \in Component \union {NoObj}
  BY DEF TypeOK, Objs
<1>4. CASE cObjs[k] = NoObj
  BY <1>1, <1>2, <1>4 DEF getMutated, Mutation, Component
<1>5. CASE cObjs[k] # NoObj /\ cObjs[k].content = Manifest[inst.spec][k]
  BY <1>5 DEF getMutated
<1>6. CASE cObjs[k] # NoObj /\ cObjs[k].content # Manifest[inst.spec][k]
  <2>1. [cObjs[k] EXCEPT !.content = Manifest[inst.spec][k]] \in Component
    BY <1>1, <1>3, <1>6 DEF Component
  <2> QED
    BY <1>3, <1>6, <2>1 DEF getMutated, Mutation
<1> QED
  BY <1>4, <1>5, <1>6

\* What profileMCP holds between two reconciles has the type of a pool.
LEMMA NoPoolType == NoPool \in Pool
BY DEF NoPool, Pool

\* Return leaves the locals well-typed.
LEMMA ReturnType ==
    ASSUME TypeOK, NEW b \in BOOLEAN, Return(b)
    PROVE  /\ queued' \in BOOLEAN /\ result' \in BOOLEAN /\ failed' \in BOOLEAN
           /\ pc' = "idle" /\ inst' = NoObj
           /\ mutated' \in [Kinds -> Mutation \union {NoObj}]
           /\ step' \in 1..5 /\ condition' \in Conditions /\ profileMCP' \in Pool
<1>1. queued' \in BOOLEAN
  BY Zenon DEF Return
<1>2. step' \in 1..5
  BY DEF Return
<1> QED
  BY <1>1, <1>2, NoPoolType DEF TypeOK, Return, Conditions

\* A failure (Fault) is counted.
LEMMA FaultType ==
    ASSUME TypeOK, UNCHANGED faults \/ Fault
    PROVE  faults' \in Nat
BY DEF TypeOK, Fault

\* A return from Reconcile preserves TypeOK, whatever it wrote before.
LEMMA ReturnTypeOK ==
    ASSUME TypeOK, Observe, NEW b \in BOOLEAN, Return(b),
           UNCHANGED <<pool, tunedFails, caches, lastUid, edits>>,
           profile' \in Profile \union {NoObj},
           objs' \in [Objs -> Component \union {NoObj}],
           faults' \in Nat
    PROVE  TypeOK'
<1>1. events' \subseteq Objs \union {"profile", "pool", "tuned"}
  BY ObserveType
<1>2. /\ queued' \in BOOLEAN /\ result' \in BOOLEAN /\ failed' \in BOOLEAN
      /\ pc' = "idle" /\ inst' = NoObj
      /\ mutated' \in [Kinds -> Mutation \union {NoObj}]
      /\ step' \in 1..5 /\ condition' \in Conditions /\ profileMCP' \in Pool
  BY ReturnType
<1> QED
  BY <1>1, <1>2 DEF TypeOK, caches

\* A Call, with its Fault, leaves the counter of failures a number.
LEMMA CallType ==
    ASSUME TypeOK, NEW accepted \in BOOLEAN, NEW applied \in BOOLEAN,
           NEW ok \in BOOLEAN, Call(accepted, applied, ok)
    PROVE  faults' \in Nat
BY DEF TypeOK, Call, Fault

\* Deletion of one object (deleteTuned and its siblings) leaves the objects
\* well-typed.
LEMMA DeleteObjType ==
    ASSUME TypeOK, NEW o, NEW applied \in BOOLEAN, NEW ok \in BOOLEAN,
           DeleteObj(o, applied, ok)
    PROVE  faults' \in Nat /\ objs' \in [Objs -> Component \union {NoObj}]
BY DEF TypeOK, DeleteObj, Call, Fault

\* Each step of Reconcile, with the events it raises, preserves TypeOK.
LEMMA OperatorType == TypeOK /\ OperatorStep => TypeOK'
<1> SUFFICES ASSUME TypeOK, Operator, Observe PROVE TypeOK'
  BY DEF OperatorStep
<1>0. events' \subseteq Objs \union {"profile", "pool", "tuned"}
  BY ObserveType
<1>1. CASE Reconcile
  <2>1. faults' \in Nat
    BY <1>1, FaultType DEF Reconcile
  <2>2. UNCHANGED <<api, caches, profileMCP, mutated, step, result, failed, condition,
                    lastUid, edits>>
    BY <1>1 DEF Reconcile
  <2>3. CASE cProfile = NoObj /\ queued' = FALSE /\ UNCHANGED <<pc, inst, faults>>
    BY <1>0, <2>1, <2>2, <2>3 DEF TypeOK, api, caches
  <2>4. CASE cProfile # NoObj /\ queued' = FALSE /\ inst' = cProfile /\ pc' = Path(cProfile)
    <3>1. pc' \in {"delete", "finalize", "pool"}
      BY <2>4 DEF Path
    <3> QED
      BY <1>0, <2>1, <2>2, <2>4, <3>1 DEF TypeOK, api, caches
  <2>5. CASE UNCHANGED <<queued, pc, inst>>
    BY <1>0, <2>1, <2>2, <2>5 DEF TypeOK, api, caches
  <2> QED
    BY <1>1, <2>3, <2>4, <2>5 DEF Reconcile
<1>2. CASE deleteComponents
  <2>1. PICK applied \in BOOLEAN, ok \in BOOLEAN :
          /\ DeleteObj(DeleteOrder[step], applied, ok)
          /\ \/ ok /\ step < 4 /\ step' = step + 1
                /\ UNCHANGED <<pc, queued, inst, profileMCP, mutated, result, failed, condition>>
             \/ ok /\ step = 4 /\ pc' = "release" /\ UNCHANGED <<queued, locals>>
             \/ ~ok /\ Return(TRUE)
    BY <1>2 DEF deleteComponents
  <2>2. faults' \in Nat /\ objs' \in [Objs -> Component \union {NoObj}]
    BY <2>1, DeleteObjType
  <2>3. UNCHANGED <<profile, pool, tunedFails, caches, lastUid, edits>> /\ pc = "delete"
    BY <1>2 DEF deleteComponents
  <2>4. CASE step < 4 /\ step' = step + 1
             /\ UNCHANGED <<pc, queued, inst, profileMCP, mutated, result, failed, condition>>
    BY <1>0, <2>2, <2>3, <2>4 DEF TypeOK, caches
  <2>5. CASE pc' = "release" /\ UNCHANGED <<queued, locals>>
    BY <1>0, <2>2, <2>3, <2>5 DEF TypeOK, caches, locals
  <2>6. CASE Return(TRUE)
    BY <2>2, <2>3, <2>6, ReturnTypeOK DEF TypeOK
  <2> QED
    BY <2>1, <2>4, <2>5, <2>6
<1>3. CASE releaseFinalizer
  <2>1. inst \in Profile /\ profile \in Profile \union {NoObj}
    BY <1>3 DEF releaseFinalizer, TypeOK
  <2>2. Stored([inst EXCEPT !.finalizers = @ \ {Finalizer}]) \in Profile \union {NoObj}
    <3>1. [inst EXCEPT !.finalizers = @ \ {Finalizer}] \in Profile
      BY <2>1 DEF Profile
    <3> QED
      BY <3>1, StoredType
  <2>3. UNCHANGED <<objs, pool, tunedFails, caches, lastUid, edits>> /\ pc = "release"
    BY <1>3 DEF releaseFinalizer
  <2>4. CASE Return(TRUE) /\ UNCHANGED profile /\ (UNCHANGED faults \/ Fault)
    <3>1. faults' \in Nat
      BY <2>4, FaultType
    <3> QED
      BY <2>3, <2>4, <3>1, ReturnTypeOK DEF TypeOK
  <2>5. CASE \E applied, ok \in BOOLEAN :
                /\ Call(profile = inst, applied, ok)
                /\ profile' = IF applied
                              THEN Stored([inst EXCEPT !.finalizers = @ \ {Finalizer}])
                              ELSE profile
                /\ Return(~ok)
    <3>1. PICK applied \in BOOLEAN, ok \in BOOLEAN :
             /\ Call(profile = inst, applied, ok)
             /\ profile' = IF applied
                           THEN Stored([inst EXCEPT !.finalizers = @ \ {Finalizer}])
                           ELSE profile
             /\ Return(~ok)
      BY <2>5
    <3>2. profile' \in Profile \union {NoObj}
      BY <2>1, <2>2, <3>1
    <3>3. faults' \in Nat
      BY <3>1, CallType
    <3> QED
      BY <2>3, <3>1, <3>2, <3>3, ReturnTypeOK DEF TypeOK
  <2>6. CASE pc' = "finalize" /\ UNCHANGED <<profile, faults, queued, locals>>
    BY <1>0, <2>3, <2>6 DEF TypeOK, caches, locals
  <2> QED
    BY <1>3, <2>4, <2>5, <2>6 DEF releaseFinalizer
<1>4. CASE addFinalizer
  <2>1. PICK applied \in BOOLEAN, ok \in BOOLEAN :
          /\ Call(profile = inst /\ ~inst.deleting, applied, ok)
          /\ profile' = IF applied
                        THEN [inst EXCEPT !.finalizers = @ \union {Finalizer}]
                        ELSE profile
          /\ Return(~ok)
    BY <1>4 DEF addFinalizer
  <2>2. inst \in Profile /\ profile \in Profile \union {NoObj}
    BY <1>4 DEF addFinalizer, TypeOK
  <2>3. [inst EXCEPT !.finalizers = @ \union {Finalizer}] \in Profile
    BY <2>2 DEF Profile
  <2>4. profile' \in Profile \union {NoObj}
    BY <2>1, <2>2, <2>3
  <2>5. faults' \in Nat
    BY <2>1, CallType
  <2> QED
    BY <1>4, <2>1, <2>4, <2>5, ReturnTypeOK DEF TypeOK, addFinalizer
<1>5. CASE findPool
  <2>1. faults' \in Nat
    BY <1>5, FaultType DEF findPool
  <2>2. condition' \in Conditions
    BY <1>5 DEF findPool, TypeOK, Conditions
  <2> QED
    BY <1>0, <1>5, <2>1, <2>2 DEF findPool, TypeOK, api, caches
<1>6. CASE deleteDeprecatedComponents
  <2>1. PICK applied \in BOOLEAN, ok \in BOOLEAN :
          /\ DeleteObj("OldMachineConfig", applied, ok)
          /\ \/ ok /\ pc' = "mutate" /\ UNCHANGED <<queued, locals>>
             \/ ~ok /\ Return(TRUE)
    BY <1>6 DEF deleteDeprecatedComponents
  <2>2. faults' \in Nat /\ objs' \in [Objs -> Component \union {NoObj}]
    BY <2>1, DeleteObjType
  <2>3. UNCHANGED <<profile, pool, tunedFails, caches, lastUid, edits>> /\ pc = "legacy"
    BY <1>6 DEF deleteDeprecatedComponents
  <2>4. CASE pc' = "mutate" /\ UNCHANGED <<queued, locals>>
    BY <1>0, <2>2, <2>3, <2>4 DEF TypeOK, caches, locals
  <2>5. CASE Return(TRUE)
    BY <2>2, <2>3, <2>5, ReturnTypeOK DEF TypeOK
  <2> QED
    BY <2>1, <2>4, <2>5
<1>7. CASE applyComponents
  <2>1. faults' \in Nat
    BY <1>7, FaultType DEF applyComponents
  <2>2. inst \in Profile
    BY <1>7 DEF applyComponents, TypeOK
  <2>3. mutated' \in [Kinds -> Mutation \union {NoObj}]
    BY <1>7, <2>2, MutatedType DEF applyComponents, TypeOK
  <2>4. /\ condition' \in Conditions /\ failed' \in BOOLEAN
        /\ pc' \in {"conditions", "status", "apply"}
    BY <1>7 DEF applyComponents, Degrade, TypeOK, Conditions
  <2> QED
    BY <1>0, <1>7, <2>1, <2>2, <2>3, <2>4 DEF applyComponents, TypeOK, api, caches
<1>8. CASE createOrUpdateComponent
  <2> DEFINE o == ApplyOrder[step]
             k == IF o = "OldTuned" THEN "Tuned" ELSE o
  <2>1. k \in Kinds
    BY DEF TypeOK, ApplyOrder, Kinds
  <2>2. UNCHANGED <<profile, pool, tunedFails, caches, queued, inst, profileMCP, lastUid, edits>>
        /\ pc = "apply"
    BY <1>8 DEF createOrUpdateComponent
  <2>3. \/ mutated[k] = NoObj /\ Advance /\ UNCHANGED <<objs, mutated, faults>>
        \/ mutated[k] # NoObj /\ createOrUpdate(k)
        \/ removeOutdatedTuned
    BY <1>8 DEF createOrUpdateComponent
  <2> HIDE DEF o, k
  <2>4. ASSUME Advance \/ (Degrade("ComponentCreationFailed") /\ UNCHANGED <<step, result>>)
        PROVE  /\ step' \in 1..5 /\ condition' \in Conditions
               /\ failed' \in BOOLEAN /\ result' \in BOOLEAN
               /\ pc' \in {"apply", "conditions", "status"}
    <3>1. CASE Advance /\ step < 5
      BY <2>2, <3>1 DEF Advance, TypeOK
    <3>2. CASE Advance /\ ~(step < 5)
      BY <3>2 DEF Advance, TypeOK
    <3>3. CASE Degrade("ComponentCreationFailed") /\ UNCHANGED <<step, result>>
      BY <3>3 DEF Degrade, TypeOK, Conditions
    <3> QED
      BY <2>4, <3>1, <3>2, <3>3
  <2>5. CASE mutated[k] = NoObj /\ Advance /\ UNCHANGED <<objs, mutated, faults>>
    BY <1>0, <2>2, <2>4, <2>5 DEF TypeOK, caches
  <2>6. CASE mutated[k] # NoObj /\ createOrUpdate(k)
    <3>1. PICK applied \in BOOLEAN, ok \in BOOLEAN :
            /\ IF cObjs[k] = NoObj
               THEN Call(objs[k] = NoObj /\ mutated[k].base = NoObj, applied, ok)
               ELSE Call(mutated[k].base # NoObj /\ objs[k] = mutated[k].base, applied, ok)
            /\ objs' = IF applied THEN [objs EXCEPT ![k] = mutated[k].obj] ELSE objs
            /\ mutated' = [mutated EXCEPT ![k] = NoObj]
            /\ \/ ok /\ Advance
               \/ ~ok /\ Degrade("ComponentCreationFailed") /\ UNCHANGED <<step, result>>
      BY <2>6 DEF createOrUpdate
    <3>2. faults' \in Nat
      BY <3>1, CallType
    <3>3. mutated[k].obj \in Component
      BY <2>1, <2>6 DEF TypeOK, Mutation
    <3>4. objs' \in [Objs -> Component \union {NoObj}]
      BY <3>1, <3>3 DEF TypeOK
    <3>5. mutated' \in [Kinds -> Mutation \union {NoObj}]
      BY <3>1 DEF TypeOK
    <3> QED
      BY <1>0, <2>2, <2>4, <3>1, <3>2, <3>4, <3>5 DEF TypeOK, caches
  <2>7. CASE removeOutdatedTuned
    <3>1. PICK applied \in BOOLEAN, ok \in BOOLEAN :
            /\ DeleteObj("OldTuned", applied, ok)
            /\ UNCHANGED mutated
            /\ \/ ok /\ Advance
               \/ /\ ~ok \/ applied
                  /\ Degrade("ComponentCreationFailed") /\ UNCHANGED <<step, result>>
      BY <2>7 DEF removeOutdatedTuned
    <3>2. faults' \in Nat /\ objs' \in [Objs -> Component \union {NoObj}]
      BY <3>1, DeleteObjType
    <3> QED
      BY <1>0, <2>2, <2>4, <3>1, <3>2 DEF TypeOK, caches
  <2> QED
    BY <2>3, <2>5, <2>6, <2>7
<1>9. CASE getConditions
  <2>1. faults' \in Nat
    BY <1>9, FaultType DEF getConditions
  <2>2. /\ condition' \in Conditions /\ failed' \in BOOLEAN /\ pc' = "status"
    BY <1>9 DEF getConditions, ConditionOf, Degrade, TypeOK, Conditions
  <2> QED
    BY <1>0, <1>9, <2>1, <2>2 DEF getConditions, TypeOK, api, caches
<1>10. CASE updateStatus
  <2>1. CASE Return(failed) /\ UNCHANGED <<profile, faults>>
    BY <1>10, <2>1, ReturnTypeOK DEF updateStatus, TypeOK
  <2>2. CASE \E applied, ok \in BOOLEAN :
               /\ Call(profile = inst, applied, ok)
               /\ profile' = IF applied THEN [inst EXCEPT !.conditions = condition]
                             ELSE profile
               /\ Return(failed \/ (~ok /\ ~result))
    <3>1. PICK applied \in BOOLEAN, ok \in BOOLEAN :
            /\ Call(profile = inst, applied, ok)
            /\ profile' = IF applied THEN [inst EXCEPT !.conditions = condition]
                          ELSE profile
            /\ Return(failed \/ (~ok /\ ~result))
      BY <2>2
    <3>2. inst \in Profile /\ profile \in Profile \union {NoObj}
      BY <1>10 DEF updateStatus, TypeOK
    <3>3. [inst EXCEPT !.conditions = condition] \in Profile
      BY <3>2 DEF Profile, TypeOK
    <3>4. profile' \in Profile \union {NoObj}
      BY <3>1, <3>2, <3>3
    <3>5. faults' \in Nat
      BY <3>1, CallType
    <3> QED
      BY <1>10, <3>1, <3>4, <3>5, ReturnTypeOK DEF updateStatus, TypeOK
  <2> QED
    BY <1>10, <2>1, <2>2 DEF updateStatus
<1> QED
  BY <1>1, <1>2, <1>3, <1>4, <1>5, <1>6, <1>7, <1>8, <1>9, <1>10 DEF Operator

\* A new profile (CreateProfile) is one with the next uid.
LEMMA CreatedProfileType ==
    ASSUME TypeOK, CreateProfile
    PROVE  /\ profile' \in Profile /\ profile'.uid = lastUid + 1 /\ profile' # NoObj
           /\ lastUid' \in Nat
<1>1. PICK s \in Specs :
        profile' = [uid |-> lastUid + 1, spec |-> s, paused |-> FALSE, deleting |-> FALSE,
                    finalizers |-> {}, conditions |-> "None"]
  BY DEF CreateProfile
<1>2. lastUid \in Nat
  BY DEF TypeOK
<1>3. lastUid + 1 \in Nat
  BY <1>2
<1>4. "None" \in Conditions
  BY DEF Conditions
<1>5. profile' \in Profile
  BY <1>1, <1>3, <1>4 DEF Profile
<1>6. profile'.uid = lastUid + 1
  BY <1>1
<1> QED
  BY <1>3, <1>5, <1>6, ControllerAssumption DEF CreateProfile

\* An edit of the spec or of the pause annotation (EditProfile) changes
\* nothing else.
LEMMA EditedProfileType ==
    ASSUME TypeOK, EditProfile
    PROVE  /\ profile' \in Profile /\ profile' # NoObj
           /\ profile'.uid = profile.uid /\ profile'.finalizers = profile.finalizers
<1>1. profile \in Profile
  BY DEF EditProfile, TypeOK
<1>2. CASE Edit("spec") /\ \E s \in Specs \ {profile.spec} :
              profile' = [profile EXCEPT !.spec = s]
  BY <1>1, <1>2, ControllerAssumption DEF Profile
<1>3. CASE Edit("pause") /\ profile' = [profile EXCEPT !.paused = ~@]
  <2>1. (~profile.paused) \in BOOLEAN
    BY <1>1 DEF Profile
  <2> QED
    BY <1>1, <1>3, <2>1, ControllerAssumption DEF Profile
<1> QED
  BY <1>2, <1>3 DEF EditProfile

\* A finalizer is added (addFinalizer) to the object that was read, or not at
\* all.
LEMMA FinalizerAdded ==
    ASSUME TypeOK, addFinalizer
    PROVE  \/ UNCHANGED profile
           \/ profile = inst /\ profile' = [inst EXCEPT !.finalizers = @ \union {Finalizer}]
<1>1. PICK applied \in BOOLEAN, ok \in BOOLEAN :
        /\ Call(profile = inst /\ ~inst.deleting, applied, ok)
        /\ profile' = IF applied
                      THEN [inst EXCEPT !.finalizers = @ \union {Finalizer}]
                      ELSE profile
  BY DEF addFinalizer
<1>2. applied => profile = inst
  BY <1>1 DEF Call
<1> QED
  BY <1>1, <1>2

\* What the administrator, the garbage collector and the other operators do
\* preserves TypeOK.
LEMMA ClusterType == TypeOK /\ ClusterStep => TypeOK'
<1> SUFFICES ASSUME TypeOK, Cluster, Observe PROVE TypeOK'
  BY DEF ClusterStep
<1>0. events' \subseteq Objs \union {"profile", "pool", "tuned"}
  BY ObserveType
<1>1. CASE CreateProfile
  <2>1. profile' \in Profile /\ lastUid' \in Nat
    BY <1>1, CreatedProfileType
  <2>2. UNCHANGED <<objs, pool, tunedFails, caches, queued, pc, locals, edits, faults>>
    BY <1>1 DEF CreateProfile
  <2> QED
    BY <1>0, <2>1, <2>2 DEF TypeOK, caches, locals
<1>2. CASE EditProfile
  <2>1. edits' \in Nat
    BY <1>2 DEF EditProfile, Edit, TypeOK
  <2> QED
    BY <1>0, <1>2, <2>1, EditedProfileType DEF EditProfile, TypeOK, caches, locals
<1>3. CASE DeleteProfile
  <2>1. PICK other \in {{}, {"other"}} :
          profile' = Stored([profile EXCEPT !.deleting = TRUE,
                                            !.finalizers = @ \union other])
    BY <1>3 DEF DeleteProfile
  <2>2. [profile EXCEPT !.deleting = TRUE, !.finalizers = @ \union other] \in Profile
    <3>1. profile \in Profile
      BY <1>3 DEF DeleteProfile, TypeOK
    <3>2. profile.finalizers \union other \in SUBSET {Finalizer, "other"}
      BY <3>1 DEF Profile
    <3> QED
      BY <3>1, <3>2 DEF Profile
  <2>3. profile' \in Profile \union {NoObj}
    BY <2>1, <2>2, StoredType
  <2> QED
    BY <1>0, <1>3, <2>3 DEF DeleteProfile, Edit, TypeOK, caches, locals
<1>4. CASE ReleaseOther
  <2>1. [profile EXCEPT !.finalizers = @ \ {"other"}] \in Profile
    BY <1>4 DEF ReleaseOther, TypeOK, Profile
  <2>2. profile' \in Profile \union {NoObj}
    BY <1>4, <2>1, StoredType DEF ReleaseOther
  <2> QED
    BY <1>0, <1>4, <2>2 DEF ReleaseOther, TypeOK, caches, locals
<1>5. CASE EditComponent
  <2>1. PICK k \in Kinds :
          /\ objs[k] # NoObj
          /\ \/ objs[k].content # "manual" /\ objs' = [objs EXCEPT ![k].content = "manual"]
             \/ objs' = [objs EXCEPT ![k] = NoObj]
    BY <1>5 DEF EditComponent
  <2>2. [objs[k] EXCEPT !.content = "manual"] \in Component
    BY <2>1, ControllerAssumption DEF TypeOK, Objs, Component
  <2>3. objs' \in [Objs -> Component \union {NoObj}]
    BY <2>1, <2>2 DEF TypeOK
  <2> QED
    BY <1>0, <1>5, <2>3 DEF EditComponent, Edit, TypeOK, caches, locals
<1>6. CASE \E o \in Objs : CollectGarbage(o)
  <2>1. objs' \in [Objs -> Component \union {NoObj}]
    BY <1>6 DEF CollectGarbage, TypeOK
  <2> QED
    BY <1>0, <1>6, <2>1 DEF CollectGarbage, TypeOK, caches, locals
<1>7. CASE ReportStatus
  <2>1. objs' \in [Objs -> Component \union {NoObj}]
    <3>1. CASE UNCHANGED objs
      BY <3>1 DEF TypeOK
    <3>2. CASE objs["KubeletConfig"] # NoObj
               /\ objs' = [objs EXCEPT !["KubeletConfig"].failed = ~@]
      <4>1. [objs["KubeletConfig"] EXCEPT !.failed = ~@] \in Component
        BY <3>2 DEF TypeOK, Objs, Kinds, Component
      <4> QED
        BY <3>2, <4>1 DEF TypeOK
    <3> QED
      BY <1>7, <3>1, <3>2 DEF ReportStatus
  <2>2. pool' \in Pool
    BY <1>7 DEF ReportStatus, TypeOK, Pool
  <2>3. tunedFails' \in BOOLEAN
    BY <1>7 DEF ReportStatus, TypeOK
  <2> QED
    BY <1>0, <1>7, <2>1, <2>2, <2>3 DEF ReportStatus, Edit, TypeOK, caches, locals
<1>8. CASE EditPool
  <2>1. pool' \in Pool
    BY <1>8 DEF EditPool, TypeOK, Pool
  <2>2. edits' \in Nat
    BY <1>8 DEF EditPool, Edit, TypeOK
  <2>3. /\ poolKnown' = FALSE
        /\ UNCHANGED <<profile, objs, tunedFails, cProfile, cObjs, cPool, cTunedFails,
                       queued, pc, locals, lastUid, faults>>
    BY <1>8 DEF EditPool
  <2> QED
    BY <1>0, <2>1, <2>2, <2>3 DEF TypeOK, locals
<1> QED
  BY <1>1, <1>2, <1>3, <1>4, <1>5, <1>6, <1>7, <1>8 DEF Cluster

\* The deliveries of the informers, the resync and a restart preserve TypeOK.
LEMMA InformerType == TypeOK /\ (Informers \/ Resync \/ Restart) => TypeOK'
<1> SUFFICES ASSUME TypeOK, Informers \/ Resync \/ Restart PROVE TypeOK'
  OBVIOUS
<1>1. CASE DeliverProfile
  BY <1>1 DEF DeliverProfile, TypeOK, api, locals
<1>2. CASE \E o \in Objs : DeliverObj(o)
  <2>1. PICK o \in Objs : DeliverObj(o)
    BY <1>2
  <2>2. cObjs' \in [Objs -> Component \union {NoObj}]
    BY <2>1 DEF DeliverObj, TypeOK
  <2>3. queued' \in BOOLEAN
    BY <2>1, Zenon DEF DeliverObj
  <2> QED
    BY <2>1, <2>2, <2>3 DEF DeliverObj, TypeOK, api, locals
<1>3. CASE DeliverPool
  <2>1. queued' \in BOOLEAN
    BY <1>3, Zenon DEF DeliverPool
  <2> QED
    BY <1>3, <2>1 DEF DeliverPool, TypeOK, api, locals
<1>4. CASE DeliverTuned
  <2>1. queued' \in BOOLEAN
    BY <1>4, Zenon DEF DeliverTuned
  <2> QED
    BY <1>4, <2>1 DEF DeliverTuned, TypeOK, api, locals
<1>5. CASE Resync
  BY <1>5 DEF Resync, TypeOK, api, caches, locals
<1>6. CASE Restart
  <2>1. queued' \in BOOLEAN
    BY <1>6, Zenon DEF Restart
  <2>2. mutated' \in [Kinds -> Mutation \union {NoObj}]
    BY <1>6 DEF Restart
  <2>3. faults' \in Nat
    BY <1>6, FaultType DEF Restart
  <2>4. condition' \in Conditions /\ step' \in 1..5
    BY <1>6 DEF Restart, Conditions
  <2> QED
    BY <1>6, <2>1, <2>2, <2>3, <2>4, NoPoolType DEF Restart, TypeOK, api
<1> QED
  BY <1>1, <1>2, <1>3, <1>4, <1>5, <1>6 DEF Informers

\* Every variable keeps its type in every behaviour, and while Reconcile runs
\* it has an instance to work on.
THEOREM TypeCorrect == Spec => []TypeOK
<1>1. Init => TypeOK
  <2> SUFFICES ASSUME Init PROVE TypeOK
    OBVIOUS
  <2>1. /\ pool \in Pool /\ condition \in Conditions /\ step \in 1..5
        /\ profileMCP \in Pool
    BY NoPoolType DEF Init, Pool, Conditions
  <2>2. CASE profile = NoObj /\ objs = [o \in Objs |-> NoObj]
             /\ lastUid = 0 /\ queued = FALSE
    BY <2>1, <2>2 DEF Init, TypeOK
  <2>3. CASE /\ \E s \in Specs : profile = Upgraded(s) /\ objs = LegacyObjs(s)
             /\ lastUid = 1 /\ queued = TRUE
    <3>1. PICK s \in Specs : profile = Upgraded(s) /\ objs = LegacyObjs(s)
      BY <2>3
    <3>2. Upgraded(s) \in Profile
      BY DEF Upgraded, Profile, Conditions
    <3>3. ASSUME NEW k \in Kinds
          PROVE  [content |-> Manifest[s][k], owner |-> 1, failed |-> FALSE] \in Component
      BY ControllerAssumption DEF Component
    <3>4. LegacyObjs(s) \in [Objs -> Component \union {NoObj}]
      BY <3>3 DEF LegacyObjs, Kinds
    <3> QED
      BY <2>1, <2>3, <3>1, <3>2, <3>4 DEF Init, TypeOK
  <2> QED
    BY <2>2, <2>3 DEF Init
<1>2. TypeOK /\ [Next]_vars => TypeOK'
  <2> SUFFICES ASSUME TypeOK, [Next]_vars PROVE TypeOK'
    OBVIOUS
  <2>1. CASE Next
    BY <2>1, OperatorType, ClusterType, InformerType DEF Next
  <2>2. CASE UNCHANGED vars
    BY <2>2 DEF vars, api, caches, locals, TypeOK
  <2> QED
    BY <2>1, <2>2
<1> QED
  BY <1>1, <1>2, PTL DEF Spec

-----------------------------------------------------------------------------
(* The finalizer.  FinalizerHeldWhileWorking is not inductive: Reconcile   *)
(* decides on a cached copy, so the invariant has to say what a cached     *)
(* copy is worth.                                                          *)

\* p is what has become of the profile that q was a copy of: gone, replaced by
\* a later incarnation, or the same one, still under deletion if q was.
Newer(p, q) ==
    \/ p = NoObj
    \/ p.uid > q.uid
    \/ p.uid = q.uid /\ (q.deleting => p.deleting)

\* The two copies of the profile, the informer's and Reconcile's, are older
\* than what they were copied from, and no uid is used twice.
CopiesAreOlder ==
    /\ profile # NoObj => profile.uid <= lastUid
    /\ cProfile # NoObj => cProfile.uid <= lastUid /\ Newer(profile, cProfile)
    /\ inst # NoObj => inst.uid <= lastUid /\ Newer(profile, inst) /\ Newer(cProfile, inst)

\* A cached profile that holds the finalizer and is not under deletion can be
\* relied on: the profile is still there and still holds it.
CachedFinalizerIsHeld ==
    cProfile # NoObj /\ Finalizer \in cProfile.finalizers /\ ~cProfile.deleting =>
        /\ profile # NoObj
        /\ profile.uid = cProfile.uid
        /\ Finalizer \in profile.finalizers

\* deleteComponents and the release of the finalizer work on an instance under
\* deletion.
DeletesDeleted == pc \in {"delete", "release"} => inst.deleting

HeldInv ==
    /\ CopiesAreOlder
    /\ CachedFinalizerIsHeld
    /\ DeletesDeleted
    /\ FinalizerHeldWhileWorking

\* What a step may do to the profile in the API server: leave it, create a new
\* incarnation, change it, remove it.
ProfileMoves ==
    \/ UNCHANGED <<profile, lastUid>>
    \/ /\ profile = NoObj /\ profile' # NoObj
       /\ profile'.uid = lastUid + 1 /\ lastUid' = lastUid + 1
    \/ /\ profile # NoObj /\ lastUid' = lastUid
       /\ profile' # NoObj => /\ profile'.uid = profile.uid
                              /\ profile.deleting => profile'.deleting

\* A step that does not take the operator's finalizer away from the profile.
KeepsFinalizer ==
    profile # NoObj /\ Finalizer \in profile.finalizers =>
        /\ profile' # NoObj
        /\ profile'.uid = profile.uid
        /\ Finalizer \in profile'.finalizers

\* Every write to the profile, of the operator and of others, is a move.
LEMMA AllStepsMove == TypeOK /\ [Next]_vars => ProfileMoves
<1> SUFFICES ASSUME TypeOK, [Next]_vars PROVE ProfileMoves
  OBVIOUS
<1> USE DEF ProfileMoves
<1>1. CASE releaseFinalizer
  <2>1. inst \in Profile /\ inst # NoObj /\ UNCHANGED lastUid
    BY <1>1 DEF releaseFinalizer, TypeOK
  <2>2. \/ UNCHANGED profile
        \/ profile = inst /\ profile' = Stored([inst EXCEPT !.finalizers = @ \ {Finalizer}])
    BY <1>1 DEF releaseFinalizer, Call
  <2> QED
    BY <2>1, <2>2 DEF Stored, Profile
<1>2. CASE addFinalizer
  <2>1. inst \in Profile /\ inst # NoObj /\ UNCHANGED lastUid
    BY <1>2 DEF addFinalizer, TypeOK
  <2>2. \/ UNCHANGED profile
        \/ profile = inst /\ profile' = [inst EXCEPT !.finalizers = @ \union {Finalizer}]
    BY <1>2, FinalizerAdded
  <2> QED
    BY <2>1, <2>2 DEF Profile
<1>3. CASE updateStatus
  <2>1. inst \in Profile /\ inst # NoObj /\ UNCHANGED lastUid
    BY <1>3 DEF updateStatus, TypeOK
  <2>2. \/ UNCHANGED profile
        \/ profile = inst /\ profile' = [inst EXCEPT !.conditions = condition]
    BY <1>3 DEF updateStatus, Call
  <2> QED
    BY <2>1, <2>2 DEF Profile
<1>4. CASE \/ Reconcile \/ deleteComponents \/ findPool \/ deleteDeprecatedComponents
           \/ applyComponents \/ createOrUpdateComponent \/ getConditions
  BY <1>4 DEF Reconcile, deleteComponents, findPool, deleteDeprecatedComponents,
              applyComponents, createOrUpdateComponent, getConditions, api
<1>5. CASE CreateProfile
  BY <1>5, CreatedProfileType DEF CreateProfile
<1>6. CASE EditProfile
  BY <1>6 DEF EditProfile, Edit, TypeOK, Profile
<1>7. CASE DeleteProfile
  BY <1>7 DEF DeleteProfile, Stored, TypeOK, Profile
<1>8. CASE ReleaseOther
  BY <1>8 DEF ReleaseOther, Stored, TypeOK, Profile
<1>9. CASE EditComponent \/ (\E o \in Objs : CollectGarbage(o)) \/ ReportStatus \/ EditPool
  BY <1>9 DEF EditComponent, CollectGarbage, ReportStatus, EditPool
<1>10. CASE Informers \/ Resync \/ Restart \/ UNCHANGED vars
  BY <1>10 DEF Informers, DeliverProfile, DeliverObj, DeliverPool, DeliverTuned,
               Resync, Restart, vars, api
<1> QED
  BY <1>1, <1>2, <1>3, <1>4, <1>5, <1>6, <1>7, <1>8, <1>9, <1>10
     DEF Next, OperatorStep, ClusterStep, Operator, Cluster

\* What a step may do to the copies: nothing, drop Reconcile's, give Reconcile
\* the informer's, or bring the informer's up to date.
CopyMoves ==
    \/ UNCHANGED cProfile /\ inst' \in {inst, NoObj}
    \/ UNCHANGED <<profile, lastUid, cProfile>> /\ inst' = cProfile
    \/ UNCHANGED <<profile, lastUid>> /\ cProfile' = profile /\ inst' \in {inst, NoObj}

\* Every step moves the copies that way.
LEMMA AllStepsCopy == [Next]_vars => CopyMoves
<1> SUFFICES ASSUME [Next]_vars PROVE CopyMoves
  OBVIOUS
<1> USE DEF CopyMoves
<1>1. CASE Reconcile
  BY <1>1 DEF Reconcile, api, caches
<1>2. CASE deleteComponents \/ releaseFinalizer \/ addFinalizer
  BY <1>2 DEF deleteComponents, releaseFinalizer, addFinalizer, Return, caches, locals
<1>3. CASE \/ findPool \/ deleteDeprecatedComponents \/ applyComponents
           \/ createOrUpdateComponent \/ getConditions
  BY <1>3 DEF findPool, deleteDeprecatedComponents, applyComponents,
              createOrUpdateComponent, getConditions, Return, caches, locals
<1>4. CASE updateStatus
  BY <1>4 DEF updateStatus, Return, caches
<1>5. CASE Cluster
  BY <1>5 DEF Cluster, CreateProfile, EditProfile, DeleteProfile, ReleaseOther,
              EditComponent, CollectGarbage, ReportStatus, EditPool, caches, locals
<1>6. CASE Informers \/ Resync \/ Restart \/ UNCHANGED vars
  BY <1>6 DEF Informers, DeliverProfile, DeliverObj, DeliverPool, DeliverTuned,
              Resync, Restart, vars, api, caches, locals
<1> QED
  BY <1>1, <1>2, <1>3, <1>4, <1>5, <1>6 DEF Next, OperatorStep, ClusterStep, Operator

\* Such moves keep the copies older than their originals.
LEMMA CopiesStayOlder ==
    ASSUME TypeOK, TypeOK', CopiesAreOlder, ProfileMoves, CopyMoves
    PROVE  CopiesAreOlder'
<1>0. /\ profile \in Profile \union {NoObj} /\ profile' \in Profile \union {NoObj}
      /\ cProfile \in Profile \union {NoObj} /\ inst \in Profile \union {NoObj}
      /\ lastUid \in Nat /\ lastUid' \in Nat
  BY DEF TypeOK
<1>1. profile' # NoObj => profile'.uid <= lastUid'
  BY <1>0 DEF CopiesAreOlder, ProfileMoves, Profile
<1>2. ASSUME NEW q \in Profile, q.uid <= lastUid, Newer(profile, q)
      PROVE  Newer(profile', q) /\ q.uid <= lastUid'
  BY <1>0, <1>2 DEF ProfileMoves, Newer, Profile
<1>3. CASE UNCHANGED cProfile /\ inst' \in {inst, NoObj}
  BY <1>0, <1>1, <1>2, <1>3 DEF CopiesAreOlder
<1>4. CASE UNCHANGED <<profile, lastUid, cProfile>> /\ inst' = cProfile
  BY <1>0, <1>4 DEF CopiesAreOlder, Newer, Profile
<1>5. CASE UNCHANGED <<profile, lastUid>> /\ cProfile' = profile /\ inst' \in {inst, NoObj}
  BY <1>0, <1>5 DEF CopiesAreOlder, Newer, Profile
<1> QED
  BY <1>3, <1>4, <1>5 DEF CopyMoves

\* Only the release of the finalizer takes it away.
LEMMA OthersKeepFinalizer ==
    ASSUME TypeOK, [Next]_vars, ~releaseFinalizer
    PROVE  KeepsFinalizer
<1> USE DEF KeepsFinalizer
<1>1. CASE addFinalizer
  <2>1. inst \in Profile /\ inst # NoObj
    BY <1>1 DEF addFinalizer, TypeOK
  <2>2. \/ UNCHANGED profile
        \/ profile = inst /\ profile' = [inst EXCEPT !.finalizers = @ \union {Finalizer}]
    BY <1>1, FinalizerAdded
  <2>3. [inst EXCEPT !.finalizers = @ \union {Finalizer}] \in Profile
    BY <2>1 DEF Profile
  <2> QED
    BY <2>1, <2>2, <2>3, ControllerAssumption DEF Profile
<1>2. CASE updateStatus
  <2>1. inst \in Profile /\ inst # NoObj
    BY <1>2 DEF updateStatus, TypeOK
  <2>2. \/ UNCHANGED profile
        \/ profile = inst /\ profile' = [inst EXCEPT !.conditions = condition]
    BY <1>2 DEF updateStatus, Call
  <2>3. [inst EXCEPT !.conditions = condition] \in Profile
    BY <2>1 DEF Profile, TypeOK
  <2> QED
    BY <2>1, <2>2, <2>3, ControllerAssumption DEF Profile
<1>3. CASE \/ Reconcile \/ deleteComponents \/ findPool \/ deleteDeprecatedComponents
           \/ applyComponents \/ createOrUpdateComponent \/ getConditions
  BY <1>3 DEF Reconcile, deleteComponents, findPool, deleteDeprecatedComponents,
              applyComponents, createOrUpdateComponent, getConditions, api
<1>4. CASE CreateProfile
  BY <1>4 DEF CreateProfile
<1>5. CASE EditProfile
  BY <1>5, EditedProfileType
<1>6. CASE DeleteProfile
  <2>1. PICK other \in {{}, {"other"}} :
          profile' = Stored([profile EXCEPT !.deleting = TRUE,
                                            !.finalizers = @ \union other])
    BY <1>6 DEF DeleteProfile
  <2>2. profile \in Profile
    BY <1>6 DEF DeleteProfile, TypeOK
  <2> DEFINE p == [profile EXCEPT !.deleting = TRUE, !.finalizers = @ \union other]
  <2>3. /\ p \in Profile /\ p # NoObj
        /\ p.uid = profile.uid /\ p.finalizers = profile.finalizers \union other
    <3>1. profile.finalizers \union other \in SUBSET {Finalizer, "other"}
      BY <2>2 DEF Profile
    <3>2. p \in Profile
      BY <2>2, <3>1 DEF Profile
    <3> QED
      BY <2>2, <3>2, ControllerAssumption DEF Profile
  <2> HIDE DEF p
  <2>4. profile' = Stored(p)
    BY <2>1 DEF p
  <2> QED
    BY <2>3, <2>4 DEF Stored
<1>7. CASE ReleaseOther
  BY <1>7, ControllerAssumption DEF ReleaseOther, Stored, TypeOK, Profile, Finalizer
<1>8. CASE EditComponent \/ (\E o \in Objs : CollectGarbage(o)) \/ ReportStatus \/ EditPool
  BY <1>8 DEF EditComponent, CollectGarbage, ReportStatus, EditPool
<1>9. CASE Informers \/ Resync \/ Restart \/ UNCHANGED vars
  BY <1>9 DEF Informers, DeliverProfile, DeliverObj, DeliverPool, DeliverTuned,
              Resync, Restart, vars, api
<1> QED
  BY <1>1, <1>2, <1>3, <1>4, <1>5, <1>6, <1>7, <1>8, <1>9
     DEF Next, OperatorStep, ClusterStep, Operator, Cluster

\* How control moves in a step other than the release of the finalizer.
PcMoves ==
    \/ UNCHANGED <<pc, inst>>
    \/ pc' = "idle"
    \/ pc = "delete" /\ pc' = "release" /\ inst' = inst
    \/ pc \in Working /\ pc' \in Working /\ inst' = inst
    \/ cProfile # NoObj /\ inst' = cProfile /\ pc' = Path(cProfile) /\ UNCHANGED profile

\* Every step but the release of the finalizer moves control that way.
LEMMA AllStepsPc ==
    ASSUME TypeOK, [Next]_vars, ~releaseFinalizer
    PROVE  PcMoves
<1> USE DEF PcMoves, Working
<1>1. CASE Reconcile
  BY <1>1 DEF Reconcile, api
<1>2. CASE deleteComponents
  BY <1>2 DEF deleteComponents, Return, locals
<1>3. CASE addFinalizer \/ updateStatus
  BY <1>3 DEF addFinalizer, updateStatus, Return
<1>4. CASE findPool \/ deleteDeprecatedComponents
  BY <1>4 DEF findPool, deleteDeprecatedComponents, Return, locals
<1>5. CASE applyComponents \/ getConditions
  BY <1>5 DEF applyComponents, getConditions, Degrade
<1>6. CASE createOrUpdateComponent
  <2>1. pc' \in Working /\ inst' = inst /\ pc = "apply"
    BY <1>6 DEF createOrUpdateComponent, createOrUpdate, removeOutdatedTuned, Advance, Degrade
  <2> QED
    BY <2>1
<1>7. CASE Cluster
  BY <1>7 DEF Cluster, CreateProfile, EditProfile, DeleteProfile, ReleaseOther,
              EditComponent, CollectGarbage, ReportStatus, EditPool, locals
<1>8. CASE Informers \/ Resync \/ Restart \/ UNCHANGED vars
  BY <1>8 DEF Informers, DeliverProfile, DeliverObj, DeliverPool, DeliverTuned,
              Resync, Restart, vars, locals
<1> QED
  BY <1>1, <1>2, <1>3, <1>4, <1>5, <1>6, <1>7, <1>8
     DEF Next, OperatorStep, ClusterStep, Operator

\* The inductive step for the finalizer.
LEMMA HeldStep ==
    ASSUME TypeOK, TypeOK', HeldInv, [Next]_vars
    PROVE  HeldInv'
<1>1. ProfileMoves /\ CopyMoves
  BY AllStepsMove, AllStepsCopy
<1>2. CopiesAreOlder'
  BY <1>1, CopiesStayOlder DEF HeldInv
<1>3. CASE releaseFinalizer
  <2>1. UNCHANGED cProfile /\ inst \in Profile /\ inst # NoObj /\ inst.deleting
    BY <1>3 DEF releaseFinalizer, HeldInv, DeletesDeleted, TypeOK, caches
  <2>2. pc' \notin Working /\ pc' \notin {"delete", "release"}
    BY <1>3 DEF releaseFinalizer, Return, Working
  <2>3. CachedFinalizerIsHeld'
    <3>1. CASE UNCHANGED profile
      BY <2>1, <3>1 DEF HeldInv, CachedFinalizerIsHeld
    <3>2. CASE profile' # profile
      <4>1. profile = inst
        BY <1>3, <3>2 DEF releaseFinalizer, Call
      <4>2. Newer(cProfile, inst)
        BY <2>1 DEF HeldInv, CopiesAreOlder
      <4>3. ~(cProfile # NoObj /\ Finalizer \in cProfile.finalizers /\ ~cProfile.deleting)
        BY <2>1, <4>1, <4>2 DEF HeldInv, CachedFinalizerIsHeld, Newer, TypeOK, Profile
      <4> QED
        BY <2>1, <4>3 DEF CachedFinalizerIsHeld
    <3> QED
      BY <3>1, <3>2
  <2> QED
    BY <1>2, <2>2, <2>3 DEF HeldInv, DeletesDeleted, FinalizerHeldWhileWorking
<1>4. CASE ~releaseFinalizer
  <2>1. KeepsFinalizer /\ PcMoves
    BY <1>4, OthersKeepFinalizer, AllStepsPc
  <2>2. CachedFinalizerIsHeld'
    <3>1. CASE UNCHANGED cProfile
      BY <2>1, <3>1 DEF HeldInv, CachedFinalizerIsHeld, KeepsFinalizer
    <3>2. CASE UNCHANGED profile /\ cProfile' = profile
      BY <3>2 DEF CachedFinalizerIsHeld
    <3> QED
      BY <1>1, <3>1, <3>2 DEF CopyMoves
  <2>3. DeletesDeleted'
    BY <2>1 DEF HeldInv, DeletesDeleted, PcMoves, Path, Working
  <2>4. FinalizerHeldWhileWorking'
    <3>1. CASE pc \in Working /\ inst' = inst
      BY <2>1, <3>1 DEF HeldInv, FinalizerHeldWhileWorking, KeepsFinalizer
    <3>2. CASE cProfile # NoObj /\ inst' = cProfile /\ pc' = Path(cProfile) /\ UNCHANGED profile
      BY <3>2 DEF HeldInv, CachedFinalizerIsHeld, Path, FinalizerHeldWhileWorking, Working
    <3> QED
      BY <2>1, <3>1, <3>2 DEF PcMoves, FinalizerHeldWhileWorking, Working
  <2> QED
    BY <1>2, <2>2, <2>3, <2>4 DEF HeldInv
<1> QED
  BY <1>3, <1>4

\* The invariant holds at the start.
LEMMA HeldInit == Init => HeldInv
<1> SUFFICES ASSUME Init PROVE HeldInv
  OBVIOUS
<1>1. pc = "idle" /\ inst = NoObj /\ cProfile = profile
  BY DEF Init
<1>2. DeletesDeleted /\ FinalizerHeldWhileWorking /\ CachedFinalizerIsHeld
  BY <1>1 DEF DeletesDeleted, FinalizerHeldWhileWorking, CachedFinalizerIsHeld, Working
<1>3. profile # NoObj => profile.uid <= lastUid /\ Newer(profile, profile)
  <2>1. profile # NoObj => profile.uid = 1 /\ lastUid = 1
    BY DEF Init, Upgraded
  <2> QED
    BY <2>1 DEF Newer
<1> QED
  BY <1>1, <1>2, <1>3 DEF HeldInv, CopiesAreOlder

\* The strengthened invariant holds in every behaviour.
LEMMA HeldInvariant == Spec => [](TypeOK /\ HeldInv)
<1>1. HeldInv /\ TypeOK /\ TypeOK' /\ [Next]_vars => HeldInv'
  BY HeldStep
<1> QED
  BY <1>1, HeldInit, TypeCorrect, PTL DEF Spec

\* While Reconcile is past the finalizer check, its instance is in the API
\* server and holds the operator's finalizer, for any lag of the caches and any
\* number of incarnations, edits, failures and restarts.
THEOREM FinalizerHeld == Spec => []FinalizerHeldWhileWorking
<1>1. HeldInv => FinalizerHeldWhileWorking
  BY DEF HeldInv
<1> QED
  BY <1>1, HeldInvariant, PTL

-----------------------------------------------------------------------------
(* The owners of created components.                                       *)

\* A component that applyComponents is to create has the instance as its owner.
NewComponentsAreOwned ==
    pc = "apply" =>
        \A k \in Kinds : mutated[k] # NoObj /\ mutated[k].base = NoObj =>
            mutated[k].obj.owner = inst.uid

\* What a single step may do to the components: a kind comes into being only by
\* createOrUpdate* of a new object.
LEMMA CreatingStep ==
    ASSUME TypeOK, [Next]_vars, NEW k \in Kinds, objs[k] = NoObj, objs'[k] # NoObj
    PROVE  /\ pc = "apply" /\ ApplyOrder[step] = k
           /\ mutated[k] # NoObj /\ mutated[k].base = NoObj /\ objs'[k] = mutated[k].obj
<1>1. k \in Objs /\ objs \in [Objs -> Component \union {NoObj}]
  BY DEF Objs, TypeOK
<1>2. CASE createOrUpdateComponent
  <2> DEFINE o == ApplyOrder[step]
             kk == IF o = "OldTuned" THEN "Tuned" ELSE o
  <2>1. /\ pc = "apply"
        /\ \/ UNCHANGED objs
           \/ mutated[kk] # NoObj /\ o \in Kinds /\ createOrUpdate(kk)
           \/ removeOutdatedTuned
    BY <1>2 DEF createOrUpdateComponent
  <2>2. ~removeOutdatedTuned
    BY <1>1 DEF removeOutdatedTuned, DeleteObj
  <2>3. mutated[kk] # NoObj /\ createOrUpdate(kk) /\ kk = ApplyOrder[step]
    BY <1>1, <2>1, <2>2 DEF Kinds
  <2> HIDE DEF o, kk
  <2>4. objs' = [objs EXCEPT ![kk] = mutated[kk].obj]
    BY <1>1, <2>3 DEF createOrUpdate
  <2>5. kk = k
    BY <1>1, <2>4
  <2>6. mutated[k].base = NoObj
    BY <1>1, <2>3, <2>5 DEF createOrUpdate, Call
  <2> QED
    BY <1>1, <2>1, <2>3, <2>4, <2>5, <2>6
<1>3. CASE \/ Reconcile \/ releaseFinalizer \/ addFinalizer \/ findPool
           \/ applyComponents \/ getConditions \/ updateStatus
  BY <1>3 DEF Reconcile, releaseFinalizer, addFinalizer, findPool, applyComponents,
              getConditions, updateStatus, api
<1>4. CASE deleteComponents \/ deleteDeprecatedComponents
  <2>1. PICK o \in {DeleteOrder[step], "OldMachineConfig"} :
          objs' = objs \/ objs' = [objs EXCEPT ![o] = NoObj]
    BY <1>4 DEF deleteComponents, deleteDeprecatedComponents, DeleteObj
  <2> QED
    BY <1>1, <2>1
<1>5. CASE CreateProfile \/ EditProfile \/ DeleteProfile \/ ReleaseOther \/ EditPool
  BY <1>5 DEF CreateProfile, EditProfile, DeleteProfile, ReleaseOther, EditPool
<1>6. CASE EditComponent
  BY <1>1, <1>6 DEF EditComponent
<1>7. CASE \E o \in Objs : CollectGarbage(o)
  BY <1>1, <1>7 DEF CollectGarbage
<1>8. CASE ReportStatus
  BY <1>1, <1>8 DEF ReportStatus
<1>9. CASE Informers \/ Resync \/ Restart \/ UNCHANGED vars
  BY <1>9 DEF Informers, DeliverProfile, DeliverObj, DeliverPool, DeliverTuned,
              Resync, Restart, vars, api
<1> QED
  BY <1>2, <1>3, <1>4, <1>5, <1>6, <1>7, <1>8, <1>9
     DEF Next, OperatorStep, ClusterStep, Operator, Cluster

\* In a step that ends in applyComponents' writes, the mutations are fresh
\* (getMutated*) or what was left of the earlier ones.
LEMMA ApplyingStep ==
    ASSUME TypeOK, [Next]_vars, pc' = "apply"
    PROVE  /\ inst' = inst
           /\ \/ pc = "mutate" /\ ~IsPaused(inst) /\ step' = step /\ UNCHANGED objs
                 /\ mutated' = [k \in Kinds |-> getMutated(k)]
              \/ /\ pc = "apply"
                 /\ \A k \in Kinds : mutated'[k] \in {mutated[k], NoObj}
                 /\ createOrUpdateComponent \/ UNCHANGED <<step, mutated>>
<1>0. mutated \in [Kinds -> Mutation \union {NoObj}]
  BY DEF TypeOK
<1>1. CASE createOrUpdateComponent
  <2>1. \/ UNCHANGED mutated
        \/ \E k \in Kinds : mutated' = [mutated EXCEPT ![k] = NoObj]
    BY <1>1 DEF createOrUpdateComponent, createOrUpdate, removeOutdatedTuned, Kinds
  <2> QED
    BY <1>0, <1>1, <2>1 DEF createOrUpdateComponent
<1>2. CASE applyComponents
  BY <1>2 DEF applyComponents, Degrade, api
<1>3. CASE Reconcile
  BY <1>3 DEF Reconcile, Path
<1>4. CASE deleteComponents \/ releaseFinalizer \/ addFinalizer \/ updateStatus
  BY <1>4 DEF deleteComponents, releaseFinalizer, addFinalizer, updateStatus, Return
<1>5. CASE findPool \/ deleteDeprecatedComponents \/ getConditions
  BY <1>5 DEF findPool, deleteDeprecatedComponents, getConditions, Degrade, Return
<1>6. CASE Cluster
  BY <1>6 DEF Cluster, CreateProfile, EditProfile, DeleteProfile, ReleaseOther,
              EditComponent, CollectGarbage, ReportStatus, EditPool, locals
<1>7. CASE Informers \/ Resync \/ Restart \/ UNCHANGED vars
  BY <1>7 DEF Informers, DeliverProfile, DeliverObj, DeliverPool, DeliverTuned,
              Resync, Restart, vars, locals
<1> QED
  BY <1>1, <1>2, <1>3, <1>4, <1>5, <1>6, <1>7
     DEF Next, OperatorStep, ClusterStep, Operator

\* The inductive step for the owners.
LEMMA OwnedStep ==
    ASSUME TypeOK, NewComponentsAreOwned, [Next]_vars
    PROVE  NewComponentsAreOwned'
<1> SUFFICES ASSUME pc' = "apply", NEW k \in Kinds,
                    mutated'[k] # NoObj, mutated'[k].base = NoObj
             PROVE  mutated'[k].obj.owner = inst'.uid
  BY DEF NewComponentsAreOwned
<1>1. CASE mutated' = [kk \in Kinds |-> getMutated(kk)] /\ inst' = inst
  <2>1. cObjs[k] = NoObj
    BY <1>1 DEF getMutated
  <2> QED
    BY <1>1, <2>1 DEF getMutated
<1>2. CASE pc = "apply" /\ mutated'[k] \in {mutated[k], NoObj} /\ inst' = inst
  BY <1>2 DEF NewComponentsAreOwned
<1> QED
  BY <1>1, <1>2, ApplyingStep

\* Create only makes components whose owner is in the API server and held there
\* by the operator's finalizer: no component is created for a profile that is
\* gone, however old the copy applyComponents works on.
THEOREM CreatedForHeld == Spec => CreatedForHeldProfile
<1>1. Init => NewComponentsAreOwned
  BY DEF Init, NewComponentsAreOwned
<1>2. TypeOK /\ NewComponentsAreOwned /\ [Next]_vars => NewComponentsAreOwned'
  BY OwnedStep
<1>3. ASSUME TypeOK, HeldInv, NewComponentsAreOwned, [Next]_vars
      PROVE  [\A k \in Kinds :
                objs[k] = NoObj /\ objs'[k] # NoObj =>
                    /\ profile # NoObj
                    /\ objs'[k].owner = profile.uid
                    /\ Finalizer \in profile.finalizers]_vars
  <2> SUFFICES ASSUME NEW k \in Kinds, objs[k] = NoObj, objs'[k] # NoObj
               PROVE  /\ profile # NoObj
                      /\ objs'[k].owner = profile.uid
                      /\ Finalizer \in profile.finalizers
    OBVIOUS
  <2>1. /\ pc = "apply"
        /\ mutated[k] # NoObj /\ mutated[k].base = NoObj /\ objs'[k] = mutated[k].obj
    BY <1>3, CreatingStep
  <2>2. objs'[k].owner = inst.uid
    BY <1>3, <2>1 DEF NewComponentsAreOwned
  <2> QED
    BY <1>3, <2>1, <2>2 DEF HeldInv, FinalizerHeldWhileWorking, Working
<1> QED
  BY <1>1, <1>2, <1>3, HeldInvariant, PTL DEF Spec, CreatedForHeldProfile

-----------------------------------------------------------------------------
(* Paused profiles.                                                        *)

\* applyComponents writes for an instance that is not paused.
AppliesUnpaused == pc = "apply" => ~IsPaused(inst)

\* Only createOrUpdate* replaces what was edited by hand.
LEMMA OverwritingStep ==
    ASSUME TypeOK, [Next]_vars, NEW k \in Kinds,
           objs[k] # NoObj, objs[k].content = "manual",
           objs'[k] # NoObj, objs'[k].content # "manual"
    PROVE  pc = "apply"
<1>1. k \in Objs /\ objs \in [Objs -> Component \union {NoObj}]
  BY DEF Objs, TypeOK
<1>2. CASE createOrUpdateComponent
  BY <1>2 DEF createOrUpdateComponent
<1>3. CASE \/ Reconcile \/ releaseFinalizer \/ addFinalizer \/ findPool
           \/ applyComponents \/ getConditions \/ updateStatus
  BY <1>3 DEF Reconcile, releaseFinalizer, addFinalizer, findPool, applyComponents,
              getConditions, updateStatus, api
<1>4. CASE deleteComponents \/ deleteDeprecatedComponents
  <2>1. PICK o \in {DeleteOrder[step], "OldMachineConfig"} :
          objs' = objs \/ objs' = [objs EXCEPT ![o] = NoObj]
    BY <1>4 DEF deleteComponents, deleteDeprecatedComponents, DeleteObj
  <2> QED
    BY <1>1, <2>1
<1>5. CASE CreateProfile \/ EditProfile \/ DeleteProfile \/ ReleaseOther \/ EditPool
  BY <1>5 DEF CreateProfile, EditProfile, DeleteProfile, ReleaseOther, EditPool
<1>6. CASE EditComponent
  BY <1>1, <1>6 DEF EditComponent, Component
<1>7. CASE \E o \in Objs : CollectGarbage(o)
  BY <1>1, <1>7 DEF CollectGarbage
<1>8. CASE ReportStatus
  BY <1>1, <1>8 DEF ReportStatus, Component
<1>9. CASE Informers \/ Resync \/ Restart \/ UNCHANGED vars
  BY <1>9 DEF Informers, DeliverProfile, DeliverObj, DeliverPool, DeliverTuned,
              Resync, Restart, vars, api
<1> QED
  BY <1>2, <1>3, <1>4, <1>5, <1>6, <1>7, <1>8, <1>9
     DEF Next, OperatorStep, ClusterStep, Operator, Cluster

\* A component edited by hand is overwritten only by a reconcile whose copy of
\* the profile is not paused, whatever the informers and the resync bring.
THEOREM PausedKept == Spec => PausedEditsKept
<1>1. Init => AppliesUnpaused
  BY DEF Init, AppliesUnpaused
<1>2. TypeOK /\ AppliesUnpaused /\ [Next]_vars => AppliesUnpaused'
  <2> SUFFICES ASSUME TypeOK, AppliesUnpaused, [Next]_vars, pc' = "apply"
               PROVE  ~IsPaused(inst')
    BY DEF AppliesUnpaused, IsPaused
  <2>1. inst' = inst /\ (~IsPaused(inst) \/ pc = "apply")
    BY ApplyingStep
  <2> QED
    BY <2>1 DEF AppliesUnpaused
<1>3. ASSUME TypeOK, AppliesUnpaused, [Next]_vars
      PROVE  [\A k \in Kinds :
                /\ objs[k] # NoObj /\ objs[k].content = "manual"
                /\ objs'[k] # NoObj /\ objs'[k].content # "manual"
                => inst # NoObj /\ ~inst.paused]_vars
  <2> SUFFICES ASSUME NEW k \in Kinds,
                      objs[k] # NoObj, objs[k].content = "manual",
                      objs'[k] # NoObj, objs'[k].content # "manual"
               PROVE  inst # NoObj /\ ~inst.paused
    OBVIOUS
  <2>1. pc = "apply"
    BY <1>3, OverwritingStep
  <2> QED
    BY <1>3, <2>1 DEF AppliesUnpaused, IsPaused, TypeOK
<1> QED
  BY <1>1, <1>2, <1>3, TypeCorrect, PTL DEF Spec, PausedEditsKept

-----------------------------------------------------------------------------
(* Outdated Tuned objects.                                                 *)

\* No outdated Tuned is created, so that a cache without one is right; and once
\* applyComponents is past removeOutdatedTuned there is none.
OutdatedInv ==
    /\ pc \in {"idle", "pool", "legacy", "mutate"} => step = 1
    /\ cObjs["OldTuned"] = NoObj => objs["OldTuned"] = NoObj
    /\ pc = "apply" /\ step >= 3 /\ mutated["Tuned"] # NoObj => objs["OldTuned"] = NoObj
    /\ OutdatedTunedRemovedFirst

\* Nobody creates an outdated Tuned.
LEMMA OldTunedNotCreated ==
    ASSUME TypeOK, [Next]_vars, objs["OldTuned"] = NoObj
    PROVE  objs'["OldTuned"] = NoObj
<1>1. "OldTuned" \in Objs /\ objs \in [Objs -> Component \union {NoObj}]
  BY DEF Objs, Legacy, TypeOK
<1>2. CASE createOrUpdateComponent
  <2>1. \/ UNCHANGED objs
        \/ \E k \in Kinds : createOrUpdate(k)
        \/ removeOutdatedTuned
    BY <1>2 DEF createOrUpdateComponent, Kinds
  <2>2. ASSUME NEW k \in Kinds, createOrUpdate(k)
        PROVE  objs'["OldTuned"] = NoObj
    <3>1. k # "OldTuned"
      BY DEF Kinds
    <3> QED
      BY <1>1, <2>2, <3>1 DEF createOrUpdate
  <2>3. CASE removeOutdatedTuned
    BY <1>1, <2>3 DEF removeOutdatedTuned, DeleteObj
  <2> QED
    BY <2>1, <2>2, <2>3
<1>3. CASE \/ Reconcile \/ releaseFinalizer \/ addFinalizer \/ findPool
           \/ applyComponents \/ getConditions \/ updateStatus
  BY <1>3 DEF Reconcile, releaseFinalizer, addFinalizer, findPool, applyComponents,
              getConditions, updateStatus, api
<1>4. CASE deleteComponents \/ deleteDeprecatedComponents
  <2>1. PICK o \in {DeleteOrder[step], "OldMachineConfig"} :
          objs' = objs \/ objs' = [objs EXCEPT ![o] = NoObj]
    BY <1>4 DEF deleteComponents, deleteDeprecatedComponents, DeleteObj
  <2> QED
    BY <1>1, <2>1
<1>5. CASE CreateProfile \/ EditProfile \/ DeleteProfile \/ ReleaseOther \/ EditPool
  BY <1>5 DEF CreateProfile, EditProfile, DeleteProfile, ReleaseOther, EditPool
<1>6. CASE EditComponent
  BY <1>1, <1>6 DEF EditComponent, Kinds
<1>7. CASE \E o \in Objs : CollectGarbage(o)
  BY <1>1, <1>7 DEF CollectGarbage
<1>8. CASE ReportStatus
  BY <1>1, <1>8 DEF ReportStatus
<1>9. CASE Informers \/ Resync \/ Restart \/ UNCHANGED vars
  BY <1>9 DEF Informers, DeliverProfile, DeliverObj, DeliverPool, DeliverTuned,
              Resync, Restart, vars, api
<1> QED
  BY <1>2, <1>3, <1>4, <1>5, <1>6, <1>7, <1>8, <1>9
     DEF Next, OperatorStep, ClusterStep, Operator, Cluster

\* Only deliveries and restarts touch the cached components.
LEMMA CachedObjs ==
    ASSUME TypeOK, [Next]_vars
    PROVE  \/ UNCHANGED cObjs
           \/ UNCHANGED objs /\ \A o \in Objs : cObjs'[o] \in {cObjs[o], objs[o]}
<1>1. cObjs \in [Objs -> Component \union {NoObj}]
  BY DEF TypeOK
<1>2. CASE Operator
  BY <1>2 DEF Operator, Reconcile, deleteComponents, releaseFinalizer, addFinalizer, findPool,
              deleteDeprecatedComponents, applyComponents, createOrUpdateComponent,
              getConditions, updateStatus, caches
<1>3. CASE Cluster
  BY <1>3 DEF Cluster, CreateProfile, EditProfile, DeleteProfile, ReleaseOther,
              EditComponent, CollectGarbage, ReportStatus, EditPool, caches
<1>4. CASE \E o \in Objs : DeliverObj(o)
  BY <1>1, <1>4 DEF DeliverObj, api
<1>5. CASE DeliverProfile \/ DeliverPool \/ DeliverTuned \/ Resync \/ Restart \/ UNCHANGED vars
  BY <1>5 DEF DeliverProfile, DeliverPool, DeliverTuned, Resync, Restart, vars, api, caches
<1> QED
  BY <1>2, <1>3, <1>4, <1>5 DEF Next, OperatorStep, ClusterStep, Informers

\* Before applyComponents' writes the position is 1, and every return and
\* restart sets it back.
LEMMA StepReset ==
    ASSUME TypeOK, OutdatedInv, [Next]_vars,
           pc' \in {"idle", "pool", "legacy", "mutate"}
    PROVE  step' = 1
<1> USE DEF OutdatedInv
<1>1. CASE Reconcile
  BY <1>1 DEF Reconcile
<1>2. CASE deleteComponents \/ releaseFinalizer \/ addFinalizer \/ updateStatus
  BY <1>2 DEF deleteComponents, releaseFinalizer, addFinalizer, updateStatus, Return
<1>3. CASE findPool \/ deleteDeprecatedComponents
  BY <1>3 DEF findPool, deleteDeprecatedComponents, Return, locals
<1>4. CASE applyComponents \/ getConditions
  BY <1>4 DEF applyComponents, getConditions, Degrade
<1>5. CASE createOrUpdateComponent
  BY <1>5 DEF createOrUpdateComponent, createOrUpdate, removeOutdatedTuned, Advance, Degrade
<1>6. CASE Cluster
  BY <1>6 DEF Cluster, CreateProfile, EditProfile, DeleteProfile, ReleaseOther,
              EditComponent, CollectGarbage, ReportStatus, EditPool, locals
<1>7. CASE Informers \/ Resync \/ Restart \/ UNCHANGED vars
  BY <1>7 DEF Informers, DeliverProfile, DeliverObj, DeliverPool, DeliverTuned,
              Resync, Restart, vars, locals
<1> QED
  BY <1>1, <1>2, <1>3, <1>4, <1>5, <1>6, <1>7
     DEF Next, OperatorStep, ClusterStep, Operator

\* The inductive step for the outdated Tuned objects.
LEMMA OutdatedStep ==
    ASSUME TypeOK, TypeOK', OutdatedInv, [Next]_vars
    PROVE  OutdatedInv'
<1>0. "OldTuned" \in Objs /\ "Tuned" \in Kinds /\ "Tuned" \in Objs
  BY DEF Objs, Legacy, Kinds
<1>1. pc' \in {"idle", "pool", "legacy", "mutate"} => step' = 1
  BY StepReset
<1>2. cObjs'["OldTuned"] = NoObj => objs'["OldTuned"] = NoObj
  BY <1>0, CachedObjs, OldTunedNotCreated DEF OutdatedInv
<1>3. ASSUME pc' = "apply", step' >= 3, mutated'["Tuned"] # NoObj
      PROVE  objs'["OldTuned"] = NoObj
  <2>1. CASE pc = "mutate" /\ step' = step
    BY <1>3, <2>1 DEF OutdatedInv
  <2>2. CASE UNCHANGED <<step, mutated>> /\ pc = "apply"
    BY <1>3, <2>2, OldTunedNotCreated DEF OutdatedInv
  <2>3. CASE createOrUpdateComponent /\ step >= 3 /\ pc = "apply" /\ mutated["Tuned"] # NoObj
    BY <2>3, OldTunedNotCreated DEF OutdatedInv
  <2>4. CASE createOrUpdateComponent /\ ~(step >= 3) /\ mutated["Tuned"] # NoObj
    <3>1. step = 2
      <4>1. step' \in {step, step + 1}
        BY <2>4 DEF createOrUpdateComponent, createOrUpdate, removeOutdatedTuned, Advance
      <4> QED
        BY <1>3, <2>4, <4>1 DEF TypeOK
    <3>2. ApplyOrder[step] = "OldTuned"
      BY <3>1 DEF ApplyOrder
    <3>3. removeOutdatedTuned
      BY <2>4, <3>2 DEF createOrUpdateComponent, Kinds
    <3>4. PICK applied \in BOOLEAN, ok \in BOOLEAN :
            DeleteObj("OldTuned", applied, ok) /\ ok
      BY <1>3, <3>3 DEF removeOutdatedTuned, Degrade
    <3>5. CASE cObjs["OldTuned"] = NoObj
      BY <3>5, OldTunedNotCreated DEF OutdatedInv
    <3>6. CASE cObjs["OldTuned"] # NoObj
      <4>1. objs' = [objs EXCEPT !["OldTuned"] = NoObj]
        BY <3>4, <3>6 DEF DeleteObj, Call
      <4> QED
        BY <1>0, <4>1 DEF TypeOK
    <3> QED
      BY <3>5, <3>6
  <2> QED
    BY <1>0, <1>3, <2>1, <2>2, <2>3, <2>4, ApplyingStep
<1>4. OutdatedTunedRemovedFirst'
  <2> SUFFICES ASSUME objs'["Tuned"] # NoObj PROVE objs'["OldTuned"] = NoObj
    BY DEF OutdatedTunedRemovedFirst
  <2>1. CASE objs["Tuned"] # NoObj
    BY <2>1, OldTunedNotCreated DEF OutdatedInv, OutdatedTunedRemovedFirst
  <2>2. CASE objs["Tuned"] = NoObj
    <3>1. pc = "apply" /\ mutated["Tuned"] # NoObj
      BY <1>0, <2>2, CreatingStep
    <3>2. step >= 3
      <4>1. ApplyOrder[step] = "Tuned" /\ step \in 1..5
        BY <1>0, <2>2, CreatingStep DEF TypeOK
      <4> QED
        BY <4>1 DEF ApplyOrder
    <3> QED
      BY <3>1, <3>2, OldTunedNotCreated DEF OutdatedInv
  <2> QED
    BY <2>1, <2>2
<1> QED
  BY <1>1, <1>2, <1>3, <1>4 DEF OutdatedInv

\* The invariant holds from the start: no release leaves both behind.
LEMMA OutdatedInvariant == Spec => [](TypeOK /\ OutdatedInv)
<1>1. Init => OutdatedInv
  <2> SUFFICES ASSUME Init PROVE OutdatedInv
    OBVIOUS
  <2>1. "Tuned" \in Objs /\ "OldTuned" \in Objs
    BY DEF Objs, Kinds, Legacy
  <2>2. objs["Tuned"] = NoObj
    <3>1. CASE objs = [o \in Objs |-> NoObj]
      BY <2>1, <3>1
    <3>2. CASE \E s \in Specs : objs = LegacyObjs(s)
      BY <2>1, <3>2 DEF LegacyObjs, Legacy
    <3> QED
      BY <3>1, <3>2 DEF Init
  <2> QED
    BY <2>2 DEF Init, OutdatedInv, OutdatedTunedRemovedFirst
<1>2. TypeOK /\ TypeOK' /\ OutdatedInv /\ [Next]_vars => OutdatedInv'
  BY OutdatedStep
<1> QED
  BY <1>1, <1>2, TypeCorrect, PTL DEF Spec

\* The Tuned of this release never exists beside an outdated one: through
\* failed calls, lost responses, restarts and upgrades, removeOutdatedTuned has
\* done its work before createOrUpdateTuned writes.
THEOREM OutdatedRemovedFirst == Spec => []OutdatedTunedRemovedFirst
<1>1. OutdatedInv => OutdatedTunedRemovedFirst
  BY DEF OutdatedInv
<1> QED
  BY <1>1, OutdatedInvariant, PTL

-----------------------------------------------------------------------------
(* Convergence.  Once nothing is going to make Reconcile run again for an  *)
(* existing profile (Unprompted, PoolSettled), everything that Reconcile   *)
(* has read is still true; so what it has left behind is what the profile  *)
(* and the cluster ask for.                                                *)

\* The profile exists, its key is not queued and no event that will queue it
\* is under way, events of the pools left aside.
Unprompted ==
    /\ ~queued /\ profile # NoObj
    /\ \A e \in Objs \union {"profile", "tuned"} : e \notin events

\* The pools are as Reconcile has last listed them, except for a status that
\* nobody looks at.
PoolSettled ==
    poolKnown /\ ("pool" \in events => pool.config \in {"absent", "unmatched"})

\* A cache that no event is going to refresh differs from the API server in
\* nothing that the predicates of SetupWithManager let through.
CachesFollow ==
    /\ "profile" \notin events => cProfile = profile
    /\ "tuned" \notin events => cTunedFails = tunedFails
    /\ \A o \in Objs : o \notin events => ~ObjEvent(o, cObjs[o], objs[o])
    /\ poolKnown => /\ cPool.config = pool.config
                    /\ "pool" \notin events => cPool = pool

\* What the checks of Path, and the course of a reconcile, establish.
PathTaken ==
    /\ pc = "finalize" => Finalizer \notin inst.finalizers
    /\ pc \in Working => ~inst.deleting /\ Finalizer \in inst.finalizers
    /\ result => pc \in {"conditions", "status"}

\* getMutated* hands out a copy only when its content has to change.
MutationsDiffer ==
    \A k \in Kinds : mutated[k] # NoObj /\ mutated[k].base # NoObj =>
        mutated[k].base.content # mutated[k].obj.content

\* A reconcile that goes unprompted works on the profile as it is, and has
\* written nothing.
WorkAgrees ==
    Unprompted =>
        /\ pc # "idle" => inst = profile
        /\ ~result
        /\ pc \in {"mutate", "apply", "conditions"} => objs["OldMachineConfig"] = NoObj
        /\ pc = "apply" => \E i \in step..5 :
                               ApplyOrder[i] \in Kinds /\ mutated[ApplyOrder[i]] # NoObj
        /\ pc = "conditions" =>
               Deployed /\ (profile.paused \/ profile.spec \notin BadSpecs)

\* The condition c names what is wrong, or that nothing is.
Truthful(c) ==
    IF Complaints(pool) = {} THEN c = "Available" ELSE c \in Complaints(pool)

\* If moreover the pools are settled, the condition it is about to write is
\* true, and so is the state it leaves.
StatusAgrees ==
    Unprompted /\ PoolSettled =>
        /\ pc \in {"legacy", "mutate", "apply", "conditions"} =>
               profileMCP = pool /\ pool.config = "ok"
        /\ pc = "status" /\ ~failed =>
               Truthful(condition) /\ (pool.config = "ok" => Deployed)
        /\ pc = "idle" => ConvergedTo(pool)

SettleInv ==
    CachesFollow /\ PathTaken /\ MutationsDiffer /\ WorkAgrees /\ StatusAgrees

\* To pass the predicate of a watch unnoticed (ObjEvent) is an equivalence.
LEMMA UnnoticedTransitive ==
    ASSUME NEW o \in Objs,
           NEW a \in Component \union {NoObj}, NEW b \in Component \union {NoObj},
           NEW c \in Component \union {NoObj},
           ~ObjEvent(o, a, b), ~ObjEvent(o, b, c)
    PROVE  ~ObjEvent(o, a, c)
BY DEF ObjEvent

\* A step of Reconcile touches neither pools nor tuned reports, nor a cache;
\* it may learn of the pools, in findPool, or fail to.
LEMMA OperatorMoves ==
    ASSUME OperatorStep
    PROVE  /\ Observe
           /\ UNCHANGED <<pool, tunedFails, cProfile, cObjs, cPool, cTunedFails>>
           /\ poolKnown' # poolKnown /\ poolKnown' => cPool = pool
<1>1. Operator /\ Observe
  BY DEF OperatorStep
<1>2. CASE findPool
  BY <1>1, <1>2 DEF findPool, api
<1>3. CASE ~findPool
  BY <1>1, <1>3 DEF Operator, Reconcile, deleteComponents, releaseFinalizer, addFinalizer,
              deleteDeprecatedComponents, applyComponents, createOrUpdateComponent,
              getConditions, updateStatus, api, caches
<1> QED
  BY <1>2, <1>3

\* What the rest of the cluster does leaves Reconcile and its caches alone; of
\* the pools it changes the status (ReportStatus) or anything (EditPool).
LEMMA ClusterMoves ==
    ASSUME ClusterStep
    PROVE  /\ Observe
           /\ UNCHANGED <<cProfile, cObjs, cPool, cTunedFails, queued, pc, locals>>
           /\ \/ UNCHANGED <<pool, poolKnown>>
              \/ ~poolKnown'
              \/ /\ UNCHANGED poolKnown /\ pool.config # "absent"
                 /\ pool' = [pool EXCEPT !.degraded = ~@]
<1>1. Cluster /\ Observe
  BY DEF ClusterStep
<1>2. CASE EditPool
  BY <1>1, <1>2 DEF EditPool
<1>3. CASE ReportStatus
  BY <1>1, <1>3 DEF ReportStatus, caches
<1>4. CASE CreateProfile \/ EditProfile \/ DeleteProfile \/ ReleaseOther
  BY <1>1, <1>4 DEF CreateProfile, EditProfile, DeleteProfile, ReleaseOther, caches
<1>5. CASE EditComponent \/ (\E o \in Objs : CollectGarbage(o))
  BY <1>1, <1>5 DEF EditComponent, CollectGarbage, caches
<1> QED
  BY <1>1, <1>2, <1>3, <1>4, <1>5 DEF Cluster

\* A change that Observe announces to no one leaves the copies in the caches
\* as good as they were.
LEMMA ObservedFollows ==
    ASSUME TypeOK, TypeOK', CachesFollow, Observe,
           UNCHANGED <<cProfile, cObjs, cTunedFails>>
    PROVE  /\ "profile" \notin events' => cProfile' = profile'
           /\ "tuned" \notin events' => cTunedFails' = tunedFails'
           /\ \A o \in Objs : o \notin events' => ~ObjEvent(o, cObjs'[o], objs'[o])
<1>1. "profile" \notin events' => cProfile' = profile'
  BY DEF CachesFollow, Observe
<1>2. "tuned" \notin events' => cTunedFails' = tunedFails'
  BY DEF CachesFollow, Observe
<1>3. ASSUME NEW o \in Objs, o \notin events'
      PROVE  ~ObjEvent(o, cObjs'[o], objs'[o])
  <2>1. o \notin events /\ ~ObjEvent(o, objs[o], objs'[o])
    BY <1>3 DEF Observe
  <2>2. ~ObjEvent(o, cObjs[o], objs[o])
    BY <1>3, <2>1 DEF CachesFollow
  <2>3. /\ cObjs[o] \in Component \union {NoObj} /\ objs[o] \in Component \union {NoObj}
        /\ objs'[o] \in Component \union {NoObj}
    BY DEF TypeOK
  <2> QED
    BY <2>1, <2>2, <2>3, UnnoticedTransitive
<1> QED
  BY <1>1, <1>2, <1>3

\* The pools' cache under a change that Observe announces.
LEMMA ObservedPool ==
    ASSUME TypeOK, CachesFollow, Observe, UNCHANGED <<poolKnown, cPool>>,
           pool.config # "absent", pool' = [pool EXCEPT !.degraded = ~@]
    PROVE  /\ "pool" \in events'
           /\ poolKnown' => cPool'.config = pool'.config
<1>1. pool \in Pool
  BY DEF TypeOK
<1>2. pool'.config = pool.config /\ pool'.degraded # pool.degraded
  BY <1>1 DEF Pool
<1>3. PoolEvent(pool, pool')
  BY <1>2 DEF PoolEvent
<1> QED
  BY <1>2, <1>3 DEF Observe, CachesFollow

\* The caches keep following.
LEMMA CachesFollowStep ==
    ASSUME TypeOK, TypeOK', CachesFollow, [Next]_vars
    PROVE  CachesFollow'
<1>1. CASE OperatorStep
  <2>1. /\ "profile" \notin events' => cProfile' = profile'
        /\ "tuned" \notin events' => cTunedFails' = tunedFails'
        /\ \A o \in Objs : o \notin events' => ~ObjEvent(o, cObjs'[o], objs'[o])
    BY <1>1, OperatorMoves, ObservedFollows
  <2>2. poolKnown' => /\ cPool'.config = pool'.config
                      /\ "pool" \notin events' => cPool' = pool'
    BY <1>1, OperatorMoves DEF CachesFollow, Observe, TypeOK
  <2> QED
    BY <2>1, <2>2 DEF CachesFollow
<1>2. CASE ClusterStep
  <2>1. /\ "profile" \notin events' => cProfile' = profile'
        /\ "tuned" \notin events' => cTunedFails' = tunedFails'
        /\ \A o \in Objs : o \notin events' => ~ObjEvent(o, cObjs'[o], objs'[o])
    BY <1>2, ClusterMoves, ObservedFollows
  <2>2. poolKnown' => /\ cPool'.config = pool'.config
                      /\ "pool" \notin events' => cPool' = pool'
    <3>1. CASE UNCHANGED <<pool, poolKnown>>
      BY <1>2, <3>1, ClusterMoves DEF CachesFollow, Observe
    <3>2. CASE /\ UNCHANGED poolKnown /\ pool.config # "absent"
               /\ pool' = [pool EXCEPT !.degraded = ~@]
      BY <1>2, <3>2, ClusterMoves, ObservedPool
    <3> QED
      BY <1>2, <3>1, <3>2, ClusterMoves
  <2> QED
    BY <2>1, <2>2 DEF CachesFollow
<1>3. CASE DeliverProfile
  BY <1>3 DEF DeliverProfile, CachesFollow, api, Objs, Kinds, Legacy
<1>4. CASE \E o \in Objs : DeliverObj(o)
  <2>1. PICK o \in Objs : DeliverObj(o)
    BY <1>4
  <2>2. ~ObjEvent(o, objs[o], objs[o])
    BY DEF ObjEvent
  <2>3. cObjs' = [cObjs EXCEPT ![o] = objs[o]] /\ UNCHANGED api /\ events' = events \ {o}
    BY <2>1 DEF DeliverObj
  <2>4. \A x \in Objs : x \notin events' => ~ObjEvent(x, cObjs'[x], objs'[x])
    BY <2>2, <2>3 DEF CachesFollow, TypeOK, api
  <2>5. o \notin {"profile", "tuned", "pool"}
    BY DEF Objs, Kinds, Legacy
  <2> QED
    BY <2>1, <2>3, <2>4, <2>5 DEF DeliverObj, CachesFollow, api
<1>5. CASE DeliverPool
  BY <1>5 DEF DeliverPool, CachesFollow, api, Objs, Kinds, Legacy
<1>6. CASE DeliverTuned
  BY <1>6 DEF DeliverTuned, CachesFollow, api, Objs, Kinds, Legacy
<1>7. CASE Resync \/ UNCHANGED vars
  BY <1>7 DEF Resync, CachesFollow, api, caches, vars
<1>8. CASE Restart
  BY <1>8 DEF Restart, CachesFollow, ObjEvent, api
<1> QED
  BY <1>1, <1>2, <1>3, <1>4, <1>5, <1>6, <1>7, <1>8 DEF Next, Informers

\* The path of a reconcile stays the one its checks have led to.
LEMMA PathTakenStep ==
    ASSUME TypeOK, PathTaken, [Next]_vars
    PROVE  PathTaken'
<1> USE DEF PathTaken
<1>1. CASE Reconcile
  BY <1>1 DEF Reconcile, Path, Working
<1>2. CASE deleteComponents
  BY <1>2 DEF deleteComponents, Return, Working, locals
<1>3. CASE addFinalizer \/ updateStatus
  <2>1. \E b : Return(b)
    BY <1>3 DEF addFinalizer, updateStatus
  <2> QED
    BY <2>1 DEF Return, Working
<1>4. CASE releaseFinalizer
  BY <1>4 DEF releaseFinalizer, Return, Working, locals
<1>5. CASE deleteDeprecatedComponents
  <2>1. (UNCHANGED locals /\ pc' = "mutate") \/ Return(TRUE)
    BY <1>5 DEF deleteDeprecatedComponents
  <2> QED
    BY <1>5, <2>1 DEF deleteDeprecatedComponents, Return, Working, locals
<1>6. CASE findPool \/ applyComponents \/ getConditions
  <2>1. pc \in {"pool", "mutate", "conditions"} /\ UNCHANGED <<inst, result>>
    BY <1>6 DEF findPool, applyComponents, getConditions
  <2>2. /\ pc' \in {"legacy", "apply", "conditions", "status"}
        /\ pc = "conditions" => pc' = "status"
    BY <1>6 DEF findPool, applyComponents, getConditions, Degrade
  <2> QED
    BY <2>1, <2>2 DEF Working
<1>7. CASE createOrUpdateComponent
  <2>1. pc = "apply" /\ UNCHANGED inst
    BY <1>7 DEF createOrUpdateComponent
  <2>2. Advance \/ (Degrade("ComponentCreationFailed") /\ UNCHANGED result)
    BY <1>7 DEF createOrUpdateComponent, createOrUpdate, removeOutdatedTuned
  <2> QED
    BY <2>1, <2>2 DEF Advance, Degrade, Working
<1>8. CASE ClusterStep
  BY <1>8, ClusterMoves DEF locals
<1>9. CASE Informers \/ Resync \/ Restart \/ UNCHANGED vars
  BY <1>9 DEF Informers, DeliverProfile, DeliverObj, DeliverPool, DeliverTuned,
              Resync, Restart, vars, locals, Working
<1> QED
  BY <1>1, <1>2, <1>3, <1>4, <1>5, <1>6, <1>7, <1>8, <1>9 DEF Next, OperatorStep, Operator

\* What waits to be written (mutated) comes from getMutated* and is written or
\* dropped.
LEMMA MutationsDifferStep ==
    ASSUME TypeOK, MutationsDiffer, [Next]_vars
    PROVE  MutationsDiffer'
<1> SUFFICES ASSUME NEW k \in Kinds, mutated'[k] # NoObj, mutated'[k].base # NoObj
             PROVE  mutated'[k].base.content # mutated'[k].obj.content
  BY DEF MutationsDiffer
<1>1. CASE mutated'[k] = mutated[k]
  BY <1>1 DEF MutationsDiffer
<1>2. CASE applyComponents
  <2>1. CASE UNCHANGED mutated
    BY <1>1, <2>1
  <2>2. CASE mutated' = [x \in Kinds |-> getMutated(x)]
    <3>1. mutated'[k] = getMutated(k)
      BY <2>2
    <3>2. cObjs[k] # NoObj /\ cObjs[k].content # Manifest[inst.spec][k]
      BY <3>1 DEF getMutated
    <3>3. cObjs[k] \in Component
      BY <3>2 DEF TypeOK, Objs
    <3>4. mutated'[k] = [obj  |-> [cObjs[k] EXCEPT !.content = Manifest[inst.spec][k]],
                         base |-> cObjs[k]]
      BY <3>1, <3>2 DEF getMutated
    <3> QED
      BY <3>2, <3>3, <3>4 DEF Component
  <2> QED
    BY <1>2, <2>1, <2>2 DEF applyComponents
<1>3. CASE createOrUpdateComponent
  <2>1. \/ UNCHANGED mutated
        \/ \E x : mutated' = [mutated EXCEPT ![x] = NoObj]
    BY <1>3 DEF createOrUpdateComponent, createOrUpdate, removeOutdatedTuned
  <2> QED
    BY <1>1, <2>1 DEF TypeOK
<1>4. CASE \/ Reconcile \/ deleteComponents \/ releaseFinalizer \/ addFinalizer \/ findPool
           \/ deleteDeprecatedComponents \/ getConditions \/ updateStatus
  <2>1. UNCHANGED mutated \/ mutated' = [x \in Kinds |-> NoObj]
    BY <1>4 DEF Reconcile, deleteComponents, releaseFinalizer, addFinalizer, findPool,
                deleteDeprecatedComponents, getConditions, updateStatus, Return, locals
  <2> QED
    BY <1>1, <2>1
<1>5. CASE ClusterStep
  BY <1>1, <1>5, ClusterMoves DEF locals
<1>6. CASE Informers \/ Resync \/ Restart \/ UNCHANGED vars
  <2>1. UNCHANGED mutated \/ mutated' = [x \in Kinds |-> NoObj]
    BY <1>6 DEF Informers, DeliverProfile, DeliverObj, DeliverPool, DeliverTuned,
                Resync, Restart, vars, locals
  <2> QED
    BY <1>1, <2>1
<1> QED
  BY <1>2, <1>3, <1>4, <1>5, <1>6 DEF Next, OperatorStep, Operator

\* Nothing has changed that Reconcile depends on, the pools left aside.
SameWorld ==
    /\ UNCHANGED <<profile, tunedFails>>
    /\ \A o \in Objs : ~ObjEvent(o, objs[o], objs'[o])

\* Outside Reconcile's own start, a key that is queued or about to be stays so:
\* if nothing prompts the next reconcile after a step, nothing did before it,
\* and the step has changed nothing of importance.
LEMMA UnpromptedStep ==
    ASSUME TypeOK, TypeOK', CachesFollow, [Next]_vars, ~(Reconcile /\ Observe), ~Restart,
           Unprompted'
    PROVE  Unprompted /\ SameWorld
<1>1. CASE Observe /\ (queued => queued')
  <2>1. profile' = profile /\ tunedFails' = tunedFails
    BY <1>1 DEF Observe, Unprompted
  <2>2. \A o \in Objs : ~ObjEvent(o, objs[o], objs'[o])
    BY <1>1 DEF Observe, Unprompted
  <2>3. events \subseteq events'
    BY <1>1 DEF Observe
  <2> QED
    BY <1>1, <2>1, <2>2, <2>3 DEF Unprompted, SameWorld
<1>2. CASE Operator /\ Observe
  <2>1. queued => queued'
    BY <1>2 DEF Operator, deleteComponents, releaseFinalizer, addFinalizer, findPool,
         deleteDeprecatedComponents, applyComponents, createOrUpdateComponent,
         getConditions, updateStatus, Return
  <2> QED
    BY <1>1, <1>2, <2>1
<1>3. CASE ClusterStep
  BY <1>1, <1>3, ClusterMoves
<1>4. \A o \in Objs : ~ObjEvent(o, objs[o], objs[o])
  BY DEF ObjEvent
<1>5. CASE DeliverProfile
  BY <1>5 DEF DeliverProfile, Unprompted
<1>6. CASE \E o \in Objs : DeliverObj(o)
  <2>1. PICK o \in Objs : DeliverObj(o)
    BY <1>6
  <2>2. o \notin events /\ ~queued
    BY <2>1 DEF DeliverObj, Unprompted
  <2> QED
    BY <1>4, <2>1, <2>2 DEF DeliverObj, Unprompted, SameWorld, api
<1>7. CASE DeliverPool
  <2>1. ~queued
    BY <1>7 DEF DeliverPool, Unprompted
  <2> QED
    BY <1>4, <1>7, <2>1 DEF DeliverPool, Unprompted, SameWorld, api, Objs, Kinds, Legacy
<1>8. CASE DeliverTuned
  <2>1. profile # NoObj /\ "profile" \notin events
    BY <1>8 DEF DeliverTuned, Unprompted, api
  <2>2. cProfile # NoObj
    BY <2>1 DEF CachesFollow
  <2> QED
    BY <1>8, <2>2 DEF DeliverTuned, Unprompted
<1>9. CASE Resync
  BY <1>9 DEF Resync, Unprompted
<1>10. CASE UNCHANGED vars
  BY <1>4, <1>10 DEF vars, api, Unprompted, SameWorld
<1> QED
  BY <1>2, <1>3, <1>5, <1>6, <1>7, <1>8, <1>9, <1>10
     DEF Next, OperatorStep, Informers

\* The pools have not changed in what Reconcile makes of them.
SamePool ==
    /\ pool'.config = pool.config
    /\ pool.config \in {"mismatch", "ok"} => UNCHANGED pool

\* Outside findPool, pools that are settled after a step were so before it.
LEMMA PoolSettledStep ==
    ASSUME TypeOK, TypeOK', CachesFollow, [Next]_vars, ~(Reconcile /\ Observe), ~Restart,
           ~(findPool /\ Observe), Unprompted', PoolSettled'
    PROVE  PoolSettled /\ SamePool
<1>1. pool \in Pool
  BY DEF TypeOK
<1>2. CASE Observe /\ UNCHANGED <<pool, poolKnown>>
  BY <1>2 DEF Observe, PoolSettled, SamePool
<1>3. CASE OperatorStep
  <2>1. Observe /\ UNCHANGED pool
    BY <1>3, OperatorMoves
  <2>2. UNCHANGED poolKnown
    BY <1>3 DEF OperatorStep, Operator, deleteComponents, releaseFinalizer, addFinalizer,
         deleteDeprecatedComponents, applyComponents, createOrUpdateComponent,
         getConditions, updateStatus, caches
  <2> QED
    BY <1>2, <2>1, <2>2
<1>4. CASE ClusterStep
  <2>1. CASE ~poolKnown'
    BY <2>1 DEF PoolSettled
  <2>2. CASE /\ UNCHANGED poolKnown /\ pool.config # "absent"
             /\ pool' = [pool EXCEPT !.degraded = ~@]
    <3>1. "pool" \in events'
      BY <1>4, <2>2, ClusterMoves, ObservedPool
    <3>2. pool'.config = pool.config
      BY <1>1, <2>2 DEF Pool
    <3> QED
      BY <2>2, <3>1, <3>2 DEF PoolSettled, SamePool
  <2> QED
    BY <1>2, <1>4, <2>1, <2>2, ClusterMoves
<1>5. CASE DeliverPool
  <2>1. profile # NoObj /\ "profile" \notin events
    BY <1>5 DEF DeliverPool, Unprompted, api
  <2>2. cProfile # NoObj
    BY <2>1 DEF CachesFollow
  <2> QED
    BY <1>5, <2>2 DEF DeliverPool, Unprompted, PoolSettled, SamePool, api
<1>6. CASE DeliverProfile \/ DeliverTuned
  BY <1>6 DEF DeliverProfile, DeliverTuned, PoolSettled, SamePool, api
<1>7. CASE \E o \in Objs : DeliverObj(o)
  <2>1. PICK o \in Objs : DeliverObj(o)
    BY <1>7
  <2>2. o # "pool"
    BY DEF Objs, Kinds, Legacy
  <2> QED
    BY <2>1, <2>2 DEF DeliverObj, PoolSettled, SamePool, api
<1>8. CASE Resync \/ UNCHANGED vars
  BY <1>8 DEF Resync, PoolSettled, SamePool, api, caches, vars
<1> QED
  BY <1>3, <1>4, <1>5, <1>6, <1>7, <1>8 DEF Next, Informers

\* In the same world the same components are missing or wrong.
LEMMA DeployedKept ==
    ASSUME TypeOK, TypeOK', SameWorld
    PROVE  /\ Deployed => Deployed'
           /\ objs["OldMachineConfig"] = NoObj => objs'["OldMachineConfig"] = NoObj
<1>1. "OldMachineConfig" \in Objs /\ Kinds \subseteq Objs
  BY DEF Objs, Legacy
<1>2. ASSUME NEW o \in Objs
      PROVE  /\ objs'[o] = NoObj <=> objs[o] = NoObj
             /\ objs[o] # NoObj => objs'[o].content = objs[o].content
  BY <1>2 DEF SameWorld, ObjEvent
<1>3. profile' = profile
  BY DEF SameWorld
<1> QED
  BY <1>1, <1>2, <1>3 DEF Deployed

\* In the same world with the same pools the same is wrong.
LEMMA TruthKept ==
    ASSUME TypeOK, TypeOK', SameWorld, SamePool
    PROVE  /\ Complaints(pool)' = Complaints(pool)
           /\ \A c : Truthful(c) => Truthful(c)'
<1>1. profile' = profile /\ tunedFails' = tunedFails
  BY DEF SameWorld
<1>2. /\ objs'["KubeletConfig"] = NoObj <=> objs["KubeletConfig"] = NoObj
      /\ objs["KubeletConfig"] # NoObj =>
             objs'["KubeletConfig"].failed = objs["KubeletConfig"].failed
  <2>1. ~ObjEvent("KubeletConfig", objs["KubeletConfig"], objs'["KubeletConfig"])
    BY DEF SameWorld, Objs, Kinds
  <2> QED
    BY <2>1 DEF ObjEvent
<1>3. /\ pool'.config = pool.config
      /\ pool.config \in {"absent", "unmatched", "mismatch"} \/ pool' = pool
  BY DEF SamePool, TypeOK, Pool
<1>4. Complaints(pool)' = Complaints(pool)
  BY <1>1, <1>2, <1>3 DEF Complaints
<1> QED
  BY <1>4 DEF Truthful

\* ConvergedTo in the terms of the invariant.
LEMMA ConvergedMeans ==
    ConvergedTo(pool) <=>
        (profile # NoObj =>
            /\ ~profile.deleting /\ Finalizer \in profile.finalizers
            /\ Truthful(profile.conditions)
            /\ pool.config = "ok" => Deployed)
BY DEF ConvergedTo, Truthful

\* Whatever leaves Reconcile alone keeps the facts about its work.
LEMMA BystanderStep ==
    ASSUME TypeOK, TypeOK', SettleInv, [Next]_vars, ~OperatorStep, ~Restart,
           UNCHANGED <<pc, locals>>
    PROVE  WorkAgrees' /\ StatusAgrees'
<1>0. ~(Reconcile /\ Observe) /\ ~(findPool /\ Observe)
  BY DEF Operator, OperatorStep
<1>1. ASSUME Unprompted'
      PROVE  Unprompted /\ SameWorld
  BY <1>0, <1>1, UnpromptedStep DEF SettleInv
<1>2. WorkAgrees'
  <2> SUFFICES ASSUME Unprompted'
               PROVE  /\ pc # "idle" => inst = profile'
                      /\ ~result
                      /\ pc \in {"mutate", "apply", "conditions"} =>
                             objs'["OldMachineConfig"] = NoObj
                      /\ pc = "apply" => \E i \in step..5 :
                             ApplyOrder[i] \in Kinds /\ mutated[ApplyOrder[i]] # NoObj
                      /\ pc = "conditions" =>
                             Deployed' /\ (profile'.paused \/ profile'.spec \notin BadSpecs)
    BY DEF WorkAgrees, locals
  <2>1. Unprompted /\ SameWorld
    BY <1>1
  <2> QED
    BY <2>1, DeployedKept DEF SettleInv, WorkAgrees, SameWorld
<1>3. StatusAgrees'
  <2> SUFFICES ASSUME Unprompted', PoolSettled'
               PROVE  /\ pc \in {"legacy", "mutate", "apply", "conditions"} =>
                             profileMCP = pool' /\ pool'.config = "ok"
                      /\ pc = "status" /\ ~failed =>
                             Truthful(condition)' /\ (pool'.config = "ok" => Deployed')
                      /\ pc = "idle" => ConvergedTo(pool)'
    BY DEF StatusAgrees, locals
  <2>1. Unprompted /\ SameWorld
    BY <1>1
  <2>2. PoolSettled /\ SamePool
    BY <1>0, PoolSettledStep DEF SettleInv
  <2>3. /\ pc \in {"legacy", "mutate", "apply", "conditions"} =>
               profileMCP = pool /\ pool.config = "ok"
        /\ pc = "status" /\ ~failed =>
               Truthful(condition) /\ (pool.config = "ok" => Deployed)
        /\ pc = "idle" => ConvergedTo(pool)
    BY <2>1, <2>2 DEF SettleInv, StatusAgrees
  <2>4. CASE pc \in {"legacy", "mutate", "apply", "conditions"}
    BY <2>2, <2>3, <2>4 DEF SamePool
  <2>5. CASE pc = "status" /\ ~failed
    <3>1. Truthful(condition)'
      BY <2>1, <2>2, <2>3, <2>5, TruthKept DEF locals, Truthful
    <3> QED
      BY <2>1, <2>2, <2>3, <2>5, <3>1, DeployedKept DEF SamePool
  <2>6. CASE pc = "idle"
    <3>1. Truthful(profile.conditions) => Truthful(profile.conditions)'
      BY <2>1, <2>2, TruthKept DEF SameWorld, Truthful
    <3> QED
      BY <2>1, <2>2, <2>3, <2>6, <3>1, DeployedKept, ConvergedMeans
         DEF SamePool, SameWorld, ConvergedTo, Truthful
  <2> QED
    BY <2>4, <2>5, <2>6
<1> QED
  BY <1>2, <1>3

\* What a step of Reconcile finds, if nothing prompts the next one after it.
LEMMA WorkStep ==
    ASSUME TypeOK, TypeOK', SettleInv, Operator, Observe, ~Reconcile, Unprompted'
    PROVE  /\ Unprompted /\ SameWorld
           /\ inst = profile /\ inst \in Profile /\ ~result
           /\ PoolSettled' /\ ~findPool => PoolSettled /\ SamePool
<1>1. Next
  BY DEF Next, OperatorStep
<1>2. CASE ~Restart
  <2>1. Unprompted /\ SameWorld
    BY <1>1, <1>2, UnpromptedStep DEF SettleInv
  <2>2. pc # "idle"
    BY DEF Operator, deleteComponents, releaseFinalizer, addFinalizer, findPool,
         deleteDeprecatedComponents, applyComponents, createOrUpdateComponent,
         getConditions, updateStatus
  <2>3. inst = profile /\ inst \in Profile /\ ~result
    BY <2>1, <2>2 DEF SettleInv, WorkAgrees, TypeOK
  <2>4. PoolSettled' /\ ~findPool => PoolSettled /\ SamePool
    BY <1>1, <1>2, PoolSettledStep DEF SettleInv
  <2> QED
    BY <2>1, <2>3, <2>4
<1>3. CASE Restart
  <2>1. queued'
    BY <1>3, OperatorMoves DEF Restart, Unprompted, api
  <2> QED
    BY <2>1 DEF Unprompted
<1> QED
  BY <1>2, <1>3

\* Nothing is claimed of a return that puts the key back.
LEMMA RequeuedStep ==
    ASSUME queued'
    PROVE  WorkAgrees' /\ StatusAgrees'
BY DEF WorkAgrees, StatusAgrees, Unprompted

\* Reconcile starts with the profile as it is, unless an event is coming.
LEMMA StartStep ==
    ASSUME TypeOK, TypeOK', SettleInv, Reconcile, Observe
    PROVE  WorkAgrees' /\ StatusAgrees'
<1> SUFFICES ASSUME Unprompted' PROVE WorkAgrees' /\ StatusAgrees'
  BY DEF WorkAgrees, StatusAgrees
<1>1. CachesFollow'
  BY CachesFollowStep DEF SettleInv, Next, OperatorStep, Operator
<1>2. cProfile' = profile' /\ profile' # NoObj /\ cProfile' = cProfile
  BY <1>1 DEF CachesFollow, Unprompted, Reconcile, caches
<1>3. inst' = profile' /\ pc' = Path(cProfile) /\ UNCHANGED result
  BY <1>2 DEF Reconcile, Unprompted
<1>4. ~result
  BY DEF SettleInv, PathTaken, Reconcile
<1>5. pc' \in {"delete", "finalize", "pool"}
  BY <1>3 DEF Path
<1> QED
  BY <1>3, <1>4, <1>5 DEF WorkAgrees, StatusAgrees

\* The deletion of the components goes on or ends in an error.
LEMMA DeletingStep ==
    ASSUME TypeOK, TypeOK', SettleInv, deleteComponents, Observe
    PROVE  WorkAgrees' /\ StatusAgrees'
<1>1. CASE Return(TRUE)
  BY <1>1, RequeuedStep DEF Return
<1>2. CASE pc' \in {"delete", "release"} /\ UNCHANGED <<inst, result>>
  <2> SUFFICES ASSUME Unprompted' PROVE WorkAgrees' /\ StatusAgrees'
    BY DEF WorkAgrees, StatusAgrees
  <2>1. inst = profile /\ ~result /\ SameWorld
    BY WorkStep DEF Operator, Reconcile, deleteComponents
  <2> QED
    BY <1>2, <2>1 DEF WorkAgrees, StatusAgrees, SameWorld
<1> QED
  BY <1>1, <1>2 DEF deleteComponents, locals

\* When the finalizer is released, the profile has changed.
LEMMA ReleasingStep ==
    ASSUME TypeOK, TypeOK', SettleInv, releaseFinalizer, Observe
    PROVE  WorkAgrees' /\ StatusAgrees'
<1> SUFFICES ASSUME Unprompted' PROVE WorkAgrees' /\ StatusAgrees'
  BY DEF WorkAgrees, StatusAgrees
<1>1. inst = profile /\ ~result /\ SameWorld /\ inst \in Profile /\ profile # NoObj
  BY WorkStep DEF Operator, Reconcile, releaseFinalizer, Unprompted
<1>2. CASE Return(TRUE)
  BY <1>2, RequeuedStep DEF Return
<1>3. CASE /\ Finalizer \in inst.finalizers
           /\ \E applied, ok \in BOOLEAN :
                /\ Call(profile = inst, applied, ok)
                /\ profile' = IF applied
                              THEN Stored([inst EXCEPT !.finalizers = @ \ {Finalizer}])
                              ELSE profile
                /\ Return(~ok)
  <2>1. PICK applied \in BOOLEAN, ok \in BOOLEAN :
                /\ Call(profile = inst, applied, ok)
                /\ profile' = IF applied
                              THEN Stored([inst EXCEPT !.finalizers = @ \ {Finalizer}])
                              ELSE profile
                /\ Return(~ok)
    BY <1>3
  <2>2. CASE ~ok
    BY <2>1, <2>2, RequeuedStep DEF Return
  <2>3. CASE ok
    <3>1. profile' = Stored([inst EXCEPT !.finalizers = @ \ {Finalizer}])
      BY <2>1, <2>3 DEF Call
    <3>2. [inst EXCEPT !.finalizers = @ \ {Finalizer}] # inst
      BY <1>1, <1>3 DEF Profile
    <3> QED
      BY <1>1, <3>1, <3>2 DEF Stored, SameWorld
  <2> QED
    BY <2>2, <2>3
<1>4. CASE pc' = "finalize" /\ UNCHANGED locals
  BY <1>1, <1>4 DEF WorkAgrees, StatusAgrees, SameWorld, locals
<1> QED
  BY <1>2, <1>3, <1>4 DEF releaseFinalizer

\* When the finalizer is added, the profile has changed.
LEMMA FinalizingStep ==
    ASSUME TypeOK, TypeOK', SettleInv, addFinalizer, Observe
    PROVE  WorkAgrees' /\ StatusAgrees'
<1> SUFFICES ASSUME Unprompted' PROVE WorkAgrees' /\ StatusAgrees'
  BY DEF WorkAgrees, StatusAgrees
<1>1. inst = profile /\ SameWorld /\ inst \in Profile
  BY WorkStep DEF Operator, Reconcile, addFinalizer, Unprompted
<1>2. PICK applied \in BOOLEAN, ok \in BOOLEAN :
        /\ Call(profile = inst /\ ~inst.deleting, applied, ok)
        /\ profile' = IF applied
                      THEN [inst EXCEPT !.finalizers = @ \union {Finalizer}]
                      ELSE profile
        /\ Return(~ok)
  BY DEF addFinalizer
<1>3. CASE ~ok
  BY <1>2, <1>3, RequeuedStep DEF Return
<1>4. CASE ok
  <2>1. profile' = [inst EXCEPT !.finalizers = @ \union {Finalizer}]
    BY <1>2, <1>4 DEF Call
  <2>2. Finalizer \notin inst.finalizers
    BY DEF SettleInv, PathTaken, addFinalizer
  <2>3. profile' # inst
    BY <1>1, <2>1, <2>2 DEF Profile
  <2> QED
    BY <1>1, <2>3 DEF SameWorld
<1> QED
  BY <1>3, <1>4

\* A pool that is missing, unmatched or wrong is reported; one that is right is
\* kept in profileMCP.
LEMMA PoolReadStep ==
    ASSUME TypeOK, TypeOK', SettleInv, findPool, Observe
    PROVE  WorkAgrees' /\ StatusAgrees'
<1> SUFFICES ASSUME Unprompted' PROVE WorkAgrees' /\ StatusAgrees'
  BY DEF WorkAgrees, StatusAgrees
<1>1. inst = profile /\ ~result /\ SameWorld
  BY WorkStep DEF Operator, Reconcile, findPool
<1>2. pc' \in {"status", "legacy"} /\ UNCHANGED <<inst, result, pool>>
  BY DEF findPool, api
<1>3. WorkAgrees'
  BY <1>1, <1>2 DEF WorkAgrees, SameWorld
<1>4. StatusAgrees'
  <2> SUFFICES ASSUME PoolSettled'
               PROVE  /\ pc' = "legacy" => profileMCP' = pool' /\ pool'.config = "ok"
                      /\ pc' = "status" => Truthful(condition)' /\ pool'.config # "ok"
    BY <1>2 DEF StatusAgrees
  <2>1. CachesFollow' /\ UNCHANGED cPool
    BY CachesFollowStep DEF SettleInv, Next, OperatorStep, Operator, findPool
  <2>2. /\ profileMCP' = cPool
        /\ \/ /\ cPool.config \in {"absent", "unmatched"}
              /\ condition' = "GettingMachineConfigPoolFailed" /\ pc' = "status"
           \/ /\ cPool.config = "mismatch"
              /\ condition' = "BadMachineConfigLabels" /\ pc' = "status"
           \/ cPool.config = "ok" /\ pc' = "legacy"
    BY DEF findPool, PoolSettled
  <2>3. cPool.config = pool'.config /\ (cPool.config = "ok" => cPool = pool')
    BY <2>1 DEF CachesFollow, PoolSettled
  <2>4. pool'.config \in {"absent", "unmatched"} =>
            Complaints(pool)' = {"GettingMachineConfigPoolFailed"}
    BY DEF Complaints
  <2>5. pool'.config = "mismatch" => Complaints(pool)' = {"BadMachineConfigLabels"}
    BY DEF Complaints
  <2> QED
    BY <2>2, <2>3, <2>4, <2>5 DEF Truthful
<1> QED
  BY <1>3, <1>4

\* An outdated machine config is not there, or has just been removed.
LEMMA LegacyStep ==
    ASSUME TypeOK, TypeOK', SettleInv, deleteDeprecatedComponents, Observe
    PROVE  WorkAgrees' /\ StatusAgrees'
<1> SUFFICES ASSUME Unprompted' PROVE WorkAgrees' /\ StatusAgrees'
  BY DEF WorkAgrees, StatusAgrees
<1>1. /\ Unprompted /\ inst = profile /\ ~result /\ SameWorld
      /\ PoolSettled' => PoolSettled /\ SamePool
  BY WorkStep DEF Operator, Reconcile, deleteDeprecatedComponents, findPool
<1>2. PICK applied \in BOOLEAN, ok \in BOOLEAN :
        /\ DeleteObj("OldMachineConfig", applied, ok)
        /\ \/ ok /\ pc' = "mutate" /\ UNCHANGED <<queued, locals>>
           \/ ~ok /\ Return(TRUE)
  BY DEF deleteDeprecatedComponents
<1>3. CASE ~ok
  BY <1>2, <1>3, RequeuedStep DEF Return
<1>4. CASE ok
  <2>1. "OldMachineConfig" \in Objs
    BY DEF Objs, Legacy
  <2>2. CASE cObjs["OldMachineConfig"] = NoObj
    <3>1. ~ObjEvent("OldMachineConfig", cObjs["OldMachineConfig"], objs["OldMachineConfig"])
      BY <1>1, <2>1 DEF SettleInv, CachesFollow, Unprompted
    <3>2. objs' = objs
      BY <1>2, <2>2 DEF DeleteObj
    <3> QED
      BY <1>1, <1>2, <1>4, <2>2, <3>1, <3>2
         DEF ObjEvent, WorkAgrees, StatusAgrees, SettleInv, SameWorld, SamePool, locals,
             deleteDeprecatedComponents
  <2>3. CASE cObjs["OldMachineConfig"] # NoObj
    <3>1. objs["OldMachineConfig"] # NoObj
          /\ objs' = [objs EXCEPT !["OldMachineConfig"] = NoObj]
      BY <1>2, <1>4, <2>3 DEF DeleteObj, Call
    <3>2. ObjEvent("OldMachineConfig", objs["OldMachineConfig"], objs'["OldMachineConfig"])
      BY <2>1, <3>1 DEF ObjEvent, TypeOK
    <3> QED
      BY <1>1, <2>1, <3>2 DEF SameWorld
  <2> QED
    BY <2>2, <2>3
<1> QED
  BY <1>3, <1>4

\* getMutated* has nothing to write only for a component that is in place.
LEMMA NothingToWrite ==
    ASSUME TypeOK, inst \in Profile, NEW k \in Kinds, getMutated(k) = NoObj
    PROVE  cObjs[k] # NoObj /\ cObjs[k].content = Manifest[inst.spec][k]
<1> DEFINE new  == [obj |-> [content |-> Manifest[inst.spec][k], owner |-> inst.uid,
                             failed |-> FALSE], base |-> NoObj]
           copy == [obj |-> [cObjs[k] EXCEPT !.content = Manifest[inst.spec][k]],
                    base |-> cObjs[k]]
<1>1. Manifest[inst.spec][k] \in Contents /\ inst.uid \in Nat
  BY ControllerAssumption DEF Profile
<1>2. cObjs[k] \in Component \union {NoObj}
  BY DEF TypeOK, Objs
<1>3. new \in Mutation
  BY <1>1 DEF Mutation, Component
<1>4. cObjs[k] # NoObj => copy \in Mutation
  <2> SUFFICES ASSUME cObjs[k] # NoObj PROVE copy \in Mutation
    OBVIOUS
  <2>1. [cObjs[k] EXCEPT !.content = Manifest[inst.spec][k]] \in Component
    BY <1>1, <1>2 DEF Component
  <2> QED
    BY <1>2, <2>1 DEF Mutation
<1>5. getMutated(k) = IF cObjs[k] = NoObj THEN new
                      ELSE IF cObjs[k].content = Manifest[inst.spec][k] THEN NoObj ELSE copy
  BY DEF getMutated
<1> HIDE DEF new, copy
<1> QED
  BY <1>3, <1>4, <1>5, ControllerAssumption

\* applyComponents finds everything in place, or something to write.
LEMMA MutatingStep ==
    ASSUME TypeOK, TypeOK', SettleInv, step = 1, applyComponents, Observe
    PROVE  WorkAgrees' /\ StatusAgrees'
<1> SUFFICES ASSUME Unprompted' PROVE WorkAgrees' /\ StatusAgrees'
  BY DEF WorkAgrees, StatusAgrees
<1>1. /\ Unprompted /\ inst = profile /\ inst \in Profile /\ ~result
      /\ PoolSettled' => PoolSettled
  BY WorkStep DEF Operator, Reconcile, applyComponents, findPool
<1>2. /\ pc = "mutate" /\ objs["OldMachineConfig"] = NoObj
      /\ PoolSettled' => profileMCP = pool /\ pool.config = "ok"
  BY <1>1 DEF SettleInv, WorkAgrees, StatusAgrees, applyComponents
<1>3. UNCHANGED <<api, inst, profileMCP, step, result>>
  BY DEF applyComponents
<1>4. CASE pc' = "status" /\ failed'
  BY <1>1, <1>3, <1>4 DEF WorkAgrees, StatusAgrees, api
<1>5. CASE pc' = "conditions" /\ IsPaused(inst)
  BY <1>1, <1>2, <1>3, <1>5 DEF WorkAgrees, StatusAgrees, Deployed, IsPaused, api
<1>6. CASE /\ inst.spec \notin BadSpecs
           /\ mutated' = [k \in Kinds |-> getMutated(k)]
           /\ pc' = IF \A k \in Kinds : getMutated(k) = NoObj THEN "conditions" ELSE "apply"
  <2>1. CASE \A k \in Kinds : getMutated(k) = NoObj
    <3>1. ASSUME NEW k \in Kinds
          PROVE  objs[k] # NoObj /\ objs[k].content = Manifest[profile.spec][k]
      <4>1. cObjs[k] # NoObj /\ cObjs[k].content = Manifest[inst.spec][k]
        BY <1>1, <2>1, NothingToWrite
      <4>2. ~ObjEvent(k, cObjs[k], objs[k])
        BY <1>1 DEF SettleInv, CachesFollow, Unprompted, Objs
      <4> QED
        BY <1>1, <4>1, <4>2 DEF ObjEvent
    <3>2. Deployed'
      BY <1>2, <1>3, <3>1 DEF Deployed, api
    <3> QED
      BY <1>1, <1>2, <1>3, <1>6, <2>1, <3>2 DEF WorkAgrees, StatusAgrees, api
  <2>2. CASE \E k \in Kinds : getMutated(k) # NoObj
    <3>1. PICK k \in Kinds : getMutated(k) # NoObj
      BY <2>2
    <3>2. mutated'[k] # NoObj
      BY <1>6, <3>1
    <3>3. PICK i \in 1..5 : ApplyOrder[i] = k
      <4>1. /\ ApplyOrder[1] = "MachineConfig" /\ ApplyOrder[3] = "Tuned"
            /\ ApplyOrder[4] = "KubeletConfig" /\ ApplyOrder[5] = "RuntimeClass"
        BY DEF ApplyOrder
      <4> QED
        BY <4>1 DEF Kinds
    <3>4. \E j \in step'..5 : ApplyOrder[j] \in Kinds /\ mutated'[ApplyOrder[j]] # NoObj
      BY <1>3, <3>2, <3>3
    <3> QED
      BY <1>1, <1>2, <1>3, <1>6, <2>2, <3>4 DEF WorkAgrees, StatusAgrees, api
  <2> QED
    BY <2>1, <2>2
<1> QED
  BY <1>4, <1>5, <1>6 DEF applyComponents, Degrade

\* The write of a component is seen by its watch.
LEMMA WrittenIsSeen ==
    ASSUME TypeOK, MutationsDiffer, NEW k \in Kinds, mutated[k] # NoObj,
           createOrUpdate(k), pc' # "status"
    PROVE  ObjEvent(k, objs[k], objs'[k])
<1>1. PICK applied \in BOOLEAN, ok \in BOOLEAN :
        /\ IF cObjs[k] = NoObj
           THEN Call(objs[k] = NoObj /\ mutated[k].base = NoObj, applied, ok)
           ELSE Call(mutated[k].base # NoObj /\ objs[k] = mutated[k].base, applied, ok)
        /\ objs' = IF applied THEN [objs EXCEPT ![k] = mutated[k].obj] ELSE objs
        /\ ok
  BY DEF createOrUpdate, Degrade
<1>2. applied
  BY <1>1 DEF Call
<1>3. k \in Objs /\ objs'[k] = mutated[k].obj
  BY <1>1, <1>2 DEF TypeOK, Objs
<1>4. mutated[k] \in Mutation /\ mutated[k].obj \in Component
  BY DEF TypeOK, Mutation
<1>5. mutated[k].obj # NoObj
  BY <1>4, ControllerAssumption
<1>6. CASE cObjs[k] = NoObj
  <2>1. objs[k] = NoObj
    BY <1>1, <1>6 DEF Call
  <2> QED
    BY <1>3, <1>5, <2>1 DEF ObjEvent
<1>7. CASE cObjs[k] # NoObj
  <2>1. mutated[k].base # NoObj /\ objs[k] = mutated[k].base
    BY <1>1, <1>7 DEF Call
  <2> QED
    BY <1>3, <2>1 DEF ObjEvent, MutationsDiffer
<1> QED
  BY <1>6, <1>7

\* applyComponents comes to its end only after a write.
LEMMA WritingStep ==
    ASSUME TypeOK, TypeOK', SettleInv, createOrUpdateComponent, Observe
    PROVE  WorkAgrees' /\ StatusAgrees'
<1> SUFFICES ASSUME Unprompted' PROVE WorkAgrees' /\ StatusAgrees'
  BY DEF WorkAgrees, StatusAgrees
<1>1. /\ Unprompted /\ inst = profile /\ inst \in Profile /\ ~result /\ SameWorld
      /\ PoolSettled' => PoolSettled /\ SamePool
  BY WorkStep DEF Operator, Reconcile, createOrUpdateComponent, findPool
<1>2. /\ pc = "apply" /\ objs["OldMachineConfig"] = NoObj
      /\ PoolSettled' => profileMCP = pool /\ pool.config = "ok"
  BY <1>1 DEF SettleInv, WorkAgrees, StatusAgrees, createOrUpdateComponent
<1>3. PICK i \in step..5 : ApplyOrder[i] \in Kinds /\ mutated[ApplyOrder[i]] # NoObj
  BY <1>1, <1>2 DEF SettleInv, WorkAgrees
<1>4. UNCHANGED <<inst, profileMCP>> /\ profile' = profile
      /\ objs'["OldMachineConfig"] = NoObj
  BY <1>1, <1>2, DeployedKept DEF createOrUpdateComponent
<1>5. CASE pc' = "status" /\ failed' /\ UNCHANGED result
  BY <1>1, <1>4, <1>5 DEF WorkAgrees, StatusAgrees
<1>6. CASE ~(pc' = "status" /\ failed' /\ UNCHANGED result)
  <2> DEFINE o == ApplyOrder[step]
             k == IF o = "OldTuned" THEN "Tuned" ELSE o
  <2>1. /\ Advance
        /\ \/ mutated[k] = NoObj /\ UNCHANGED mutated
           \/ mutated[k] # NoObj /\ o \in Kinds /\ createOrUpdate(k)
           \/ mutated[k] # NoObj /\ o = "OldTuned" /\ UNCHANGED mutated
    BY <1>6 DEF createOrUpdateComponent, createOrUpdate, removeOutdatedTuned, Degrade
  <2>2. step \in 1..5
    BY DEF TypeOK
  <2>3. /\ o \in Kinds => k = o
        /\ o \notin Kinds => o = "OldTuned"
        /\ k \in Kinds
    BY <2>2 DEF ApplyOrder, Kinds
  <2>4. ~(mutated[k] # NoObj /\ o \in Kinds /\ createOrUpdate(k))
    <3> SUFFICES ASSUME mutated[k] # NoObj, o \in Kinds, createOrUpdate(k) PROVE FALSE
      OBVIOUS
    <3>1. ObjEvent(k, objs[k], objs'[k])
      <4>1. pc' # "status"
        BY <1>2, <2>1 DEF Advance
      <4> QED
        BY <2>3, <4>1, WrittenIsSeen DEF SettleInv
    <3> QED
      BY <1>1, <2>3, <3>1 DEF SameWorld, Objs
  <2>5. UNCHANGED mutated /\ i # step
    BY <1>3, <2>1, <2>3, <2>4
  <2>6. step < 5 /\ i \in (step + 1)..5
    BY <1>3, <2>2, <2>5
  <2>7. step' = step + 1 /\ UNCHANGED <<pc, result>>
    BY <2>1, <2>6 DEF Advance
  <2>8. \E j \in step'..5 : ApplyOrder[j] \in Kinds /\ mutated'[ApplyOrder[j]] # NoObj
    BY <1>3, <2>5, <2>6, <2>7
  <2>9. PoolSettled' => profileMCP' = pool' /\ pool'.config = "ok"
    BY <1>1, <1>2, <1>4 DEF SamePool
  <2> QED
    BY <1>1, <1>2, <1>4, <2>7, <2>8, <2>9 DEF WorkAgrees, StatusAgrees
<1> QED
  BY <1>5, <1>6

\* The condition found is a true one: kubelet config, pool and tuned profiles
\* are as they were read.
LEMMA ConditionsStep ==
    ASSUME TypeOK, TypeOK', SettleInv, getConditions, Observe
    PROVE  WorkAgrees' /\ StatusAgrees'
<1> SUFFICES ASSUME Unprompted' PROVE WorkAgrees' /\ StatusAgrees'
  BY DEF WorkAgrees, StatusAgrees
<1>1. /\ Unprompted /\ inst = profile /\ ~result
      /\ PoolSettled' => PoolSettled
  BY WorkStep DEF Operator, Reconcile, getConditions, findPool
<1>2. /\ Deployed /\ (profile.paused \/ profile.spec \notin BadSpecs)
      /\ PoolSettled' => profileMCP = pool /\ pool.config = "ok"
  BY <1>1 DEF SettleInv, WorkAgrees, StatusAgrees, getConditions
<1>3. pc' = "status" /\ UNCHANGED <<api, inst, result>>
  BY DEF getConditions, Degrade
<1>4. WorkAgrees'
  BY <1>1, <1>3 DEF WorkAgrees, api
<1>5. StatusAgrees'
  <2> SUFFICES ASSUME PoolSettled', ~failed'
               PROVE  Truthful(condition)' /\ Deployed'
    BY <1>3 DEF StatusAgrees
  <2>1. Deployed'
    BY <1>2, <1>3 DEF Deployed, api
  <2>2. condition' = ConditionOf(cObjs["KubeletConfig"], pool, cTunedFails)
    BY <1>2 DEF getConditions, Degrade
  <2>3. cTunedFails = tunedFails
    BY <1>1 DEF SettleInv, CachesFollow, Unprompted
  <2>4. ~ObjEvent("KubeletConfig", cObjs["KubeletConfig"], objs["KubeletConfig"])
    BY <1>1 DEF SettleInv, CachesFollow, Unprompted, Objs, Kinds
  <2>5. (cObjs["KubeletConfig"] # NoObj /\ cObjs["KubeletConfig"].failed)
            <=> (objs["KubeletConfig"] # NoObj /\ objs["KubeletConfig"].failed)
    BY <2>4 DEF ObjEvent
  <2>6. condition' = ConditionOf(objs["KubeletConfig"], pool, tunedFails)
    BY <2>2, <2>3, <2>5 DEF ConditionOf
  <2>7. Complaints(pool) =
          {r \in {"KubeletConfigFailure"} :
                objs["KubeletConfig"] # NoObj /\ objs["KubeletConfig"].failed}
           \union {r \in {"MCPDegraded"} : pool.degraded}
           \union {r \in {"TunedProfileDegraded"} : tunedFails}
    BY <1>2 DEF Complaints
  <2>8. IF Complaints(pool) = {} THEN condition' = "Available"
        ELSE condition' \in Complaints(pool)
    BY <2>6, <2>7 DEF ConditionOf
  <2>9. Complaints(pool)' = Complaints(pool)
    BY <1>3 DEF Complaints, api
  <2> QED
    BY <2>1, <2>8, <2>9 DEF Truthful
<1> QED
  BY <1>4, <1>5

\* The status of the profile was already true, or it is written and the
\* profile has changed, or the key is put back.
LEMMA UpdatingStep ==
    ASSUME TypeOK, TypeOK', SettleInv, updateStatus, Observe
    PROVE  WorkAgrees' /\ StatusAgrees'
<1> SUFFICES ASSUME Unprompted' PROVE WorkAgrees' /\ StatusAgrees'
  BY DEF WorkAgrees, StatusAgrees
<1>1. /\ Unprompted /\ inst = profile /\ inst \in Profile /\ ~result /\ SameWorld
      /\ PoolSettled' => PoolSettled /\ SamePool
  BY WorkStep DEF Operator, Reconcile, updateStatus, findPool
<1>2. CASE inst.conditions = condition /\ Return(failed) /\ UNCHANGED <<profile, faults>>
  <2>1. CASE failed
    BY <1>2, <2>1, RequeuedStep DEF Return
  <2>2. CASE ~failed
    <3>1. WorkAgrees'
      BY <1>2 DEF WorkAgrees, Return
    <3>2. ASSUME PoolSettled'
          PROVE  ConvergedTo(pool)'
      <4>1. Truthful(condition) /\ (pool.config = "ok" => Deployed)
        BY <1>1, <2>2, <3>2 DEF SettleInv, StatusAgrees, updateStatus
      <4>2. ~profile.deleting /\ Finalizer \in profile.finalizers
        BY <1>1 DEF SettleInv, PathTaken, updateStatus, Working
      <4>3. UNCHANGED <<profile, objs, pool, tunedFails>>
        BY <1>2 DEF updateStatus
      <4>4. ConvergedTo(pool)
        BY <1>1, <1>2, <4>1, <4>2, ConvergedMeans
      <4> QED
        BY <4>3, <4>4 DEF ConvergedTo, Complaints, Deployed
    <3> QED
      BY <1>2, <3>1, <3>2 DEF StatusAgrees, Return
  <2> QED
    BY <2>1, <2>2
<1>3. CASE /\ inst.conditions # condition
           /\ \E applied, ok \in BOOLEAN :
                /\ Call(profile = inst, applied, ok)
                /\ profile' = IF applied THEN [inst EXCEPT !.conditions = condition]
                              ELSE profile
                /\ Return(failed \/ (~ok /\ ~result))
  <2>1. PICK applied \in BOOLEAN, ok \in BOOLEAN :
                /\ Call(profile = inst, applied, ok)
                /\ profile' = IF applied THEN [inst EXCEPT !.conditions = condition]
                              ELSE profile
                /\ Return(failed \/ (~ok /\ ~result))
    BY <1>3
  <2>2. CASE ~ok
    BY <1>1, <2>1, <2>2, RequeuedStep DEF Return
  <2>3. CASE ok
    <3>1. profile' = [inst EXCEPT !.conditions = condition]
      BY <2>1, <2>3 DEF Call
    <3>2. profile' # inst
      BY <1>1, <1>3, <3>1 DEF Profile
    <3> QED
      BY <1>1, <3>2 DEF SameWorld
  <2> QED
    BY <2>2, <2>3
<1> QED
  BY <1>2, <1>3 DEF updateStatus

\* After a restart every existing object is announced.
LEMMA RestartStep ==
    ASSUME TypeOK, Restart
    PROVE  WorkAgrees' /\ StatusAgrees'
<1>1. profile' = profile /\ (profile # NoObj => queued')
  BY DEF Restart, api
<1> QED
  BY <1>1 DEF WorkAgrees, StatusAgrees, Unprompted

\* The inductive step: the caches, the path and the mutations by their own
\* lemmas, the work of Reconcile action by action.
LEMMA SettleStep ==
    ASSUME TypeOK, TypeOK', OutdatedInv, SettleInv, [Next]_vars
    PROVE  SettleInv'
<1>1. CachesFollow' /\ PathTaken' /\ MutationsDiffer'
  BY CachesFollowStep, PathTakenStep, MutationsDifferStep DEF SettleInv
<1>2. WorkAgrees' /\ StatusAgrees'
  <2>1. CASE OperatorStep
    <3>1. Operator /\ Observe
      BY <2>1 DEF OperatorStep
    <3>2. applyComponents => step = 1
      BY DEF applyComponents, OutdatedInv
    <3> QED
      BY <3>1, <3>2, StartStep, DeletingStep, ReleasingStep, FinalizingStep, PoolReadStep,
         LegacyStep, MutatingStep, WritingStep, ConditionsStep, UpdatingStep DEF Operator
  <2>2. CASE Restart
    BY <2>2, RestartStep
  <2>3. CASE (ClusterStep \/ Informers \/ Resync \/ UNCHANGED vars) /\ ~OperatorStep /\ ~Restart
    <3>1. UNCHANGED <<pc, locals>>
      BY <2>3, ClusterMoves DEF Informers, DeliverProfile, DeliverObj, DeliverPool,
         DeliverTuned, Resync, vars
    <3> QED
      BY <2>3, <3>1, BystanderStep
  <2> QED
    BY <2>1, <2>2, <2>3 DEF Next
<1> QED
  BY <1>1, <1>2 DEF SettleInv

\* At the start there is no profile, or its key is queued.
LEMMA SettleInit == Init => SettleInv
<1> SUFFICES ASSUME Init PROVE SettleInv
  OBVIOUS
<1>1. CachesFollow
  BY DEF Init, CachesFollow, ObjEvent
<1>2. PathTaken /\ MutationsDiffer
  BY DEF Init, PathTaken, MutationsDiffer, Working
<1>3. ~Unprompted
  BY DEF Init, Unprompted
<1> QED
  BY <1>1, <1>2, <1>3 DEF SettleInv, WorkAgrees, StatusAgrees

\* No event is lost: when the queue is empty and the caches are up to date, the
\* components and the status of the profile are what it and the cluster ask
\* for, whatever was edited, whichever calls failed and however often the
\* operator was restarted, unless the pools were edited or could not be listed
\* and have not been listed since.
THEOREM SettledConverged == Spec => []SettledIsConverged
<1>1. Init => SettleInv
  BY SettleInit
<1>2. TypeOK /\ TypeOK' /\ OutdatedInv /\ SettleInv /\ [Next]_vars => SettleInv'
  BY SettleStep
<1>3. SettleInv => SettledIsConverged
  <2> SUFFICES ASSUME SettleInv, Quiescent, poolKnown, profile # NoObj
               PROVE  ConvergedTo(pool)
    BY DEF SettledIsConverged, ConvergedTo
  <2>1. Unprompted /\ PoolSettled /\ pc = "idle"
    BY DEF Quiescent, Unprompted, PoolSettled
  <2> QED
    BY <2>1 DEF SettleInv, StatusAgrees
<1> QED
  BY <1>1, <1>2, <1>3, OutdatedInvariant, PTL DEF Spec
=============================================================================
