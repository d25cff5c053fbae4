----------------------- MODULE ProfileLifecycle_proofs -----------------------
(***************************************************************************)
(* PerformanceProfileController implements ProfileLifecycle: the initial   *)
(* states map to initial states, and every step of the operator, of the    *)
(* informers and of the cluster maps to a step of ProfileLifecycle or      *)
(* leaves the mapped variables alone.                                      *)
(***************************************************************************)
EXTENDS PerformanceProfileController_proofs

\* What the mapping makes of a component.
Owner(o) == IF o = NoObj THEN {} ELSE {o.owner}

\* There is one profile at a time, and it is the last one that was created.
LastExists == profile # NoObj => profile.uid = lastUid

\* The initial states are those of ProfileLifecycle.
LEMMA LifecycleInit == Init => Lifecycle!Init /\ LastExists
<1> SUFFICES ASSUME Init PROVE Lifecycle!Init /\ LastExists
  OBVIOUS
<1>1. CASE profile = NoObj /\ objs = [o \in Objs |-> NoObj] /\ lastUid = 0
  BY <1>1 DEF Lifecycle!Init, LastExists, Objs
<1>2. CASE lastUid = 1 /\ \E s \in Specs : profile = Upgraded(s) /\ objs = LegacyObjs(s)
  <2>1. PICK s \in Specs : profile = Upgraded(s) /\ objs = LegacyObjs(s)
    BY <1>2
  <2>2. profile \in Profile
    BY <2>1 DEF Upgraded, Profile, Conditions
  <2>3. profile # NoObj
    BY <2>2, ControllerAssumption
  <2>4. /\ profile.uid = 1 /\ ~profile.deleting /\ Finalizer \in profile.finalizers
    BY <2>1 DEF Upgraded
  <2>5. ASSUME NEW k \in Kinds, objs[k] # NoObj
        PROVE  objs[k].owner = 1
    BY <2>1, <2>5 DEF LegacyObjs, Objs, Kinds, Legacy
  <2> QED
    BY <1>2, <2>3, <2>4, <2>5 DEF Lifecycle!Init, LastExists
<1> QED
  BY <1>1, <1>2 DEF Init

\* No uid is used twice.
LEMMA LastExistsStep ==
    ASSUME TypeOK, LastExists, [Next]_vars
    PROVE  LastExists'
BY AllStepsMove DEF ProfileMoves, LastExists

\* A write to the profile, by the operator or by others, is a step of
\* ProfileLifecycle or changes nothing it knows of.
LEMMA ProfileWrites ==
    ASSUME TypeOK, HeldInv, TypeOK', UNCHANGED objs,
           \/ releaseFinalizer \/ addFinalizer \/ updateStatus
           \/ CreateProfile \/ EditProfile \/ DeleteProfile \/ ReleaseOther
    PROVE  [Lifecycle!Next]_(Lifecycle!vars)
<1> USE DEF Lifecycle!Next, Lifecycle!vars, Lifecycle!profileVars
<1>1. CASE releaseFinalizer
  <2>1. inst \in Profile /\ inst # NoObj /\ inst.deleting /\ UNCHANGED lastUid
    BY <1>1 DEF releaseFinalizer, HeldInv, DeletesDeleted, TypeOK
  <2>2. \/ UNCHANGED profile
        \/ /\ profile = inst /\ Finalizer \in inst.finalizers
           /\ profile' = Stored([inst EXCEPT !.finalizers = @ \ {Finalizer}])
    BY <1>1 DEF releaseFinalizer, Call
  <2>3. CASE profile' = NoObj /\ profile = inst
    BY <2>1, <2>3 DEF Lifecycle!Vanish
  <2>4. CASE profile = inst /\ Finalizer \in inst.finalizers
             /\ profile' = [inst EXCEPT !.finalizers = @ \ {Finalizer}]
    <3>1. profile' # NoObj
      BY <2>1, <2>4, ControllerAssumption DEF Profile
    <3>2. profile'.deleting /\ Finalizer \notin profile'.finalizers
      BY <2>1, <2>4 DEF Profile
    <3> QED
      BY <2>1, <2>4, <3>1, <3>2 DEF Lifecycle!Release
  <2> QED
    BY <2>1, <2>2, <2>3, <2>4 DEF Stored
<1>2. CASE addFinalizer
  <2>1. inst \in Profile /\ inst # NoObj /\ UNCHANGED lastUid
    BY <1>2 DEF addFinalizer, TypeOK
  <2>2. \/ UNCHANGED profile
        \/ /\ profile = inst /\ ~inst.deleting
           /\ profile' = [inst EXCEPT !.finalizers = @ \union {Finalizer}]
    BY <1>2 DEF addFinalizer, Call
  <2>3. CASE profile = inst /\ ~inst.deleting
             /\ profile' = [inst EXCEPT !.finalizers = @ \union {Finalizer}]
    <3>1. profile' \in Profile
      BY <2>1, <2>3 DEF Profile
    <3>2. profile' # NoObj /\ ~profile'.deleting /\ Finalizer \in profile'.finalizers
      BY <2>1, <2>3, <3>1, ControllerAssumption DEF Profile
    <3> QED
      BY <2>1, <2>3, <3>2 DEF Lifecycle!Hold
  <2> QED
    BY <2>1, <2>2, <2>3
<1>3. CASE updateStatus
  <2>1. inst \in Profile /\ inst # NoObj /\ UNCHANGED lastUid
    BY <1>3 DEF updateStatus, TypeOK
  <2>2. \/ UNCHANGED profile
        \/ profile = inst /\ profile' = [inst EXCEPT !.conditions = condition]
    BY <1>3 DEF updateStatus, Call
  <2>3. profile = inst /\ profile' = [inst EXCEPT !.conditions = condition] =>
            /\ profile' # NoObj
            /\ profile'.deleting = profile.deleting
            /\ profile'.finalizers = profile.finalizers
    <3>1. condition \in Conditions
      BY DEF TypeOK
    <3>2. [inst EXCEPT !.conditions = condition] \in Profile
      BY <2>1, <3>1 DEF Profile
    <3> QED
      BY <2>1, <3>2, ControllerAssumption DEF Profile
  <2> QED
    BY <2>1, <2>2, <2>3
<1>4. CASE CreateProfile
  <2>1. profile = NoObj /\ profile' # NoObj /\ lastUid' = lastUid + 1
    BY <1>4, CreatedProfileType DEF CreateProfile
  <2>2. ~profile'.deleting /\ profile'.finalizers = {}
    BY <1>4 DEF CreateProfile
  <2> QED
    BY <2>1, <2>2 DEF Lifecycle!Create
<1>5. CASE EditProfile
  <2>1. /\ profile # NoObj /\ profile' # NoObj /\ UNCHANGED lastUid
        /\ profile'.finalizers = profile.finalizers
    BY <1>5, EditedProfileType DEF EditProfile
  <2>2. profile'.deleting = profile.deleting
    BY <1>5 DEF EditProfile, TypeOK, Profile
  <2> QED
    BY <2>1, <2>2
<1>6. CASE DeleteProfile
  <2>1. PICK other \in {{}, {"other"}} :
          profile' = Stored([profile EXCEPT !.deleting = TRUE,
                                            !.finalizers = @ \union other])
    BY <1>6 DEF DeleteProfile
  <2>2. profile \in Profile /\ profile # NoObj /\ ~profile.deleting /\ UNCHANGED lastUid
    BY <1>6 DEF DeleteProfile, TypeOK
  <2>3. CASE profile' = NoObj
    <3> DEFINE p == [profile EXCEPT !.deleting = TRUE, !.finalizers = @ \union other]
    <3>0. p.finalizers = profile.finalizers \union other
      BY <2>2 DEF Profile
    <3>2. p \in Profile
      BY <2>2 DEF Profile
    <3>1. Finalizer \notin profile.finalizers
      BY <2>1, <2>3, <3>0, <3>2, ControllerAssumption DEF Stored
    <3> QED
      BY <2>2, <2>3, <3>1 DEF Lifecycle!Vanish
  <2>4. CASE profile' # NoObj
    <3>1. profile'.deleting /\ (Finalizer \in profile'.finalizers <=> Finalizer \in profile.finalizers)
      BY <2>1, <2>2, <2>4 DEF Stored, Profile, Finalizer
    <3> QED
      BY <2>2, <2>4, <3>1 DEF Lifecycle!Delete
  <2> QED
    BY <2>3, <2>4
<1>7. CASE ReleaseOther
  <2>1. /\ profile \in Profile /\ profile # NoObj /\ profile.deleting /\ UNCHANGED lastUid
        /\ profile' = Stored([profile EXCEPT !.finalizers = @ \ {"other"}])
    BY <1>7 DEF ReleaseOther, TypeOK
  <2>2. CASE profile' = NoObj
    BY <2>1, <2>2 DEF Lifecycle!Vanish
  <2>3. CASE profile' # NoObj
    <3>1. profile'.deleting /\ (Finalizer \in profile'.finalizers <=> Finalizer \in profile.finalizers)
      BY <2>1, <2>3 DEF Stored, Profile, Finalizer
    <3> QED
      BY <2>1, <2>3, <3>1
  <2> QED
    BY <2>2, <2>3
<1> QED
  BY <1>1, <1>2, <1>3, <1>4, <1>5, <1>6, <1>7

\* An update writes the owner it has found.
UpdatesKeepOwner ==
    pc = "apply" =>
        \A k \in Kinds : mutated[k] # NoObj /\ mutated[k].base # NoObj =>
            mutated[k].obj.owner = mutated[k].base.owner

\* getMutated* copies the cached object, and only then are updates due.
LEMMA UpdatesKeepOwnerStep ==
    ASSUME TypeOK, UpdatesKeepOwner, [Next]_vars
    PROVE  UpdatesKeepOwner'
<1> SUFFICES ASSUME pc' = "apply", NEW k \in Kinds,
                    mutated'[k] # NoObj, mutated'[k].base # NoObj
             PROVE  mutated'[k].obj.owner = mutated'[k].base.owner
  BY DEF UpdatesKeepOwner
<1>1. CASE mutated' = [kk \in Kinds |-> getMutated(kk)]
  <2>1. cObjs[k] # NoObj /\ mutated'[k].base = cObjs[k]
        /\ mutated'[k].obj = [cObjs[k] EXCEPT !.content = Manifest[inst.spec][k]]
    BY <1>1 DEF getMutated
  <2>2. cObjs[k] \in Component
    BY <2>1 DEF TypeOK, Objs
  <2> QED
    BY <2>1, <2>2 DEF Component
<1>2. CASE pc = "apply" /\ mutated'[k] \in {mutated[k], NoObj}
  BY <1>2 DEF UpdatesKeepOwner
<1> QED
  BY <1>1, <1>2, ApplyingStep

\* The kinds of steps that touch a component: one is created, or gone, or keeps
\* its owner; the profile stays as it is.
LEMMA ComponentWrites ==
    ASSUME TypeOK, UpdatesKeepOwner, [Next]_vars
    PROVE  \/ UNCHANGED objs
           \/ /\ UNCHANGED <<profile, lastUid>>
              /\ \E o \in Objs :
                    /\ \A x \in Objs \ {o} : objs'[x] = objs[x]
                    /\ \/ objs'[o] = NoObj
                       \/ objs[o] = NoObj
                       \/ objs'[o] # NoObj /\ objs[o] # NoObj /\ objs'[o].owner = objs[o].owner
<1> DEFINE Touched(o) ==
             /\ \A x \in Objs \ {o} : objs'[x] = objs[x]
             /\ \/ objs'[o] = NoObj
                \/ objs[o] = NoObj
                \/ objs'[o] # NoObj /\ objs[o] # NoObj /\ objs'[o].owner = objs[o].owner
<1>1. objs \in [Objs -> Component \union {NoObj}]
  BY DEF TypeOK
<1>2. CASE createOrUpdateComponent
  <2>1. pc = "apply" /\ UNCHANGED <<profile, lastUid>>
    BY <1>2 DEF createOrUpdateComponent
  <2>2. \/ UNCHANGED objs
        \/ \E k \in Kinds : mutated[k] # NoObj /\ createOrUpdate(k)
        \/ removeOutdatedTuned
    <3> DEFINE o == ApplyOrder[step]
               kk == IF o = "OldTuned" THEN "Tuned" ELSE o
    <3>1. \/ UNCHANGED objs
          \/ mutated[kk] # NoObj /\ o \in Kinds /\ createOrUpdate(kk)
          \/ removeOutdatedTuned
      BY <1>2 DEF createOrUpdateComponent
    <3>2. o \in Kinds => kk \in Kinds
      BY DEF Kinds
    <3> HIDE DEF o, kk
    <3> QED
      BY <3>1, <3>2
  <2>3. CASE \E k \in Kinds : mutated[k] # NoObj /\ createOrUpdate(k)
    <3>1. PICK k \in Kinds : mutated[k] # NoObj /\ createOrUpdate(k)
      BY <2>3
    <3>2. k \in Objs /\ mutated[k] \in Mutation
      BY <3>1 DEF Objs, TypeOK
    <3>3. \/ UNCHANGED objs
          \/ /\ objs' = [objs EXCEPT ![k] = mutated[k].obj]
             /\ \/ objs[k] = NoObj
                \/ mutated[k].base # NoObj /\ objs[k] = mutated[k].base
      BY <3>1 DEF createOrUpdate, Call
    <3>4. mutated[k].obj \in Component /\ mutated[k].obj # NoObj
      BY <3>2, ControllerAssumption DEF Mutation
    <3>5. CASE objs' = [objs EXCEPT ![k] = mutated[k].obj] /\ objs[k] = NoObj
      BY <1>1, <2>1, <3>2, <3>5
    <3>6. CASE /\ objs' = [objs EXCEPT ![k] = mutated[k].obj]
               /\ mutated[k].base # NoObj /\ objs[k] = mutated[k].base
      <4>1. mutated[k].obj.owner = objs[k].owner
        BY <2>1, <3>1, <3>6 DEF UpdatesKeepOwner
      <4>2. Touched(k)
        BY <1>1, <3>2, <3>4, <3>6, <4>1
      <4> QED
        BY <2>1, <3>2, <4>2
    <3> QED
      BY <3>3, <3>5, <3>6
  <2>4. CASE removeOutdatedTuned
    <3>1. UNCHANGED objs \/ objs' = [objs EXCEPT !["OldTuned"] = NoObj]
      BY <2>4 DEF removeOutdatedTuned, DeleteObj
    <3>2. "OldTuned" \in Objs
      BY DEF Objs, Legacy
    <3> QED
      BY <1>1, <2>1, <3>1, <3>2
  <2> QED
    BY <2>2, <2>3, <2>4
<1>3. CASE deleteComponents \/ deleteDeprecatedComponents
  <2>1. PICK o \in {DeleteOrder[step], "OldMachineConfig"} :
          objs' = objs \/ objs' = [objs EXCEPT ![o] = NoObj]
    BY <1>3 DEF deleteComponents, deleteDeprecatedComponents, DeleteObj
  <2>2. UNCHANGED <<profile, lastUid>>
    BY <1>3 DEF deleteComponents, deleteDeprecatedComponents
  <2>3. CASE o \in Objs /\ objs' = [objs EXCEPT ![o] = NoObj]
    BY <1>1, <2>2, <2>3
  <2>4. CASE o \notin Objs /\ objs' = [objs EXCEPT ![o] = NoObj]
    BY <1>1, <2>4
  <2> QED
    BY <2>1, <2>3, <2>4
<1>4. CASE EditComponent
  <2>1. PICK k \in Kinds : /\ objs[k] # NoObj
                           /\ \/ objs' = [objs EXCEPT ![k].content = "manual"]
                              \/ objs' = [objs EXCEPT ![k] = NoObj]
    BY <1>4 DEF EditComponent
  <2>2. k \in Objs /\ objs[k] \in Component
    BY <1>1, <2>1 DEF Objs
  <2>3. UNCHANGED <<profile, lastUid>>
    BY <1>4 DEF EditComponent
  <2>4. [objs[k] EXCEPT !.content = "manual"].owner = objs[k].owner
    BY <2>2 DEF Component
  <2>5. Touched(k)
    BY <1>1, <2>1, <2>2, <2>4
  <2> QED
    BY <2>2, <2>3, <2>5
<1>5. CASE \E o \in Objs : CollectGarbage(o)
  BY <1>1, <1>5 DEF CollectGarbage
<1>6. CASE ReportStatus
  <2>1. \/ UNCHANGED objs
        \/ objs["KubeletConfig"] # NoObj /\ objs' = [objs EXCEPT !["KubeletConfig"].failed = ~@]
    BY <1>6 DEF ReportStatus
  <2>2. "KubeletConfig" \in Objs
    BY DEF Objs, Kinds
  <2>3. UNCHANGED <<profile, lastUid>>
    BY <1>6 DEF ReportStatus
  <2>4. CASE objs["KubeletConfig"] # NoObj /\ objs' = [objs EXCEPT !["KubeletConfig"].failed = ~@]
    <3>1. objs["KubeletConfig"] \in Component
      BY <1>1, <2>2, <2>4
    <3>2. [objs["KubeletConfig"] EXCEPT !.failed = ~@].owner = objs["KubeletConfig"].owner
      BY <3>1 DEF Component
    <3>3. Touched("KubeletConfig")
      BY <1>1, <2>2, <2>4, <3>2
    <3> QED
      BY <2>2, <2>3, <3>3
  <2> QED
    BY <2>1, <2>4
<1>7. CASE \/ Reconcile \/ releaseFinalizer \/ addFinalizer \/ findPool
           \/ applyComponents \/ getConditions \/ updateStatus
  BY <1>7 DEF Reconcile, releaseFinalizer, addFinalizer, findPool, applyComponents,
              getConditions, updateStatus, api
<1>8. CASE CreateProfile \/ EditProfile \/ DeleteProfile \/ ReleaseOther \/ EditPool
  BY <1>8 DEF CreateProfile, EditProfile, DeleteProfile, ReleaseOther, EditPool
<1>9. CASE Informers \/ Resync \/ Restart \/ UNCHANGED vars
  BY <1>9 DEF Informers, DeliverProfile, DeliverObj, DeliverPool, DeliverTuned,
              Resync, Restart, vars, api
<1> QED
  BY <1>2, <1>3, <1>4, <1>5, <1>6, <1>7, <1>8, <1>9
     DEF Next, OperatorStep, ClusterStep, Operator, Cluster

\* A step that touches a component is a deployment or a removal of
\* ProfileLifecycle, or keeps all owners.
LEMMA OwnersStep ==
    ASSUME TypeOK, HeldInv, NewComponentsAreOwned, LastExists, [Next]_vars,
           UNCHANGED <<profile, lastUid>>,
           NEW o \in Objs, \A x \in Objs \ {o} : objs'[x] = objs[x],
           \/ objs'[o] = NoObj
           \/ objs[o] = NoObj
           \/ objs'[o] # NoObj /\ objs[o] # NoObj /\ objs'[o].owner = objs[o].owner
    PROVE  [Lifecycle!Next]_(Lifecycle!vars)
<1> USE DEF Lifecycle!Next, Lifecycle!vars, Lifecycle!profileVars
<1>0. Kinds \subseteq Objs
  BY DEF Objs
<1>1. CASE o \notin Kinds
  BY <1>0, <1>1
<1>2. CASE o \in Kinds /\ objs'[o] = NoObj
  BY <1>0, <1>2 DEF Lifecycle!Remove
<1>3. CASE o \in Kinds /\ objs[o] = NoObj /\ objs'[o] # NoObj
  <2>1. /\ pc = "apply" /\ mutated[o] # NoObj /\ mutated[o].base = NoObj
        /\ objs'[o] = mutated[o].obj
    BY <1>3, CreatingStep
  <2>2. objs'[o].owner = inst.uid
    BY <1>3, <2>1 DEF NewComponentsAreOwned
  <2>3. profile # NoObj /\ profile.uid = inst.uid /\ Finalizer \in profile.finalizers
    BY <2>1 DEF HeldInv, FinalizerHeldWhileWorking, Working
  <2>4. objs'[o].owner = lastUid
    BY <2>2, <2>3 DEF LastExists
  <2> QED
    BY <1>0, <1>3, <2>3, <2>4 DEF Lifecycle!Deploy
<1>4. CASE o \in Kinds /\ objs'[o] # NoObj /\ objs[o] # NoObj /\ objs'[o].owner = objs[o].owner
  <2>1. \A k \in Kinds : Owner(objs'[k]) = Owner(objs[k])
    BY <1>0, <1>4 DEF Owner
  <2> QED
    BY <2>1 DEF Owner
<1> QED
  BY <1>1, <1>2, <1>3, <1>4

\* Every step is one of ProfileLifecycle, or leaves the mapped variables alone.
LEMMA LifecycleStep ==
    ASSUME TypeOK, TypeOK', HeldInv, NewComponentsAreOwned, UpdatesKeepOwner, LastExists,
           [Next]_vars
    PROVE  [Lifecycle!Next]_(Lifecycle!vars)
<1>1. CASE UNCHANGED objs
  <2>1. CASE \/ releaseFinalizer \/ addFinalizer \/ updateStatus
             \/ CreateProfile \/ EditProfile \/ DeleteProfile \/ ReleaseOther
    BY <1>1, <2>1, ProfileWrites
  <2>2. CASE UNCHANGED <<profile, lastUid>>
    BY <1>1, <2>2 DEF Lifecycle!vars, Lifecycle!profileVars
  <2>3. CASE \/ Reconcile \/ deleteComponents \/ findPool \/ deleteDeprecatedComponents
             \/ applyComponents \/ createOrUpdateComponent \/ getConditions
    BY <2>2, <2>3 DEF Reconcile, deleteComponents, findPool, deleteDeprecatedComponents,
                applyComponents, createOrUpdateComponent, getConditions, api
  <2>4. CASE EditComponent \/ (\E o \in Objs : CollectGarbage(o)) \/ ReportStatus \/ EditPool
    BY <2>2, <2>4 DEF EditComponent, CollectGarbage, ReportStatus, EditPool
  <2>5. CASE Informers \/ Resync \/ Restart \/ UNCHANGED vars
    BY <2>2, <2>5 DEF Informers, DeliverProfile, DeliverObj, DeliverPool, DeliverTuned,
                 Resync, Restart, vars, api
  <2> QED
    BY <2>1, <2>3, <2>4, <2>5 DEF Next, OperatorStep, ClusterStep, Operator, Cluster
<1>2. CASE ~UNCHANGED objs
  <2>1. /\ UNCHANGED <<profile, lastUid>>
        /\ \E o \in Objs :
              /\ \A x \in Objs \ {o} : objs'[x] = objs[x]
              /\ \/ objs'[o] = NoObj
                 \/ objs[o] = NoObj
                 \/ objs'[o] # NoObj /\ objs[o] # NoObj /\ objs'[o].owner = objs[o].owner
    BY <1>2, ComponentWrites
  <2> QED
    BY <2>1, OwnersStep
<1> QED
  BY <1>1, <1>2

\* Reconcile, its informers and the cluster implement ProfileLifecycle, for any
\* lag of the caches, any failures and any number of incarnations: components
\* are deployed only for the incarnation of the profile that is there and held,
\* they never change hands, and the hold is given up only under deletion.
THEOREM RefinesLifecycle == Spec => ImplementsLifecycle
<1>1. Init => Lifecycle!Init /\ LastExists /\ NewComponentsAreOwned /\ UpdatesKeepOwner
  BY LifecycleInit DEF Init, NewComponentsAreOwned, UpdatesKeepOwner
<1>2. TypeOK /\ NewComponentsAreOwned /\ UpdatesKeepOwner /\ LastExists /\ [Next]_vars
        => NewComponentsAreOwned' /\ UpdatesKeepOwner' /\ LastExists'
  BY OwnedStep, UpdatesKeepOwnerStep, LastExistsStep
<1>3. TypeOK /\ TypeOK' /\ HeldInv /\ NewComponentsAreOwned /\ UpdatesKeepOwner
        /\ LastExists /\ [Next]_vars
        => [Lifecycle!Next]_(Lifecycle!vars)
  BY LifecycleStep
<1> QED
  BY <1>1, <1>2, <1>3, HeldInvariant, PTL DEF Spec, ImplementsLifecycle, Lifecycle!Spec

=============================================================================
