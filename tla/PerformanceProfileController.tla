-------------------- MODULE PerformanceProfileController --------------------
(***************************************************************************)
(* The reconcile loop of controllers/performanceprofile_controller.go for  *)
(* one PerformanceProfile, with its helpers in resources.go and status.go. *)
(*                                                                         *)
(* The operator never talks to the cluster directly.  Get and List are     *)
(* answered by informer caches that lag behind the API server (variables   *)
(* cProfile, cObjs, cPool, cTunedFails), Create, Update and Delete go to   *)
(* the API server (profile, objs, pool, tunedFails), and Reconcile runs    *)
(* when an informer delivers an event that passes the watch's predicate.   *)
(* One worker handles the profile's key.  A reconcile is cut into one      *)
(* action per API write; cache reads are joined to the write that follows  *)
(* them, because delaying an informer's delivery commutes with every other *)
(* step.                                                                   *)
(*                                                                         *)
(* resourceVersion is abstracted to the object's value: a write through a  *)
(* copy is accepted when the copy still equals the object.  A conflict     *)
(* that only the version number shows is one of the rejected calls of      *)
(* Call below.                                                             *)
(***************************************************************************)
EXTENDS Naturals, FiniteSets, Sequences

CONSTANTS
    Specs,        \* values of PerformanceProfile.spec
    BadSpecs,     \* those for which manifestset.GetNewComponents fails
    Contents,     \* what a component may contain
    Manifest,     \* Manifest[s][k]: the content generated for kind k
    NoObj,        \* the absent object
    Disturbances, \* the kinds of outside events the instance explores
    MaxUid,       \* bound: incarnations of the profile
    MaxEdits,     \* bound: outside events
    MaxFaults     \* bound: failed API calls, failed reads and restarts

Kinds  == {"MachineConfig", "Tuned", "KubeletConfig", "RuntimeClass"}
Legacy == {"OldMachineConfig", "OldTuned"}
Objs   == Kinds \union Legacy

\* The order of deleteComponents, and that of applyComponents, where a Tuned
\* that is to be written is preceded by removeOutdatedTuned.
DeleteOrder == <<"Tuned", "KubeletConfig", "RuntimeClass", "MachineConfig">>

\* Mutant: the new Tuned is created before the outdated ones are removed.
ApplyOrderTunedFirst == <<"MachineConfig", "Tuned", "OldTuned", "KubeletConfig", "RuntimeClass">>

ApplyOrder == <<"MachineConfig", "OldTuned", "Tuned", "KubeletConfig", "RuntimeClass">>

\* The reason of the condition that is true, without spaces; "None" before the
\* first status update.
Conditions == {"None", "Progressing", "Available",
               "GettingMachineConfigPoolFailed", "BadMachineConfigLabels",
               "ComponentCreationFailed", "MCPDegraded", "KubeletConfigFailure",
               "GettingKubeletStatusFailed", "TunedProfileDegraded",
               "GettingTunedStatusFailed"}

Finalizer == "foreground-deletion"

\* "other" stands for the finalizer of any other controller, such as the one
\* the garbage collector adds on foreground deletion.
Profile == [uid: Nat, spec: Specs, paused: BOOLEAN, deleting: BOOLEAN,
            finalizers: SUBSET {Finalizer, "other"}, conditions: Conditions]

\* owner is the uid in the controller reference; failed is the latest
\* condition of a KubeletConfig being Failure.
Component == [content: Contents, owner: Nat, failed: BOOLEAN]

\* config: how getMachineConfigPoolByProfile and
\* validateProfileMachineConfigPool judge the pools.
Pool   == [config: {"absent", "unmatched", "mismatch", "ok"}, degraded: BOOLEAN]
NoPool == [config |-> "absent", degraded |-> FALSE]

\* What getMutated* hands to createOrUpdate*: the object to write, and the
\* cached object it was copied from (NoObj when it is a new one).
Mutation == [obj: Component, base: Component \union {NoObj}]

ASSUME ControllerAssumption ==
    /\ BadSpecs \subseteq Specs
    /\ Manifest \in [Specs -> [Kinds -> Contents]]
    /\ NoObj \notin Profile /\ NoObj \notin Component /\ NoObj \notin Mutation
    /\ "manual" \in Contents
    /\ \A s \in Specs, k \in Kinds : Manifest[s][k] # "manual"
    /\ MaxUid \in Nat /\ MaxEdits \in Nat /\ MaxFaults \in Nat

VARIABLES
    profile, objs, pool, tunedFails,      \* the API server
    cProfile, cObjs, cPool, cTunedFails,  \* the operator's informer caches
    events,                               \* sources with an event under way
    queued,                               \* the key is waiting in the workqueue
    pc,                                   \* where Reconcile is
    inst,                                 \* instance: the copy Reconcile works on
    profileMCP,                           \* the pool this reconcile has read
    mutated,                              \* the components still to be written
    step,                                 \* position in DeleteOrder or ApplyOrder
    result,                               \* applyComponents returned a result
    failed,                               \* Reconcile will return an error
    condition,                            \* the condition to be written
    lastUid, edits, faults,               \* counters
    poolKnown                             \* history: see findPool and EditPool

api    == <<profile, objs, pool, tunedFails>>
caches == <<cProfile, cObjs, cPool, cTunedFails, poolKnown>>
locals == <<inst, profileMCP, mutated, step, result, failed, condition>>
vars   == <<api, caches, events, queued, pc, locals, lastUid, edits, faults>>

TypeOK ==
    /\ profile \in Profile \union {NoObj} /\ cProfile \in Profile \union {NoObj}
    /\ objs \in [Objs -> Component \union {NoObj}]
    /\ cObjs \in [Objs -> Component \union {NoObj}]
    /\ pool \in Pool /\ cPool \in Pool /\ profileMCP \in Pool
    /\ tunedFails \in BOOLEAN /\ cTunedFails \in BOOLEAN /\ poolKnown \in BOOLEAN
    /\ events \subseteq Objs \union {"profile", "pool", "tuned"}
    /\ queued \in BOOLEAN /\ result \in BOOLEAN /\ failed \in BOOLEAN
    /\ pc \in {"idle", "delete", "release", "finalize", "pool", "legacy",
               "mutate", "apply", "conditions", "status"}
    /\ inst \in Profile \union {NoObj}
    /\ pc # "idle" => inst # NoObj
    /\ mutated \in [Kinds -> Mutation \union {NoObj}]
    /\ step \in 1..5
    /\ condition \in Conditions
    /\ lastUid \in Nat /\ edits \in Nat /\ faults \in Nat

-----------------------------------------------------------------------------
(* A cluster without a profile, or one in which an older release of the    *)
(* operator has left its profile and objects.                              *)

Upgraded(s) ==
    [uid |-> 1, spec |-> s, paused |-> FALSE, deleting |-> FALSE,
     finalizers |-> {Finalizer}, conditions |-> "Available"]

LegacyObjs(s) ==
    [o \in Objs |->
        IF o \in Legacy
        THEN [content |-> Manifest[s]["Tuned"], owner |-> 1, failed |-> FALSE]
        ELSE IF o \in {"KubeletConfig", "RuntimeClass"}
             THEN [content |-> Manifest[s][o], owner |-> 1, failed |-> FALSE]
             ELSE NoObj]

Init ==
    /\ \/ /\ profile = NoObj /\ objs = [o \in Objs |-> NoObj]
          /\ lastUid = 0 /\ queued = FALSE
       \/ /\ "upgrade" \in Disturbances
          /\ \E s \in Specs : profile = Upgraded(s) /\ objs = LegacyObjs(s)
          /\ lastUid = 1 /\ queued = TRUE
    /\ pool = [config |-> "ok", degraded |-> FALSE] /\ tunedFails = FALSE
    /\ cProfile = profile /\ cObjs = objs /\ cPool = pool /\ cTunedFails = FALSE
    /\ poolKnown = TRUE
    /\ events = {} /\ pc = "idle" /\ inst = NoObj /\ profileMCP = NoPool
    /\ mutated = [k \in Kinds |-> NoObj] /\ step = 1
    /\ result = FALSE /\ failed = FALSE /\ condition = "None"
    /\ edits = 0 /\ faults = 0

-----------------------------------------------------------------------------
(* Calls and returns.                                                      *)

\* Something fails: an API call, a read of a cache, the operator itself.
Fault == faults < MaxFaults /\ faults' = faults + 1

(* An API call the server would accept or refuse; applied: it took effect; *)
(* ok: the client saw no error.  A call may fail although the server would *)
(* accept it, either before or after it took effect (a lost response).     *)
Call(accepted, applied, ok) ==
    \/ applied = accepted /\ ok = accepted /\ UNCHANGED faults
    \/ accepted /\ ~ok /\ Fault

\* Reconcile returns and its locals die; an error or RequeueAfter puts the key
\* back.
Return(requeue) ==
    /\ pc' = "idle"
    /\ queued' = (queued \/ requeue)
    /\ inst' = NoObj /\ mutated' = [k \in Kinds |-> NoObj] /\ step' = 1
    /\ result' = FALSE /\ failed' = FALSE /\ condition' = "None"
    /\ profileMCP' = NoPool

\* A finalizer-free object under deletion is removed by the API server.
Stored(p) == IF p.deleting /\ p.finalizers = {} THEN NoObj ELSE p

-----------------------------------------------------------------------------
(* Reconcile: take the key, Get the instance, choose the path.             *)

\* Mutant: components are applied without waiting for the finalizer.
PathWithoutFinalizer(p) == IF p.deleting THEN "delete" ELSE "pool"

\* Mutant: the deletion timestamp is not looked at.
PathWithoutDeletion(p) == IF Finalizer \notin p.finalizers THEN "finalize" ELSE "pool"

\* Where the checks of deletionTimestamp and finalizer lead.
Path(p) ==
    IF p.deleting THEN "delete"
    ELSE IF Finalizer \notin p.finalizers THEN "finalize"
    ELSE "pool"

Reconcile ==
    /\ pc = "idle" /\ queued
    /\ \/ /\ cProfile = NoObj
          /\ queued' = FALSE /\ UNCHANGED <<pc, inst, faults>>
       \/ /\ cProfile # NoObj
          /\ queued' = FALSE /\ inst' = cProfile /\ pc' = Path(cProfile)
          /\ UNCHANGED faults
       \/ Fault /\ UNCHANGED <<queued, pc, inst>>
    /\ UNCHANGED <<api, caches, profileMCP, mutated, step, result, failed, condition,
                   lastUid, edits>>

\* deleteTuned, deleteKubeletConfig, deleteRuntimeClass, deleteMachineConfig:
\* nothing to do when the cache does not have the object; Delete itself
\* reports NotFound as an error.
DeleteObj(o, applied, ok) ==
    IF cObjs[o] = NoObj
    THEN applied = FALSE /\ UNCHANGED objs
         /\ \/ ok /\ UNCHANGED faults
            \/ ~ok /\ Fault
    ELSE /\ Call(objs[o] # NoObj, applied, ok)
         /\ objs' = IF applied THEN [objs EXCEPT ![o] = NoObj] ELSE objs

deleteComponents ==
    /\ pc = "delete"
    /\ \E applied, ok \in BOOLEAN :
        /\ DeleteObj(DeleteOrder[step], applied, ok)
        /\ \/ ok /\ step < 4 /\ step' = step + 1
              /\ UNCHANGED <<pc, queued, inst, profileMCP, mutated, result, failed, condition>>
           \/ ok /\ step = 4 /\ pc' = "release" /\ UNCHANGED <<queued, locals>>
           \/ ~ok /\ Return(TRUE)
    /\ UNCHANGED <<profile, pool, tunedFails, caches, lastUid, edits>>

\* isComponentsExist, then removeFinalizer.  Without the operator's own
\* finalizer the code falls through to the next section.
releaseFinalizer ==
    /\ pc = "release"
    /\ \/ /\ Return(TRUE) /\ UNCHANGED profile
          /\ \/ (\E k \in Kinds : cObjs[k] # NoObj) /\ UNCHANGED faults
             \/ Fault
       \/ /\ \A k \in Kinds : cObjs[k] = NoObj
          /\ Finalizer \in inst.finalizers
          /\ \E applied, ok \in BOOLEAN :
                /\ Call(profile = inst, applied, ok)
                /\ profile' = IF applied
                              THEN Stored([inst EXCEPT !.finalizers = @ \ {Finalizer}])
                              ELSE profile
                /\ Return(~ok)
       \/ /\ \A k \in Kinds : cObjs[k] = NoObj
          /\ Finalizer \notin inst.finalizers
          /\ pc' = "finalize"
          /\ UNCHANGED <<profile, faults, queued, locals>>
    /\ UNCHANGED <<objs, pool, tunedFails, caches, lastUid, edits>>

\* The object goes to the API server with the finalizer and with Progressing
\* conditions; Update ignores the status of a kind with a status subresource,
\* and the server refuses a new finalizer on an object under deletion.
addFinalizer ==
    /\ pc = "finalize"
    /\ \E applied, ok \in BOOLEAN :
        /\ Call(profile = inst /\ ~inst.deleting, applied, ok)
        /\ profile' = IF applied
                      THEN [inst EXCEPT !.finalizers = @ \union {Finalizer}]
                      ELSE profile
        /\ Return(~ok)
    /\ UNCHANGED <<objs, pool, tunedFails, caches, lastUid, edits>>

\* getMachineConfigPoolByProfile and validateProfileMachineConfigPool.  A
\* failure to list the pools is reported like a pool that does not exist, and
\* is not retried.
\* poolKnown: the pools have been listed as they are since one was last created,
\* deleted or relabelled, and no listing has failed since.
findPool ==
    /\ pc = "pool"
    /\ \/ /\ Fault
          /\ condition' = "GettingMachineConfigPoolFailed" /\ pc' = "status"
          /\ poolKnown' = FALSE /\ UNCHANGED profileMCP
       \/ /\ profileMCP' = cPool
          /\ poolKnown' = (poolKnown \/ cPool = pool)
          /\ \/ /\ cPool.config \in {"absent", "unmatched"}
                /\ condition' = "GettingMachineConfigPoolFailed" /\ pc' = "status"
             \/ /\ cPool.config = "mismatch"
                /\ condition' = "BadMachineConfigLabels" /\ pc' = "status"
             \/ cPool.config = "ok" /\ pc' = "legacy" /\ UNCHANGED condition
          /\ UNCHANGED faults
    /\ UNCHANGED <<api, cProfile, cObjs, cPool, cTunedFails, queued, inst, mutated, step,
                   result, failed, lastUid, edits>>

deleteDeprecatedComponents ==
    /\ pc = "legacy"
    /\ \E applied, ok \in BOOLEAN :
        /\ DeleteObj("OldMachineConfig", applied, ok)
        /\ \/ ok /\ pc' = "mutate" /\ UNCHANGED <<queued, locals>>
           \/ ~ok /\ Return(TRUE)
    /\ UNCHANGED <<profile, pool, tunedFails, caches, lastUid, edits>>

-----------------------------------------------------------------------------
(* applyComponents.                                                        *)

\* Mutant: an existing component is taken to be up to date.
getMutatedIfMissing(k) ==
    IF cObjs[k] # NoObj THEN NoObj
    ELSE [obj |-> [content |-> Manifest[inst.spec][k], owner |-> inst.uid,
                   failed |-> FALSE], base |-> NoObj]

\* getMutatedMachineConfig and its three siblings: a new object when the cache
\* has none, nothing when the content agrees, else a copy of the cached object
\* (its owner and status included) with the generated content.
getMutated(k) ==
    LET content == Manifest[inst.spec][k] IN
    IF cObjs[k] = NoObj
    THEN [obj |-> [content |-> content, owner |-> inst.uid, failed |-> FALSE],
          base |-> NoObj]
    ELSE IF cObjs[k].content = content
         THEN NoObj
         ELSE [obj |-> [cObjs[k] EXCEPT !.content = content], base |-> cObjs[k]]

\* updateStatus with the reason of a degraded condition; Reconcile returns an
\* error afterwards.
Degrade(reason) ==
    condition' = reason /\ failed' = TRUE /\ pc' = "status"

\* Mutant: the annotation is not looked at.
IsPausedNever(p) == FALSE

IsPaused(p) == p.paused

applyComponents ==
    /\ pc = "mutate"
    /\ \/ /\ IsPaused(inst)
          /\ pc' = "conditions" /\ UNCHANGED <<mutated, failed, condition, faults>>
       \/ /\ ~IsPaused(inst)
          /\ Degrade("ComponentCreationFailed") /\ UNCHANGED mutated
          /\ \/ inst.spec \in BadSpecs /\ UNCHANGED faults
             \/ Fault
       \/ /\ ~IsPaused(inst) /\ inst.spec \notin BadSpecs
          /\ mutated' = [k \in Kinds |-> getMutated(k)]
          /\ pc' = IF \A k \in Kinds : getMutated(k) = NoObj THEN "conditions" ELSE "apply"
          /\ UNCHANGED <<failed, condition, faults>>
    /\ UNCHANGED <<api, caches, queued, inst, profileMCP, step, result, lastUid, edits>>

\* Mutant: the loop runs past the last component.
AdvanceTooFar == step' = step + 1 /\ UNCHANGED <<pc, result, failed, condition>>

\* The next component is due; after the last one applyComponents returns an
\* empty, non-nil result.
Advance ==
    IF step < 5
    THEN step' = step + 1 /\ UNCHANGED <<pc, result, failed, condition>>
    ELSE pc' = "conditions" /\ result' = TRUE /\ UNCHANGED <<step, failed, condition>>

\* createOrUpdate*: look into the cache again to choose between Create and
\* Update.  Create refuses an existing name and an object with a
\* resourceVersion; Update refuses an object without one and a stale copy.
createOrUpdate(k) ==
    \E applied, ok \in BOOLEAN :
        /\ IF cObjs[k] = NoObj
           THEN Call(objs[k] = NoObj /\ mutated[k].base = NoObj, applied, ok)
           ELSE Call(mutated[k].base # NoObj /\ objs[k] = mutated[k].base, applied, ok)
        /\ objs' = IF applied THEN [objs EXCEPT ![k] = mutated[k].obj] ELSE objs
        /\ mutated' = [mutated EXCEPT ![k] = NoObj]
        /\ \/ ok /\ Advance
           \/ ~ok /\ Degrade("ComponentCreationFailed") /\ UNCHANGED <<step, result>>

\* removeOutdatedTuned.  The list of Tuned objects is the union of the caches
\* of two namespace scopes and names each object twice, so that the second
\* deletion may be refused with NotFound.
removeOutdatedTuned ==
    \E applied, ok \in BOOLEAN :
        /\ DeleteObj("OldTuned", applied, ok)
        /\ UNCHANGED mutated
        /\ \/ ok /\ Advance
           \/ /\ ~ok \/ applied
              /\ Degrade("ComponentCreationFailed") /\ UNCHANGED <<step, result>>

createOrUpdateComponent ==
    /\ pc = "apply"
    /\ LET o == ApplyOrder[step]
           k == IF o = "OldTuned" THEN "Tuned" ELSE o
       IN \/ mutated[k] = NoObj /\ Advance /\ UNCHANGED <<objs, mutated, faults>>
          \/ mutated[k] # NoObj /\ o \in Kinds /\ createOrUpdate(k)
          \/ mutated[k] # NoObj /\ o = "OldTuned" /\ removeOutdatedTuned
    /\ UNCHANGED <<profile, pool, tunedFails, caches, queued, inst, profileMCP, lastUid, edits>>

-----------------------------------------------------------------------------
(* The status.                                                             *)

\* The first of the kubelet config, pool and tuned failures, in this order.
\* profileMCP was read before the components were applied.
ConditionOf(kc, mcp, tuned) ==
    IF kc # NoObj /\ kc.failed THEN "KubeletConfigFailure"
    ELSE IF mcp.degraded THEN "MCPDegraded"
    ELSE IF tuned THEN "TunedProfileDegraded"
    ELSE "Available"

getConditions ==
    /\ pc = "conditions"
    /\ \/ /\ condition' = ConditionOf(cObjs["KubeletConfig"], profileMCP, cTunedFails)
          /\ pc' = "status" /\ UNCHANGED <<failed, faults>>
       \/ Fault /\ Degrade("GettingKubeletStatusFailed")
       \/ /\ ConditionOf(cObjs["KubeletConfig"], profileMCP, FALSE) = "Available"
          /\ Fault /\ Degrade("GettingTunedStatusFailed")
    /\ UNCHANGED <<api, caches, queued, inst, profileMCP, mutated, step, result, lastUid, edits>>

\* updateStatus writes nothing when the copy already has the condition.  When
\* the write fails, the error is returned unless applyComponents had a result.
updateStatus ==
    /\ pc = "status"
    /\ \/ /\ inst.conditions = condition
          /\ Return(failed)
          /\ UNCHANGED <<profile, faults>>
       \/ /\ inst.conditions # condition
          /\ \E applied, ok \in BOOLEAN :
                /\ Call(profile = inst, applied, ok)
                /\ profile' = IF applied THEN [inst EXCEPT !.conditions = condition]
                              ELSE profile
                /\ Return(failed \/ (~ok /\ ~result))
    /\ UNCHANGED <<objs, pool, tunedFails, caches, lastUid, edits>>

Operator ==
    \/ Reconcile \/ deleteComponents \/ releaseFinalizer \/ addFinalizer
    \/ findPool \/ deleteDeprecatedComponents \/ applyComponents
    \/ createOrUpdateComponent \/ getConditions \/ updateStatus

-----------------------------------------------------------------------------
(* The watches of SetupWithManager.  A write raises an event if the change *)
(* passes the predicate of the object's watch; events holds the sources    *)
(* with such an event under way.                                           *)

Sources == Objs \union {"profile", "pool", "tuned"}

\* Mutant: the generation predicate is used for the KubeletConfig too.
ObjEventGeneration(o, old, new) ==
    /\ old # new
    /\ old # NoObj /\ new # NoObj => old.content # new.content

\* Creations and deletions pass; an update passes when the generation has
\* changed or, for a KubeletConfig, its conditions.
ObjEvent(o, old, new) ==
    /\ old # new
    /\ old # NoObj /\ new # NoObj =>
        \/ old.content # new.content
        \/ o = "KubeletConfig" /\ old.failed # new.failed

\* Update events pass when the conditions have changed.  A deletion passes
\* too, but mcpToPerformanceProfile then finds no pool to map.
PoolEvent(old, new) ==
    /\ new.config # "absent"
    /\ old.config = "absent" \/ old.degraded # new.degraded

Observe ==
    events' = events
        \union {o \in Objs : ObjEvent(o, objs[o], objs'[o])}
        \union {e \in {"profile"} : profile' # profile}
        \union {e \in {"pool"} : PoolEvent(pool, pool')}
        \union {e \in {"tuned"} : tunedFails' # tunedFails}

\* An informer catches up with the API server and its event, if any, is mapped
\* to the profile's key.  The watch on the profile has no predicate.
DeliverProfile ==
    /\ "profile" \in events
    /\ cProfile' = profile
    /\ events' = events \ {"profile"}
    /\ queued' = TRUE
    /\ UNCHANGED <<api, cObjs, cPool, cTunedFails, poolKnown, pc, locals, lastUid, edits, faults>>

DeliverObj(o) ==
    /\ o \in events \/ cObjs[o] # objs[o]
    /\ cObjs' = [cObjs EXCEPT ![o] = objs[o]]
    /\ events' = events \ {o}
    /\ queued' = (queued \/ o \in events)
    /\ UNCHANGED <<api, cProfile, cPool, cTunedFails, poolKnown, pc, locals, lastUid, edits, faults>>

\* mcpToPerformanceProfile lists the cached profiles that the pool selects.
DeliverPool ==
    /\ "pool" \in events \/ cPool # pool
    /\ cPool' = pool
    /\ events' = events \ {"pool"}
    /\ queued' = (queued \/ ("pool" \in events /\ cProfile # NoObj
                             /\ pool.config \notin {"absent", "unmatched"}))
    /\ UNCHANGED <<api, cProfile, cObjs, cTunedFails, poolKnown, pc, locals, lastUid, edits, faults>>

\* tunedProfileToPerformanceProfile, for a change of the conditions.
DeliverTuned ==
    /\ "tuned" \in events
    /\ cTunedFails' = tunedFails
    /\ events' = events \ {"tuned"}
    /\ queued' = (queued \/ cProfile # NoObj)
    /\ UNCHANGED <<api, cProfile, cObjs, cPool, poolKnown, pc, locals, lastUid, edits, faults>>

\* Mutant: the watch on the profile has a generation predicate.
ResyncFiltered == cProfile # NoObj /\ ~queued /\ UNCHANGED vars

\* The informers' periodic resync; only the unfiltered watch on the profile
\* lets it through.
Resync ==
    /\ cProfile # NoObj /\ ~queued
    /\ queued' = TRUE
    /\ UNCHANGED <<api, caches, events, pc, locals, lastUid, edits, faults>>

\* The operator dies and starts again: the caches are listed anew and every
\* object is announced as created.
Restart ==
    /\ Fault
    /\ cProfile' = profile /\ cObjs' = objs /\ cPool' = pool /\ cTunedFails' = tunedFails
    /\ events' = {} /\ pc' = "idle"
    /\ queued' = (profile # NoObj \/ \E o \in Objs : objs[o] # NoObj)
    /\ inst' = NoObj /\ mutated' = [k \in Kinds |-> NoObj] /\ step' = 1
    /\ result' = FALSE /\ failed' = FALSE /\ condition' = "None" /\ profileMCP' = NoPool
    /\ UNCHANGED <<api, poolKnown, lastUid, edits>>

-----------------------------------------------------------------------------
(* The rest of the cluster.                                                *)

Edit(kind) == kind \in Disturbances /\ edits < MaxEdits /\ edits' = edits + 1

CreateProfile ==
    /\ profile = NoObj /\ lastUid < MaxUid
    /\ lastUid' = lastUid + 1
    /\ \E s \in Specs :
        profile' = [uid |-> lastUid + 1, spec |-> s, paused |-> FALSE, deleting |-> FALSE,
                    finalizers |-> {}, conditions |-> "None"]
    /\ UNCHANGED <<objs, pool, tunedFails, caches, queued, pc, locals, edits, faults>>

EditProfile ==
    /\ profile # NoObj /\ ~profile.deleting
    /\ \/ Edit("spec") /\ \E s \in Specs \ {profile.spec} :
                              profile' = [profile EXCEPT !.spec = s]
       \/ Edit("pause") /\ profile' = [profile EXCEPT !.paused = ~@]
    /\ UNCHANGED <<objs, pool, tunedFails, caches, queued, pc, locals, lastUid, faults>>

DeleteProfile ==
    /\ profile # NoObj /\ ~profile.deleting
    /\ Edit("delete")
    /\ \E other \in {{}, {"other"}} :
        profile' = Stored([profile EXCEPT !.deleting = TRUE,
                                          !.finalizers = @ \union other])
    /\ UNCHANGED <<objs, pool, tunedFails, caches, queued, pc, locals, lastUid, faults>>

\* The other controller is done with the profile.
ReleaseOther ==
    /\ profile # NoObj /\ profile.deleting /\ "other" \in profile.finalizers
    /\ profile' = Stored([profile EXCEPT !.finalizers = @ \ {"other"}])
    /\ UNCHANGED <<objs, pool, tunedFails, caches, queued, pc, locals, lastUid, edits, faults>>

\* An administrator edits or deletes a component by hand.
EditComponent ==
    /\ Edit("component")
    /\ \E k \in Kinds :
        /\ objs[k] # NoObj
        /\ \/ objs[k].content # "manual" /\ objs' = [objs EXCEPT ![k].content = "manual"]
           \/ objs' = [objs EXCEPT ![k] = NoObj]
    /\ UNCHANGED <<profile, pool, tunedFails, caches, queued, pc, locals, lastUid, faults>>

\* The garbage collector: the owner is not in the API server.
Garbage(o) == objs[o] # NoObj /\ ~(profile # NoObj /\ profile.uid = objs[o].owner)

CollectGarbage(o) ==
    /\ Garbage(o)
    /\ objs' = [objs EXCEPT ![o] = NoObj]
    /\ UNCHANGED <<profile, pool, tunedFails, caches, queued, pc, locals, lastUid, edits, faults>>

\* The machine config operator reports on the kubelet config and the pool, the
\* node tuning operator on the tuned profile of a node.
ReportStatus ==
    /\ Edit("status")
    /\ \/ /\ objs["KubeletConfig"] # NoObj
          /\ objs' = [objs EXCEPT !["KubeletConfig"].failed = ~@]
          /\ UNCHANGED <<pool, tunedFails>>
       \/ /\ pool.config # "absent"
          /\ pool' = [pool EXCEPT !.degraded = ~@]
          /\ UNCHANGED <<objs, tunedFails>>
       \/ tunedFails' = ~tunedFails /\ UNCHANGED <<objs, pool>>
    /\ UNCHANGED <<profile, caches, queued, pc, locals, lastUid, faults>>

\* A pool is created or deleted, or its selectors and labels are edited.
EditPool ==
    /\ Edit("pool")
    /\ \E c \in {"absent", "unmatched", "mismatch", "ok"} \ {pool.config} :
        pool' = [config |-> c, degraded |-> pool.degraded /\ c # "absent"]
    /\ poolKnown' = FALSE
    /\ UNCHANGED <<profile, objs, tunedFails, cProfile, cObjs, cPool, cTunedFails, queued,
                   pc, locals, lastUid, faults>>

Informers == DeliverProfile \/ (\E o \in Objs : DeliverObj(o)) \/ DeliverPool \/ DeliverTuned

Cluster ==
    \/ CreateProfile \/ EditProfile \/ DeleteProfile \/ ReleaseOther
    \/ EditComponent \/ (\E o \in Objs : CollectGarbage(o))
    \/ ReportStatus \/ EditPool

OperatorStep == Operator /\ Observe
ClusterStep  == Cluster /\ Observe

Next == OperatorStep \/ ClusterStep \/ Informers \/ Resync \/ Restart

Spec == Init /\ [][Next]_vars

\* The worker keeps running and so do the informers, none of which needs a turn of
\* its own, the resync timer fires, and the garbage collector and other finalizer
\* owners do their part; nobody has to edit anything.
Fairness ==
    /\ WF_vars(OperatorStep) /\ WF_vars(Informers) /\ WF_vars(Resync)
    /\ WF_vars((\E o \in Objs : CollectGarbage(o)) /\ Observe)
    /\ WF_vars(ReleaseOther /\ Observe)

FairSpec == Spec /\ Fairness

-----------------------------------------------------------------------------
(* Properties.                                                             *)

Working == {"pool", "legacy", "mutate", "apply", "conditions", "status"}

\* While Reconcile is past the finalizer check, the instance it works on is
\* still in the API server and still holds the operator's finalizer, whatever
\* the lag of the caches: nobody but a later reconcile of the same worker can
\* take it away.
FinalizerHeldWhileWorking ==
    pc \in Working =>
        /\ profile # NoObj
        /\ profile.uid = inst.uid
        /\ Finalizer \in profile.finalizers

\* Create (applyComponents) only makes components whose owner exists and is
\* held by the finalizer; a component is never created for a profile that is
\* already gone.
CreatedForHeldProfile ==
    [][\A k \in Kinds :
          objs[k] = NoObj /\ objs'[k] # NoObj =>
              /\ profile # NoObj
              /\ objs'[k].owner = profile.uid
              /\ Finalizer \in profile.finalizers]_vars

\* removeOutdatedTuned comes before the Tuned is written, through failures and
\* restarts: the Tuned of this release never exists beside an outdated one
\* (the code looks for outdated ones only when it has a Tuned to write).
OutdatedTunedRemovedFirst ==
    objs["Tuned"] # NoObj => objs["OldTuned"] = NoObj

\* Reconcile implements ProfileLifecycle: behind lagging caches, failed calls
\* and restarts, components are deployed for the incarnation of the profile
\* that the finalizer holds and never change hands, and the hold is given up
\* only under deletion.
Lifecycle == INSTANCE ProfileLifecycle WITH
    incarnation <- lastUid,
    exists      <- profile # NoObj,
    held        <- profile # NoObj /\ Finalizer \in profile.finalizers,
    deleting    <- profile # NoObj /\ profile.deleting,
    owners      <- [k \in Kinds |-> IF objs[k] = NoObj THEN {} ELSE {objs[k].owner}]

ImplementsLifecycle == Lifecycle!Spec

\* Nothing is left to happen but what an outsider does.
Quiescent ==
    /\ pc = "idle" /\ ~queued /\ events = {}
    /\ cProfile = profile /\ cObjs = objs /\ cPool = pool /\ cTunedFails = tunedFails
    /\ \A o \in Objs : ~Garbage(o)

\* What is wrong, and may be named in the profile's status.
Complaints(mcp) ==
    IF mcp.config \in {"absent", "unmatched"} THEN {"GettingMachineConfigPoolFailed"}
    ELSE IF mcp.config = "mismatch" THEN {"BadMachineConfigLabels"}
    ELSE IF ~profile.paused /\ profile.spec \in BadSpecs THEN {"ComponentCreationFailed"}
    ELSE {r \in {"KubeletConfigFailure"} :
              objs["KubeletConfig"] # NoObj /\ objs["KubeletConfig"].failed}
         \union {r \in {"MCPDegraded"} : mcp.degraded}
         \union {r \in {"TunedProfileDegraded"} : tunedFails}

\* The components are the generated ones and those of older releases are gone.
Deployed ==
    /\ profile.paused \/ profile.spec \in BadSpecs \/
          \A k \in Kinds : objs[k] # NoObj /\ objs[k].content = Manifest[profile.spec][k]
    /\ objs["OldMachineConfig"] = NoObj

ConvergedTo(mcp) ==
    profile # NoObj =>
        /\ ~profile.deleting
        /\ Finalizer \in profile.finalizers
        /\ IF Complaints(mcp) = {} THEN profile.conditions = "Available"
           ELSE profile.conditions \in Complaints(mcp)
        /\ mcp.config = "ok" => Deployed

\* No event is lost: when the queue is empty and the caches are up to date,
\* the components and the status are what the profile and the cluster ask for,
\* as far as the operator was told.  (It is not told of every change of a
\* pool: its deletion, and edits of its selectors and labels, raise no event,
\* and a failed listing of the pools is not repeated.)
SettledIsConverged == Quiescent /\ poolKnown => ConvergedTo(pool)

\* A component changed by hand is overwritten only by a reconcile that has read
\* the profile before it was paused: once the pause has reached the operator,
\* neither events nor the resync undo the change.
PausedEditsKept ==
    [][\A k \in Kinds :
          /\ objs[k] # NoObj /\ objs[k].content = "manual"
          /\ objs'[k] # NoObj /\ objs'[k].content # "manual"
          => inst # NoObj /\ ~inst.paused]_vars

\* A deleted profile goes away and so do its components, those that were made
\* behind the operator's back included, through failed calls, restarts and the
\* finalizers of others.
DeletionCompletes ==
    \A u \in 1..MaxUid :
        (profile # NoObj /\ profile.uid = u /\ profile.deleting)
            ~> /\ profile = NoObj \/ profile.uid # u
               /\ \A k \in Kinds : objs[k] = NoObj \/ objs[k].owner # u

\* Once the outside world is quiet, Reconcile brings status and components to
\* what they should be and leaves them there; for changes of a pool that no
\* event announces the resync sees to it.
EventuallyConverged ==
    <>[](ConvergedTo(pool) /\ \A o \in Objs : ~Garbage(o))

\* "Succeeded to delete all components": the operator's finalizer is given up
\* only when no component of the profile is left.
DeletedBeforeReleased ==
    [][/\ profile # NoObj /\ Finalizer \in profile.finalizers
       /\ profile' = NoObj \/ Finalizer \notin profile'.finalizers
       => \A k \in Kinds : objs[k] = NoObj \/ objs[k].owner # profile.uid]_vars
=============================================================================
