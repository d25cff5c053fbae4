-------------------------- MODULE ProfileAdmission --------------------------
(***************************************************************************)
(* Several PerformanceProfiles and the validating webhook of               *)
(* api/v2/performanceprofile_validation.go.  The webhook is served by the  *)
(* operator and lists the other profiles through the client of its         *)
(* manager, that is, from the same lagging cache that Reconcile reads.  It *)
(* reviews every Create and every Update of a profile, those that          *)
(* Reconcile makes to add or remove its finalizer included; the API server *)
(* stores a reviewed request some time later.  Deletions, and writes of    *)
(* the status, are not reviewed.                                           *)
(*                                                                         *)
(* Reconcile is reduced to the two Updates it makes of a profile;          *)
(* PerformanceProfileController has the rest of it.  Reconcile may run at  *)
(* any time: errors requeue the key.  The fields of a profile other than   *)
(* its node selector are taken to be valid.                                *)
(***************************************************************************)
EXTENDS Naturals, FiniteSets

CONSTANTS
    Names,       \* of the profiles
    Selectors,   \* values of spec.nodeSelector
    NoObj,       \* the absent profile
    MaxUid,      \* bound: profiles ever created
    MaxEdits,    \* bound: edits of a node selector
    MaxPending   \* bound: requests between review and storage

Profile == [uid: Nat, selector: Selectors, finalizer: BOOLEAN, deleting: BOOLEAN]

\* A reviewed request: new replaces old, unless old has changed meanwhile.
Request == [name: Names, old: Profile \union {NoObj}, new: Profile]

ASSUME AdmissionAssumption ==
    NoObj \notin Profile /\ MaxUid \in Nat /\ MaxEdits \in Nat /\ MaxPending \in Nat

VARIABLES
    stored,    \* the profiles in the API server
    cache,     \* the profiles as the operator's cache has them
    pending,   \* the reviewed requests
    lastUid, edits

vars == <<stored, cache, pending, lastUid, edits>>

TypeOK ==
    /\ stored \in [Names -> Profile \union {NoObj}]
    /\ cache \in [Names -> Profile \union {NoObj}]
    /\ pending \subseteq Request
    /\ lastUid \in Nat /\ edits \in Nat

Init ==
    /\ stored = [n \in Names |-> NoObj] /\ cache = stored
    /\ pending = {} /\ lastUid = 0 /\ edits = 0

-----------------------------------------------------------------------------
(* The webhook.                                                            *)

\* Mutant: the check is left out.
AdmitAll(n, p) == TRUE

\* validateNodeSelectorDuplication against the cached profiles.
Admit(n, p) ==
    \A m \in Names \ {n} : cache[m] # NoObj => cache[m].selector # p.selector

\* A request is reviewed; one that is refused leaves no trace.
Review(n, old, new) ==
    /\ Admit(n, new)
    /\ Cardinality(pending) < MaxPending
    /\ pending' = pending \union {[name |-> n, old |-> old, new |-> new]}

-----------------------------------------------------------------------------
(* The requests of administrators.                                         *)

Create(n) ==
    /\ stored[n] = NoObj /\ lastUid < MaxUid
    /\ lastUid' = lastUid + 1
    /\ \E s \in Selectors :
        Review(n, NoObj, [uid |-> lastUid + 1, selector |-> s,
                          finalizer |-> FALSE, deleting |-> FALSE])
    /\ UNCHANGED <<stored, cache, edits>>

EditSelector(n) ==
    /\ stored[n] # NoObj /\ edits < MaxEdits
    /\ edits' = edits + 1
    /\ \E s \in Selectors \ {stored[n].selector} :
        Review(n, stored[n], [stored[n] EXCEPT !.selector = s])
    /\ UNCHANGED <<stored, cache, lastUid>>

\* ValidateDelete accepts everything, and is not even asked.
Delete(n) ==
    /\ stored[n] # NoObj /\ ~stored[n].deleting
    /\ stored' = [stored EXCEPT ![n] = IF @.finalizer THEN [@ EXCEPT !.deleting = TRUE]
                                       ELSE NoObj]
    /\ UNCHANGED <<cache, pending, lastUid, edits>>

-----------------------------------------------------------------------------
(* The requests of Reconcile, from the cached copy.                        *)

addFinalizer(n) ==
    /\ cache[n] # NoObj /\ ~cache[n].deleting /\ ~cache[n].finalizer
    /\ Review(n, cache[n], [cache[n] EXCEPT !.finalizer = TRUE])
    /\ UNCHANGED <<stored, cache, lastUid, edits>>

\* Mutant: the profile is updated before its finalizer is taken off.
removeFinalizerAfterUpdate(n) ==
    /\ cache[n] # NoObj /\ cache[n].deleting /\ cache[n].finalizer
    /\ Review(n, cache[n], cache[n])
    /\ UNCHANGED <<stored, cache, lastUid, edits>>

removeFinalizer(n) ==
    /\ cache[n] # NoObj /\ cache[n].deleting /\ cache[n].finalizer
    /\ Review(n, cache[n], [cache[n] EXCEPT !.finalizer = FALSE])
    /\ UNCHANGED <<stored, cache, lastUid, edits>>

-----------------------------------------------------------------------------
(* The API server and the informer.                                        *)

\* A profile under deletion goes away with its finalizer; a request whose base
\* is out of date is answered with a conflict.
Store(r) ==
    /\ pending' = pending \ {r}
    /\ stored' = IF stored[r.name] # r.old THEN stored
                 ELSE [stored EXCEPT ![r.name] =
                          IF r.new.deleting /\ ~r.new.finalizer THEN NoObj ELSE r.new]
    /\ UNCHANGED <<cache, lastUid, edits>>

Deliver(n) ==
    /\ cache[n] # stored[n]
    /\ cache' = [cache EXCEPT ![n] = stored[n]]
    /\ UNCHANGED <<stored, pending, lastUid, edits>>

Next ==
    \/ \E n \in Names : \/ Create(n) \/ EditSelector(n) \/ Delete(n)
                        \/ addFinalizer(n) \/ removeFinalizer(n) \/ Deliver(n)
    \/ \E r \in pending : Store(r)

Spec == Init /\ [][Next]_vars

\* The operator and the informer keep running and the API server answers what
\* it has been asked; nobody has to create, edit or delete a profile.
Fairness ==
    /\ \A n \in Names :
        WF_vars(Deliver(n)) /\ WF_vars(addFinalizer(n)) /\ WF_vars(removeFinalizer(n))
    /\ WF_vars(\E r \in pending : Store(r))

FairSpec == Spec /\ Fairness

-----------------------------------------------------------------------------
(* Properties.                                                             *)

SameSelector(m, n) ==
    /\ m # n /\ stored[m] # NoObj /\ stored[n] # NoObj
    /\ stored[m].selector = stored[n].selector

\* As long as nobody edits a node selector, no two profiles with the same one
\* both get the operator's finalizer, however their creations race: the Update
\* that adds the finalizer is reviewed again, and the operator's cache has any
\* profile whose finalizer it has added.  Only such profiles are deployed, so
\* that no two deployed profiles have the same node selector.
HeldSelectorsUnique ==
    edits = 0 =>
        \A m, n \in Names :
            SameSelector(m, n) => ~(stored[m].finalizer /\ stored[n].finalizer)

\* A deleted profile goes away, unless another one has its node selector at
\* some time from then on.
UniqueDeletionCompletes ==
    \A n \in Names :
        (stored[n] # NoObj /\ stored[n].deleting)
            ~> \/ stored[n] = NoObj
               \/ ~stored[n].deleting
               \/ \E m \in Names : SameSelector(m, n)

\* A deleted profile goes away: Reconcile deletes its components and removes
\* the finalizer.
EveryDeletionCompletes ==
    \A n \in Names :
        (stored[n] # NoObj /\ stored[n].deleting)
            ~> (stored[n] = NoObj \/ ~stored[n].deleting)
=============================================================================
