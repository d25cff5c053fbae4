----------------------- MODULE ProfileAdmission_proofs -----------------------
(***************************************************************************)
(* HeldSelectorsUnique for every set of names and selectors and every      *)
(* bound.  It is not inductive: a request that has been reviewed but not   *)
(* stored will hold its profile later.  The invariant below counts such a  *)
(* profile as claimed, and says that the cache has every claimed profile,  *)
(* so that the review of a second claim on the same selector refuses it.   *)
(***************************************************************************)
EXTENDS ProfileAdmission, TLAPS

\* The profile has the finalizer, or will have it if nothing comes between.
Claimed(n) ==
    /\ stored[n] # NoObj
    /\ \/ stored[n].finalizer
       \/ \E r \in pending : r.name = n /\ r.old = stored[n] /\ r.new.finalizer

\* What the requests are, as long as no selector is edited: a creation, or an
\* Update of Reconcile that changes nothing but the finalizer.
RequestsWellFormed ==
    \A r \in pending :
        /\ r.old = NoObj => ~r.new.finalizer /\ ~r.new.deleting
        /\ r.old # NoObj => /\ r.new.uid = r.old.uid
                            /\ r.new.selector = r.old.selector
                            /\ r.new.deleting <=> ~r.new.finalizer

\* No uid is larger than the last one given.
UidsGiven ==
    /\ \A n \in Names : stored[n] # NoObj => stored[n].uid <= lastUid
    /\ \A n \in Names : cache[n] # NoObj => cache[n].uid <= lastUid
    /\ \A r \in pending : r.new.uid <= lastUid

\* The uid of a creation under way is nowhere else.
CreationsFresh ==
    \A r \in pending : r.old = NoObj =>
        /\ \A n \in Names : stored[n] # NoObj => stored[n].uid # r.new.uid
        /\ \A n \in Names : cache[n] # NoObj => cache[n].uid # r.new.uid
        /\ \A q \in pending : q # r => q.new.uid # r.new.uid

\* The cache has every claimed profile.
ClaimedIsCached ==
    \A n \in Names : Claimed(n) =>
        /\ cache[n] # NoObj
        /\ cache[n].uid = stored[n].uid
        /\ cache[n].selector = stored[n].selector

ClaimsUnique ==
    \A m, n \in Names : m # n /\ Claimed(m) /\ Claimed(n) =>
        stored[m].selector # stored[n].selector

AdmissionInv ==
    edits = 0 => /\ RequestsWellFormed /\ UidsGiven /\ CreationsFresh
                 /\ ClaimedIsCached /\ ClaimsUnique

-----------------------------------------------------------------------------

\* A review adds a well-typed request and nothing else.
LEMMA ReviewType ==
    ASSUME TypeOK,
           NEW n \in Names, NEW old \in Profile \union {NoObj}, NEW new \in Profile,
           Review(n, old, new)
    PROVE  pending' \subseteq Request
  BY DEF TypeOK, Review, Request

\* Every step keeps the types of the API server's and the operator's state.
LEMMA TypeStep == ASSUME TypeOK, [Next]_vars PROVE TypeOK'
  <1> USE AdmissionAssumption
  <1>1. ASSUME NEW n \in Names, Create(n) PROVE TypeOK'
    <2>1. PICK s \in Selectors : Review(n, NoObj, [uid |-> lastUid + 1, selector |-> s,
                                          finalizer |-> FALSE, deleting |-> FALSE])
      BY <1>1 DEF Create
    <2>2. [uid |-> lastUid + 1, selector |-> s, finalizer |-> FALSE, deleting |-> FALSE]
              \in Profile
      BY DEF TypeOK, Profile
    <2>3. pending' \subseteq Request
      BY <2>1, <2>2, ReviewType
    <2> QED
      BY <1>1, <2>3 DEF TypeOK, Create
  <1>2. ASSUME NEW n \in Names, EditSelector(n) PROVE TypeOK'
    <2>1. PICK s \in Selectors : Review(n, stored[n], [stored[n] EXCEPT !.selector = s])
      BY <1>2 DEF EditSelector
    <2>2. stored[n] \in Profile /\ [stored[n] EXCEPT !.selector = s] \in Profile
      BY <1>2 DEF TypeOK, EditSelector, Profile
    <2>3. pending' \subseteq Request
      BY <2>1, <2>2, ReviewType
    <2> QED
      BY <1>2, <2>3 DEF TypeOK, EditSelector
  <1>3. ASSUME NEW n \in Names, Delete(n) PROVE TypeOK'
    BY <1>3 DEF TypeOK, Delete, Profile
  <1>4. ASSUME NEW n \in Names, addFinalizer(n) PROVE TypeOK'
    <2>1. cache[n] \in Profile /\ [cache[n] EXCEPT !.finalizer = TRUE] \in Profile
      BY <1>4 DEF TypeOK, addFinalizer, Profile
    <2>2. pending' \subseteq Request
      BY <1>4, <2>1, ReviewType DEF addFinalizer
    <2> QED
      BY <1>4, <2>2 DEF TypeOK, addFinalizer
  <1>5. ASSUME NEW n \in Names, removeFinalizer(n) PROVE TypeOK'
    <2>1. cache[n] \in Profile /\ [cache[n] EXCEPT !.finalizer = FALSE] \in Profile
      BY <1>5 DEF TypeOK, removeFinalizer, Profile
    <2>2. pending' \subseteq Request
      BY <1>5, <2>1, ReviewType DEF removeFinalizer
    <2> QED
      BY <1>5, <2>2 DEF TypeOK, removeFinalizer
  <1>6. ASSUME NEW n \in Names, Deliver(n) PROVE TypeOK'
    BY <1>6 DEF TypeOK, Deliver
  <1>7. ASSUME NEW r \in pending, Store(r) PROVE TypeOK'
    BY <1>7 DEF TypeOK, Store, Request
  <1>8. CASE UNCHANGED vars
    BY <1>8 DEF TypeOK, vars
  <1> QED
    BY <1>1, <1>2, <1>3, <1>4, <1>5, <1>6, <1>7, <1>8 DEF Next

\* A request that takes no new finalizer, or whose base is not what the API
\* server has, adds no claim.
LEMMA NoNewClaim ==
    ASSUME NEW r, pending' = pending \union {r}, UNCHANGED <<stored, cache>>,
           ~r.new.finalizer \/ r.old = NoObj,
           NEW n \in Names, Claimed(n)'
    PROVE  Claimed(n)
  BY DEF Claimed

\* No step breaks the invariant.
LEMMA AdmissionStep ==
    ASSUME TypeOK, AdmissionInv, [Next]_vars PROVE AdmissionInv'
  <1> USE AdmissionAssumption
  <1> SUFFICES ASSUME edits' = 0
               PROVE  /\ RequestsWellFormed' /\ UidsGiven' /\ CreationsFresh'
                      /\ ClaimedIsCached' /\ ClaimsUnique'
    BY DEF AdmissionInv
  <1>0. edits = 0 /\ \A n \in Names : ~EditSelector(n)
    <2>1. edits \in Nat
      BY DEF TypeOK
    <2>2. \A n \in Names : ~EditSelector(n)
      BY <2>1 DEF EditSelector
    <2>3. edits' = edits
      BY <2>2 DEF Next, vars, Create, Delete, addFinalizer, removeFinalizer, Deliver, Store
    <2> QED
      BY <2>2, <2>3
  <1> RequestsWellFormed /\ UidsGiven /\ CreationsFresh /\ ClaimedIsCached /\ ClaimsUnique
    BY <1>0 DEF AdmissionInv
  <1> DEFINE Goal == /\ RequestsWellFormed' /\ UidsGiven' /\ CreationsFresh'
                     /\ ClaimedIsCached' /\ ClaimsUnique'
  <1>1. ASSUME NEW n \in Names, Create(n) PROVE Goal
    <2>1. PICK s \in Selectors : Review(n, NoObj, [uid |-> lastUid + 1, selector |-> s,
                                          finalizer |-> FALSE, deleting |-> FALSE])
      BY <1>1 DEF Create
    <2> DEFINE new == [uid |-> lastUid + 1, selector |-> s,
                       finalizer |-> FALSE, deleting |-> FALSE]
               r == [name |-> n, old |-> NoObj, new |-> new]
    <2>2. pending' = pending \union {r} /\ UNCHANGED <<stored, cache>> /\ lastUid' = lastUid + 1
      BY <1>1, <2>1 DEF Create, Review
    <2>3. RequestsWellFormed'
      BY <2>2 DEF RequestsWellFormed
    <2>4. UidsGiven'
      BY <2>2 DEF UidsGiven, TypeOK, Profile, Request
    <2>5. CreationsFresh'
      <3>1. /\ \A m \in Names : stored[m] # NoObj => stored[m].uid # r.new.uid
            /\ \A m \in Names : cache[m] # NoObj => cache[m].uid # r.new.uid
            /\ \A q \in pending : q.new.uid # r.new.uid
        BY DEF UidsGiven, TypeOK, Profile, Request
      <3> HIDE DEF r
      <3> QED
        BY <2>2, <3>1 DEF CreationsFresh
    <2>6. \A m \in Names : Claimed(m)' => Claimed(m)
      BY <2>2, NoNewClaim
    <2> QED
      BY <2>2, <2>3, <2>4, <2>5, <2>6 DEF ClaimedIsCached, ClaimsUnique
  <1>2. ASSUME NEW n \in Names, Delete(n) PROVE Goal
    <2>1. UNCHANGED <<cache, pending, lastUid>>
      BY <1>2 DEF Delete
    <2>2. \A m \in Names : stored'[m] # NoObj =>
             /\ stored[m] # NoObj
             /\ stored'[m].uid = stored[m].uid /\ stored'[m].selector = stored[m].selector
             /\ stored'[m] = stored[m] \/ stored[m].finalizer
      BY <1>2 DEF Delete, TypeOK, Profile
    <2>3. \A m \in Names : Claimed(m)' => Claimed(m)
      BY <2>1, <2>2 DEF Claimed
    <2>4. RequestsWellFormed' /\ UidsGiven' /\ CreationsFresh'
      BY <2>1, <2>2 DEF RequestsWellFormed, UidsGiven, CreationsFresh
    <2>5. \A m \in Names : Claimed(m)' => stored'[m] # NoObj
      BY DEF Claimed
    <2> QED
      BY <2>1, <2>2, <2>3, <2>4, <2>5 DEF ClaimedIsCached, ClaimsUnique
  <1>3. ASSUME NEW n \in Names, addFinalizer(n) PROVE Goal
    <2> DEFINE r == [name |-> n, old |-> cache[n], new |-> [cache[n] EXCEPT !.finalizer = TRUE]]
    <2>1. /\ pending' = pending \union {r} /\ UNCHANGED <<stored, cache, lastUid>>
          /\ cache[n] \in Profile /\ cache[n] # NoObj /\ ~cache[n].deleting
          /\ Admit(n, [cache[n] EXCEPT !.finalizer = TRUE])
      BY <1>3 DEF addFinalizer, Review, TypeOK
    <2>2. r.name = n /\ r.old = cache[n] /\ r.new.uid = cache[n].uid
          /\ r.new.selector = cache[n].selector
          /\ r.new.finalizer /\ ~r.new.deleting
      BY <2>1 DEF Profile
    <2> HIDE DEF r
    <2>3. RequestsWellFormed'
      BY <2>1, <2>2 DEF RequestsWellFormed
    <2>4. UidsGiven'
      BY <2>1, <2>2 DEF UidsGiven
    <2>5. CreationsFresh'
      BY <2>1, <2>2 DEF CreationsFresh
    <2>6. \A m \in Names : Claimed(m)' => Claimed(m) \/ (m = n /\ stored[n] = cache[n])
      BY <2>1, <2>2 DEF Claimed
    <2>7. ClaimedIsCached'
      BY <2>1, <2>6 DEF ClaimedIsCached
    <2>8. \A m \in Names \ {n} : Claimed(m) => stored[m].selector # cache[n].selector
      BY <2>1, <2>2 DEF ClaimedIsCached, Admit
    <2>9. ClaimsUnique'
      BY <2>1, <2>6, <2>8 DEF ClaimsUnique
    <2> QED
      BY <2>3, <2>4, <2>5, <2>7, <2>9
  <1>4. ASSUME NEW n \in Names, removeFinalizer(n) PROVE Goal
    <2> DEFINE r == [name |-> n, old |-> cache[n], new |-> [cache[n] EXCEPT !.finalizer = FALSE]]
    <2>1. /\ pending' = pending \union {r} /\ UNCHANGED <<stored, cache, lastUid>>
          /\ cache[n] \in Profile /\ cache[n] # NoObj /\ cache[n].deleting
      BY <1>4 DEF removeFinalizer, Review, TypeOK
    <2>2. r.name = n /\ r.old = cache[n] /\ r.new.uid = cache[n].uid
          /\ r.new.selector = cache[n].selector
          /\ ~r.new.finalizer /\ r.new.deleting
      BY <2>1 DEF Profile
    <2> HIDE DEF r
    <2>3. RequestsWellFormed'
      BY <2>1, <2>2 DEF RequestsWellFormed
    <2>4. UidsGiven'
      BY <2>1, <2>2 DEF UidsGiven
    <2>5. CreationsFresh'
      BY <2>1, <2>2 DEF CreationsFresh
    <2>6. \A m \in Names : Claimed(m)' => Claimed(m)
      BY <2>1, <2>2, NoNewClaim
    <2> QED
      BY <2>1, <2>3, <2>4, <2>5, <2>6 DEF ClaimedIsCached, ClaimsUnique
  <1>5. ASSUME NEW n \in Names, Deliver(n) PROVE Goal
    <2>1. UNCHANGED <<stored, pending, lastUid>> /\ cache' = [cache EXCEPT ![n] = stored[n]]
          /\ cache \in [Names -> Profile \union {NoObj}]
      BY <1>5 DEF Deliver, TypeOK
    <2>2. \A m \in Names : Claimed(m)' => Claimed(m) /\ stored[m] # NoObj
      BY <2>1 DEF Claimed
    <2>3. RequestsWellFormed' /\ UidsGiven' /\ CreationsFresh'
      BY <2>1 DEF RequestsWellFormed, UidsGiven, CreationsFresh
    <2> QED
      BY <2>1, <2>2, <2>3 DEF ClaimedIsCached, ClaimsUnique
  <1>6. ASSUME NEW r \in pending, Store(r) PROVE Goal
    <2> DEFINE n == r.name
    <2>1. /\ pending' = pending \ {r} /\ UNCHANGED <<cache, lastUid>>
          /\ stored \in [Names -> Profile \union {NoObj}] /\ n \in Names
          /\ r.new \in Profile /\ r.new # NoObj
      BY <1>6 DEF Store, TypeOK, Request
    <2>2. RequestsWellFormed'
      BY <2>1 DEF RequestsWellFormed
    <2>3. CASE \/ stored[n] # r.old
               \/ r.new.deleting /\ ~r.new.finalizer
      <3>1. \A m \in Names : stored'[m] = stored[m] \/ stored'[m] = NoObj
        BY <1>6, <2>1, <2>3 DEF Store
      <3>2. \A m \in Names : Claimed(m)' => Claimed(m) /\ stored'[m] = stored[m]
        BY <2>1, <3>1 DEF Claimed
      <3>3. UidsGiven' /\ CreationsFresh'
        BY <2>1, <3>1 DEF UidsGiven, CreationsFresh
      <3> QED
        BY <2>1, <2>2, <3>2, <3>3 DEF ClaimedIsCached, ClaimsUnique
    <2>4. CASE /\ stored[n] = r.old
               /\ ~(r.new.deleting /\ ~r.new.finalizer)
      <3>1. stored' = [stored EXCEPT ![n] = r.new]
        BY <1>6, <2>4 DEF Store
      <3>2. stored'[n] = r.new /\ \A m \in Names \ {n} : stored'[m] = stored[m]
        BY <2>1, <3>1
      <3>3. UidsGiven'
        BY <2>1, <3>2 DEF UidsGiven
      <3>4. CreationsFresh'
        <4> SUFFICES ASSUME NEW q \in pending, q # r, q.old = NoObj
                     PROVE  r.new.uid # q.new.uid
          BY <2>1, <3>2 DEF CreationsFresh
        <4> QED
          BY DEF CreationsFresh
      <3>5. \A m \in Names \ {n} : Claimed(m)' => Claimed(m)
        BY <2>1, <3>2 DEF Claimed
      <3>6. CASE r.old = NoObj
        <4>1. ~Claimed(n)'
          <5> SUFFICES ASSUME NEW q \in pending, q # r, q.old = r.new PROVE FALSE
            BY <2>1, <3>2, <3>6 DEF Claimed, RequestsWellFormed
          <5>1. q.new.uid = r.new.uid
            BY <2>1 DEF RequestsWellFormed
          <5> QED
            BY <3>6, <5>1 DEF CreationsFresh
        <4> QED
          BY <2>1, <2>2, <3>2, <3>3, <3>4, <3>5, <4>1 DEF ClaimedIsCached, ClaimsUnique
      <3>7. CASE r.old # NoObj
        <4>1. /\ r.new.finalizer
              /\ r.new.uid = stored[n].uid /\ r.new.selector = stored[n].selector
          BY <2>1, <2>4, <3>7 DEF RequestsWellFormed, Profile
        <4>2. Claimed(n)
          BY <2>4, <3>7, <4>1 DEF Claimed
        <4>3. ClaimedIsCached'
          BY <2>1, <3>2, <3>5, <4>1, <4>2 DEF ClaimedIsCached
        <4>4. ClaimsUnique'
          BY <2>1, <3>2, <3>5, <4>1, <4>2 DEF ClaimsUnique
        <4> QED
          BY <2>2, <3>3, <3>4, <4>3, <4>4
      <3> QED
        BY <3>6, <3>7
    <2> QED
      BY <2>3, <2>4
  <1>7. CASE UNCHANGED vars
    <2>1. UNCHANGED <<stored, cache, pending, lastUid>>
      BY <1>7 DEF vars
    <2> QED
      BY <2>1 DEF RequestsWellFormed, UidsGiven, CreationsFresh, ClaimedIsCached,
                  ClaimsUnique, Claimed
  <1> QED
    BY <1>0, <1>1, <1>2, <1>3, <1>4, <1>5, <1>6, <1>7 DEF Next

\* The profiles in the API server and in the operator's cache, and the requests
\* between the webhook and the API server, keep their types.
THEOREM AdmissionTypeCorrect == Spec => []TypeOK
  <1>1. Init => TypeOK
    BY AdmissionAssumption DEF Init, TypeOK
  <1>2. TypeOK /\ [Next]_vars => TypeOK'
    BY TypeStep
  <1> QED
    BY <1>1, <1>2, PTL DEF Spec

\* The webhook's second review, of the Update that adds the finalizer, keeps
\* two profiles with the same node selector from both being held, for any
\* number of profiles and any lag of the cache.
THEOREM HeldUnique == Spec => []HeldSelectorsUnique
  <1>1. Init => AdmissionInv
    BY DEF Init, AdmissionInv, RequestsWellFormed, UidsGiven, CreationsFresh,
           ClaimedIsCached, ClaimsUnique, Claimed
  <1>2. TypeOK /\ AdmissionInv /\ [Next]_vars => AdmissionInv'
    BY AdmissionStep
  <1>3. AdmissionInv => HeldSelectorsUnique
    BY DEF AdmissionInv, HeldSelectorsUnique, ClaimsUnique, Claimed, SameSelector
  <1> QED
    BY <1>1, <1>2, <1>3, AdmissionTypeCorrect, PTL DEF Spec
=============================================================================
