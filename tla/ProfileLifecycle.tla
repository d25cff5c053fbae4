-------------------------- MODULE ProfileLifecycle --------------------------
(***************************************************************************)
(* What the operator promises about a profile and its components, without  *)
(* caches, work queue or API calls: a profile is held by the operator's    *)
(* finalizer before anything is deployed for it, the hold is given up only *)
(* when the profile is being deleted, a component belongs to the           *)
(* incarnation of the profile that was held when it was deployed, and it   *)
(* never changes hands.                                                    *)
(*                                                                         *)
(* Components may go at any time: others may delete them, and the operator *)
(* may give up its hold before the last one is gone (it decides by its     *)
(* caches), in which case they are left to the garbage collector.          *)
(***************************************************************************)
EXTENDS Naturals

CONSTANT Kinds

VARIABLES
    incarnation,  \* how many profiles of this name there have been
    exists,       \* the profile is there
    held,         \* ... with the operator's finalizer
    deleting,     \* ... with a deletion timestamp
    owners        \* owners[k]: the incarnation component k belongs to; {} if there is none

profileVars == <<incarnation, exists, held, deleting>>
vars == <<profileVars, owners>>

\* Nothing yet, or what an older release of the operator has left.
Init ==
    /\ incarnation \in {0, 1}
    /\ exists = (incarnation = 1) /\ held = (incarnation = 1) /\ deleting = FALSE
    /\ \A k \in Kinds : owners[k] \subseteq {incarnation}
    /\ incarnation = 0 => \A k \in Kinds : owners[k] = {}

Create ==
    /\ ~exists
    /\ incarnation' = incarnation + 1
    /\ exists' = TRUE /\ held' = FALSE /\ deleting' = FALSE
    /\ UNCHANGED owners

Hold ==
    /\ exists /\ ~deleting
    /\ held' = TRUE
    /\ UNCHANGED <<incarnation, exists, deleting, owners>>

Delete ==
    /\ exists
    /\ deleting' = TRUE
    /\ UNCHANGED <<incarnation, exists, held, owners>>

Release ==
    /\ held /\ deleting
    /\ held' = FALSE
    /\ UNCHANGED <<incarnation, exists, deleting, owners>>

\* The last finalizer was removed from a profile under deletion, or there was
\* none when it was deleted; the operator's may be that last one.
Vanish ==
    /\ exists
    /\ held => deleting
    /\ exists' = FALSE /\ held' = FALSE /\ deleting' = FALSE
    /\ UNCHANGED <<incarnation, owners>>

Deploy(k) ==
    /\ exists /\ held
    /\ owners[k] = {}
    /\ owners' = [owners EXCEPT ![k] = {incarnation}]
    /\ UNCHANGED profileVars

Remove(k) ==
    /\ owners' = [owners EXCEPT ![k] = {}]
    /\ UNCHANGED profileVars

Next ==
    \/ Create \/ Hold \/ Delete \/ Release \/ Vanish
    \/ \E k \in Kinds : Deploy(k) \/ Remove(k)

Spec == Init /\ [][Next]_vars
=============================================================================
