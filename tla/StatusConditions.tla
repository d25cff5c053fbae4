-------------------------- MODULE StatusConditions --------------------------
(***************************************************************************)
(* What the status of a profile says (controllers/status.go) and what it   *)
(* is derived from: the conditions the machine config operator appends to  *)
(* the KubeletConfig, those of the machine config pool, and those the node *)
(* tuning operator keeps for each node.                                    *)
(* PerformanceProfileController reduces each of the three to a Boolean;    *)
(* here they are lists of conditions with times and texts, and the nodes   *)
(* the profile selects may change.  The profile and its components stay.   *)
(*                                                                         *)
(* A text is missing (NoText) or quotes the condition it comes from.       *)
(***************************************************************************)
EXTENDS Naturals, Sequences, SequencesExt

CONSTANTS
    Nodes,
    Texts,          \* the texts of conditions
    KubeletTypes,   \* "Success" and "Failure"
    PoolReports,    \* what may be said of a pool: [PoolTypes -> PoolCondition]
    TunedReports,   \* what may be said of a node: sequences of conditions
    MaxChanges,     \* bound: changes made by others
    MaxTime         \* bound: seconds

PoolTypes == {"NodeDegraded", "RenderDegraded"}
Sources   == {"kubelet", "pool", "nodes", "profile"} \union Nodes

NoText == "none"

PoolCondition  == [status: BOOLEAN, text: Texts]
TunedCondition == [type: {"Applied", "Degraded"}, status: BOOLEAN, text: Texts]

ASSUME StatusAssumption ==
    /\ MaxChanges \in Nat /\ MaxTime \in Nat
    /\ Nodes \intersect {"kubelet", "pool", "nodes", "profile"} = {}
    /\ {NoText, "applied", "ok"} \subseteq Texts
    /\ PoolReports \subseteq [PoolTypes -> PoolCondition]
    /\ TunedReports \subseteq Seq(TunedCondition)

VARIABLES
    api,         \* the API server: kubelet, pool, tuned, nodes (the selected ones)
    cache,       \* the operator's informer caches of the same
    status,      \* the profile's degraded condition, in the API server
    cStatus,     \* ... and in the cache
    inst,        \* ... and in the copy Reconcile works on
    profileMCP,  \* the pool, as Reconcile has read it
    events, queued, pc,
    relabelled,  \* nodes were selected or not at the last listing, unlike now
    clock, changes

vars == <<api, cache, status, cStatus, inst, profileMCP, events, queued, pc,
          relabelled, clock, changes>>

Available == [reason |-> "Available", text |-> {}]

Healthy == <<[type |-> "Applied", status |-> TRUE, text |-> "applied"],
             [type |-> "Degraded", status |-> FALSE, text |-> "ok"]>>

Init ==
    /\ api = [kubelet |-> <<>>,
              pool |-> [t \in PoolTypes |-> [status |-> FALSE, text |-> NoText]],
              tuned |-> [n \in Nodes |-> Healthy], nodes |-> Nodes]
    /\ cache = api /\ profileMCP = api.pool
    /\ status = Available /\ cStatus = Available /\ inst = Available
    /\ events = {} /\ queued = FALSE /\ pc = "idle"
    /\ relabelled = FALSE /\ clock = 0 /\ changes = 0

-----------------------------------------------------------------------------
(* The conditions.  Each of the three operators returns the texts to be    *)
(* reported; the empty set stands for nil.                                 *)

\* The first of those with the latest time, by strict comparison.
getLatestKubeletConfigCondition(conditions) ==
    {conditions[i] : i \in {j \in DOMAIN conditions :
        /\ \A k \in DOMAIN conditions : conditions[k].time <= conditions[j].time
        /\ \A k \in 1..(j - 1) : conditions[k].time < conditions[j].time}}

getKubeletConditions(conditions) ==
    {<<"kubelet", c.time>> : c \in {l \in getLatestKubeletConfigCondition(conditions) :
                                       l.type = "Failure"}}

getMCPDegradedCondition(pool) ==
    {<<t, pool[t].text>> : t \in {x \in PoolTypes : pool[x].status /\ pool[x].text # NoText}}

TunedFails(conditions) ==
    /\ \E c \in ToSet(conditions) : c.type = "Degraded" /\ c.status
    /\ \E c \in ToSet(conditions) : c.type = "Applied" /\ ~c.status

\* The loop keeps the address of its variable, and so quotes whichever
\* condition it has seen last.
getTunedConditions(tuned, nodes) ==
    {<<n, Last(tuned[n]).text>> : n \in {x \in nodes :
        TunedFails(tuned[x]) /\ Last(tuned[x]).text # NoText}}

\* The first of the three with something to report; reasons are spelled
\* without spaces.
getConditions ==
    LET kubelet == getKubeletConditions(cache.kubelet)
        pool    == getMCPDegradedCondition(profileMCP)
        tuned   == getTunedConditions(cache.tuned, cache.nodes)
    IN IF kubelet # {} THEN [reason |-> "KubeletConfigFailure", text |-> kubelet]
       ELSE IF pool # {} THEN [reason |-> "MCPDegraded", text |-> pool]
       ELSE IF tuned # {} THEN [reason |-> "TunedProfileDegraded", text |-> tuned]
       ELSE Available

-----------------------------------------------------------------------------
(* Reconcile, as far as the status goes.                                   *)

Reconcile ==
    /\ pc = "idle" /\ queued
    /\ queued' = FALSE /\ pc' = "conditions"
    /\ inst' = cStatus /\ profileMCP' = cache.pool
    /\ UNCHANGED <<api, cache, status, cStatus, events, relabelled, clock, changes>>

\* Reason and text are compared, times are not.
Modified(old, new) == old # new

\* A copy that is out of date is refused, and the key comes back.
updateStatus ==
    /\ pc = "conditions"
    /\ pc' = "idle"
    /\ relabelled' = (relabelled /\ cache.nodes # api.nodes)
    /\ IF ~Modified(inst, getConditions) THEN UNCHANGED <<status, events, queued>>
       ELSE IF status = inst
       THEN /\ status' = getConditions
            /\ events' = events \union {"profile"} /\ UNCHANGED queued
       ELSE queued' = TRUE /\ UNCHANGED <<status, events>>
    /\ UNCHANGED <<api, cache, cStatus, inst, profileMCP, clock, changes>>

\* Mutant: the KubeletConfig is watched like the other components.
AnnouncesGeneration(s) == s # "nodes" /\ s # "kubelet"

\* Node labels are not watched; every other change here is one of conditions,
\* which the predicates let pass.
Announces(s) == s # "nodes"

\* The cache catches up and the event is mapped to the profile:
\* tunedProfileToPerformanceProfile asks the cache whether the node is
\* selected.
Deliver(s) ==
    /\ s \in events
    /\ events' = events \ {s}
    /\ cache' = CASE s \in Nodes -> [cache EXCEPT !.tuned[s] = api.tuned[s]]
                  [] s = "profile" -> cache
                  [] OTHER -> [cache EXCEPT ![s] = api[s]]
    /\ cStatus' = IF s = "profile" THEN status ELSE cStatus
    /\ queued' = (queued \/ (Announces(s) /\ (s \in Nodes => s \in cache.nodes)))
    /\ UNCHANGED <<api, status, inst, profileMCP, pc, relabelled, clock, changes>>

\* Mutant: the watch on the profile has a generation predicate.
ResyncFiltered == ~queued /\ UNCHANGED vars

\* The watch on the profile has no predicate, so that the informers' periodic
\* resync passes.
Resync ==
    /\ ~queued /\ queued' = TRUE
    /\ UNCHANGED <<api, cache, status, cStatus, inst, profileMCP, events, pc, relabelled,
                   clock, changes>>

-----------------------------------------------------------------------------
(* The others.                                                             *)

Change(source) ==
    /\ changes < MaxChanges /\ changes' = changes + 1
    /\ events' = events \union {source}
    /\ UNCHANGED <<cache, status, cStatus, inst, profileMCP, queued, pc, clock>>

\* The machine config operator appends a condition, stamped in seconds.
ReportKubelet ==
    /\ \E t \in KubeletTypes :
        api' = [api EXCEPT !.kubelet = Append(@, [type |-> t, time |-> clock])]
    /\ Change("kubelet") /\ UNCHANGED relabelled

ReportPool ==
    /\ \E r \in PoolReports \ {api.pool} : api' = [api EXCEPT !.pool = r]
    /\ Change("pool") /\ UNCHANGED relabelled

\* The node tuning operator reports on a node.
ReportTuned(n) ==
    /\ \E r \in TunedReports \ {api.tuned[n]} : api' = [api EXCEPT !.tuned[n] = r]
    /\ Change(n) /\ UNCHANGED relabelled

\* An administrator labels a node, or takes its label away.
Relabel(n) ==
    /\ api' = [api EXCEPT !.nodes = (@ \ {n}) \union ({n} \ @)]
    /\ relabelled' = TRUE
    /\ Change("nodes")

Tick ==
    /\ clock < MaxTime /\ clock' = clock + 1
    /\ UNCHANGED <<api, cache, status, cStatus, inst, profileMCP, events, queued, pc,
                   relabelled, changes>>

Next ==
    \/ Reconcile \/ updateStatus \/ Resync \/ (\E s \in Sources : Deliver(s))
    \/ ReportKubelet \/ ReportPool \/ Tick
    \/ \E n \in Nodes : ReportTuned(n) \/ Relabel(n)

\* The operator and its informers run, and the resync timer fires.
Fairness ==
    /\ WF_vars(Reconcile) /\ WF_vars(updateStatus) /\ WF_vars(Resync)
    /\ \A s \in Sources : WF_vars(Deliver(s))

Spec == Init /\ [][Next]_vars /\ Fairness

-----------------------------------------------------------------------------
(* Properties.                                                             *)

\* The reports on the KubeletConfig that bear the time of the last one: times
\* have whole seconds, and several may share one.
NewestReports ==
    {api.kubelet[i] : i \in {j \in DOMAIN api.kubelet :
                                api.kubelet[j].time = Last(api.kubelet).time}}

PoolFailing == {t \in PoolTypes : api.pool[t].status}

NodesFailing ==
    {n \in api.nodes :
        /\ \E i \in DOMAIN api.tuned[n] : api.tuned[n][i].type = "Degraded" /\ api.tuned[n][i].status
        /\ \E i \in DOMAIN api.tuned[n] : api.tuned[n][i].type = "Applied" /\ ~api.tuned[n][i].status}

\* What a node is quoted with: the condition that the loop of status.go has seen
\* last, which is the degraded one only when that one comes last.
Quoted(n) == Last(api.tuned[n]).text

Mute(n) == Quoted(n) = NoText

NodesNamed == {x[1] : x \in status.text}

\* Degraded is reported for what is wrong and for nothing else, in words that
\* the API server still has: a failure of the KubeletConfig by a report of the
\* last second in which there is one, a pool in the words of its failing
\* conditions, and all nodes that fail and are not mute, with their quotations.
StatusTrue ==
    /\ status.reason = "KubeletConfigFailure" =>
          \E c \in NewestReports : c.type = "Failure" /\ status.text = {<<"kubelet", c.time>>}
    /\ status.reason # "KubeletConfigFailure" =>
          NewestReports = {} \/ \E c \in NewestReports : c.type # "Failure"
    /\ status.reason = "MCPDegraded" =>
          /\ status.text # {}
          /\ \A x \in status.text : x[1] \in PoolFailing /\ x[2] = api.pool[x[1]].text
    /\ status.reason = "TunedProfileDegraded" =>
          /\ NodesNamed = {n \in NodesFailing : ~Mute(n)}
          /\ \A x \in status.text : x[2] = Quoted(x[1])
    /\ status.reason = "Available" =>
          /\ \A t \in PoolFailing : api.pool[t].text = NoText
          /\ \A n \in NodesFailing : Mute(n)

\* No report gets lost between the watches and the status: once nothing is
\* under way the status is true, unless a node was labelled since the nodes
\* were last listed, of which the operator hears nothing.
SettledStatusTrue ==
    pc = "idle" /\ ~queued /\ events = {} /\ ~relabelled => StatusTrue

\* Whatever was missed, a tuned report on a node not yet selected or a label,
\* the resync makes up for it.
StatusEventuallyTrue == <>[]StatusTrue

=============================================================================
