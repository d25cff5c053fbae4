---------------------- MODULE StatusConditions_proofs ----------------------
(***************************************************************************)
(* SettledStatusTrue for every set of nodes, every set of reports and      *)
(* every number of changes.  The argument has two halves: what             *)
(* getConditions makes of reports is true of these reports, and when       *)
(* nothing is under way the status is what getConditions makes of the      *)
(* reports as they are.                                                    *)
(***************************************************************************)
EXTENDS StatusConditions, NaturalsOrder

KubeletCondition == [type: KubeletTypes, time: Nat]

Reports == [kubelet: Seq(KubeletCondition), pool: [PoolTypes -> PoolCondition],
            tuned: [Nodes -> Seq(TunedCondition)], nodes: SUBSET Nodes]

\* getConditions, of any reports.
Reported(kubeletConditions, poolConditions, tunedConditions, nodes) ==
    LET kubelet == getKubeletConditions(kubeletConditions)
        pool    == getMCPDegradedCondition(poolConditions)
        tuned   == getTunedConditions(tunedConditions, nodes)
    IN IF kubelet # {} THEN [reason |-> "KubeletConfigFailure", text |-> kubelet]
       ELSE IF pool # {} THEN [reason |-> "MCPDegraded", text |-> pool]
       ELSE IF tuned # {} THEN [reason |-> "TunedProfileDegraded", text |-> tuned]
       ELSE Available

-----------------------------------------------------------------------------
(* The inductive invariant.                                                *)

StatusTypes ==
    /\ api \in Reports /\ cache \in Reports
    /\ events \subseteq Sources
    /\ queued \in BOOLEAN /\ relabelled \in BOOLEAN
    /\ pc \in {"idle", "conditions"}
    /\ clock \in Nat

\* A cache without an event under way is right, but for the node labels: there
\* it is the listing that counts.
CachesFollow ==
    /\ "kubelet" \notin events => cache.kubelet = api.kubelet
    /\ "pool" \notin events => cache.pool = api.pool
    /\ \A n \in Nodes : n \notin events => cache.tuned[n] = api.tuned[n]
    /\ "profile" \notin events => cStatus = status
    /\ ~relabelled => cache.nodes = api.nodes

\* Reports on the KubeletConfig come in the order of their times.
ReportsInOrder ==
    \A i, j \in DOMAIN api.kubelet :
        /\ api.kubelet[j].time <= clock
        /\ i <= j => api.kubelet[i].time <= api.kubelet[j].time

\* What a running Reconcile has read still holds, or it will be called again.
ReadsHold ==
    pc = "conditions" /\ ~queued =>
        /\ profileMCP = cache.pool
        /\ "profile" \notin events => inst = status

\* The status stands for the caches whenever no Reconcile is due.
StatusStands ==
    pc = "idle" /\ ~queued /\ ~relabelled /\ "profile" \notin events =>
        status = Reported(cache.kubelet, cache.pool, cache.tuned, cache.nodes)

StatusInv == StatusTypes /\ CachesFollow /\ ReportsInOrder /\ ReadsHold /\ StatusStands
-----------------------------------------------------------------------------
(* What is reported is true of the reports.                                *)

\* The latest condition of getLatestKubeletConfigCondition has the time of the
\* last report, though it need not be that report.
LEMMA LatestHasLastTime ==
    ASSUME NEW s \in Seq(KubeletCondition), s # <<>>,
           \A i, j \in DOMAIN s : i <= j => s[i].time <= s[j].time
    PROVE  \E j \in DOMAIN s : /\ getLatestKubeletConfigCondition(s) = {s[j]}
                               /\ s[j].time = Last(s).time
<1> DEFINE Latest == {j \in DOMAIN s : s[j].time = Last(s).time}
<1>1. Len(s) \in Nat \ {0} /\ DOMAIN s = 1..Len(s) /\ \A j \in DOMAIN s : s[j].time \in Nat
  <2>1. Len(s) \in Nat \ {0} /\ DOMAIN s = 1..Len(s)
    OBVIOUS
  <2>2. \A j \in DOMAIN s : s[j] \in KubeletCondition
    OBVIOUS
  <2> QED
    BY <2>1, <2>2 DEF KubeletCondition
<1>2. Len(s) \in Latest /\ Latest \in SUBSET Nat
  BY <1>1 DEF Last
<1>3. PICK j \in Latest : \A k \in Latest : j <= k
  BY <1>2, LeastNatural
<1>4. j \in DOMAIN s /\ s[j].time = Last(s).time
  OBVIOUS
<1>5. \A k \in DOMAIN s : s[k].time <= s[j].time
  BY <1>1, <1>4 DEF Last
<1>6. \A k \in 1..(j - 1) : s[k].time < s[j].time
  <2> TAKE k \in 1..(j - 1)
  <2>1. k \in DOMAIN s /\ k < j
    BY <1>1, <1>4
  <2>2. k \notin Latest
    BY <1>3, <2>1, <1>1
  <2> QED
    BY <1>1, <1>4, <1>5, <2>1, <2>2
<1>7. ASSUME NEW i \in DOMAIN s, \A k \in DOMAIN s : s[k].time <= s[i].time,
             \A k \in 1..(i - 1) : s[k].time < s[i].time
      PROVE  i = j
  <2>1. s[i].time = s[j].time
    BY <1>1, <1>4, <1>5, <1>7
  <2>2. ~(i < j)
    BY <1>1, <1>4, <1>6, <2>1
  <2>3. ~(j < i)
    BY <1>1, <1>4, <1>7, <2>1
  <2> QED
    BY <1>1, <1>4, <2>2, <2>3
<1>8. getLatestKubeletConfigCondition(s) = {s[j]}
  BY <1>4, <1>5, <1>6, <1>7 DEF getLatestKubeletConfigCondition
<1> QED
  BY <1>4, <1>8

\* What getKubeletConditions returns is a failure reported in the last second;
\* when it returns nothing, that second has a report that is not one.
LEMMA KubeletTrue ==
    ASSUME StatusTypes, ReportsInOrder
    PROVE  LET text == getKubeletConditions(api.kubelet)
           IN  /\ text # {} => \E c \in NewestReports : c.type = "Failure" /\ text = {<<"kubelet", c.time>>}
               /\ text = {} => NewestReports = {} \/ \E c \in NewestReports : c.type # "Failure"
<1> DEFINE s == api.kubelet
<1>1. s \in Seq(KubeletCondition)
  BY DEF StatusTypes, Reports
<1>2. CASE s = <<>>
  BY <1>2 DEF getKubeletConditions, getLatestKubeletConfigCondition, NewestReports
<1>3. CASE s # <<>>
  <2>1. PICK j \in DOMAIN s : /\ getLatestKubeletConfigCondition(s) = {s[j]}
                              /\ s[j].time = Last(s).time
    BY <1>1, <1>3, LatestHasLastTime DEF ReportsInOrder
  <2>2. s[j] \in NewestReports
    BY <2>1 DEF NewestReports
  <2>3. getKubeletConditions(s) =
           IF s[j].type = "Failure" THEN {<<"kubelet", s[j].time>>} ELSE {}
    BY <2>1 DEF getKubeletConditions
  <2> QED
    BY <2>2, <2>3
<1> QED
  BY <1>2, <1>3

\* getMCPDegradedCondition quotes failing conditions only, and all of those
\* that say something.
LEMMA PoolTrue ==
    LET text == getMCPDegradedCondition(api.pool)
    IN  /\ \A x \in text : x[1] \in PoolFailing /\ x[2] = api.pool[x[1]].text
        /\ text = {} => \A t \in PoolFailing : api.pool[t].text = NoText
<1> DEFINE text == getMCPDegradedCondition(api.pool)
<1>1. \A x \in text : \E t \in PoolFailing : x = <<t, api.pool[t].text>>
  BY DEF getMCPDegradedCondition, PoolFailing
<1>2. \A x \in text : x[1] \in PoolFailing /\ x[2] = api.pool[x[1]].text
  BY <1>1
<1>3. text = {} => \A t \in PoolFailing : api.pool[t].text = NoText
  BY DEF getMCPDegradedCondition, PoolFailing
<1> QED
  BY <1>2, <1>3

\* getTunedConditions names the failing nodes that are not mute, each with its
\* quotation.
LEMMA TunedTrue ==
    ASSUME StatusTypes
    PROVE  LET text == getTunedConditions(api.tuned, api.nodes)
           IN  /\ {x[1] : x \in text} = {n \in NodesFailing : ~Mute(n)}
               /\ \A x \in text : x[2] = Quoted(x[1])
<1> DEFINE text == getTunedConditions(api.tuned, api.nodes)
<1>2. NodesFailing = {n \in api.nodes : TunedFails(api.tuned[n])}
  BY DEF NodesFailing, TunedFails, ToSet
<1>3. \A x \in text : \E n \in NodesFailing : ~Mute(n) /\ x = <<n, Quoted(n)>>
  BY <1>2 DEF getTunedConditions, Mute, Quoted
<1>4. \A n \in NodesFailing : ~Mute(n) => <<n, Quoted(n)>> \in text
  BY <1>2 DEF getTunedConditions, Mute, Quoted
<1> HIDE DEF text
<1>6. \A x \in text : x[1] \in NodesFailing /\ ~Mute(x[1]) /\ x[2] = Quoted(x[1])
  BY <1>3
<1>7. {x[1] : x \in text} = {n \in NodesFailing : ~Mute(n)}
  <2>1. ASSUME NEW n \in NodesFailing, ~Mute(n)
        PROVE  \E x \in text : x[1] = n
    BY <1>4, <2>1
  <2> QED
    BY <1>6, <2>1
<1> QED
  BY <1>6, <1>7 DEF text

\* A status that getConditions makes of the reports as they are is true.
LEMMA ReportedIsTrue ==
    ASSUME StatusTypes, ReportsInOrder,
           status = Reported(api.kubelet, api.pool, api.tuned, api.nodes)
    PROVE  StatusTrue
<1> DEFINE kubelet == getKubeletConditions(api.kubelet)
           pool    == getMCPDegradedCondition(api.pool)
           tuned   == getTunedConditions(api.tuned, api.nodes)
<1>0. status = IF kubelet # {} THEN [reason |-> "KubeletConfigFailure", text |-> kubelet]
               ELSE IF pool # {} THEN [reason |-> "MCPDegraded", text |-> pool]
               ELSE IF tuned # {} THEN [reason |-> "TunedProfileDegraded", text |-> tuned]
               ELSE Available
  BY DEF Reported
<1>1. /\ kubelet # {} =>
            \E c \in NewestReports : c.type = "Failure" /\ kubelet = {<<"kubelet", c.time>>}
      /\ kubelet = {} => NewestReports = {} \/ \E c \in NewestReports : c.type # "Failure"
  BY KubeletTrue
<1>2. \A x \in pool : x[1] \in PoolFailing /\ x[2] = api.pool[x[1]].text
  BY PoolTrue
<1>3. pool = {} => \A t \in PoolFailing : api.pool[t].text = NoText
  BY PoolTrue
<1>4. /\ {x[1] : x \in tuned} = {n \in NodesFailing : ~Mute(n)}
      /\ \A x \in tuned : x[2] = Quoted(x[1])
  BY TunedTrue
<1>5. tuned = {} => \A n \in NodesFailing : Mute(n)
  BY <1>4
<1> HIDE DEF kubelet, pool, tuned
<1>6. CASE kubelet # {}
  <2>1. status.reason = "KubeletConfigFailure" /\ status.text = kubelet
    BY <1>0, <1>6
  <2> QED
    BY <1>1, <1>6, <2>1 DEF StatusTrue
<1>7. CASE kubelet = {} /\ pool # {}
  <2>1. status.reason = "MCPDegraded" /\ status.text = pool
    BY <1>0, <1>7
  <2> QED
    BY <1>1, <1>2, <1>7, <2>1 DEF StatusTrue
<1>8. CASE kubelet = {} /\ pool = {} /\ tuned # {}
  <2>1. status.reason = "TunedProfileDegraded" /\ status.text = tuned
    BY <1>0, <1>8
  <2> QED
    BY <1>1, <1>4, <1>8, <2>1 DEF StatusTrue, NodesNamed
<1>9. CASE kubelet = {} /\ pool = {} /\ tuned = {}
  <2>1. status.reason = "Available"
    BY <1>0, <1>9 DEF Available
  <2> QED
    BY <1>1, <1>3, <1>5, <1>9, <2>1 DEF StatusTrue
<1> QED
  BY <1>6, <1>7, <1>8, <1>9
-----------------------------------------------------------------------------
(* The invariant.                                                          *)

\* The initial status is that of the initial reports.
LEMMA StatusInit == Init => StatusInv
<1> SUFFICES ASSUME Init PROVE StatusInv
  OBVIOUS
<1>1. api \in Reports
  <2>1. <<>> \in Seq(KubeletCondition) /\ Nodes \in SUBSET Nodes
    OBVIOUS
  <2>2. [t \in PoolTypes |-> [status |-> FALSE, text |-> NoText]] \in [PoolTypes -> PoolCondition]
    BY StatusAssumption DEF PoolCondition
  <2>3. Healthy \in Seq(TunedCondition)
    BY StatusAssumption DEF Healthy, TunedCondition
  <2>4. [n \in Nodes |-> Healthy] \in [Nodes -> Seq(TunedCondition)]
    BY <2>3
  <2> QED
    BY <2>1, <2>2, <2>4 DEF Init, Reports
<1>2. /\ api.kubelet = <<>> /\ api.pool = [t \in PoolTypes |-> [status |-> FALSE, text |-> NoText]]
      /\ api.tuned = [n \in Nodes |-> Healthy] /\ api.nodes = Nodes
  BY DEF Init
<1>3. cache = api /\ cStatus = status /\ status = Available
  BY DEF Init
<1>4. getKubeletConditions(api.kubelet) = {}
  BY <1>2 DEF getKubeletConditions, getLatestKubeletConfigCondition
<1>5. getMCPDegradedCondition(api.pool) = {}
  BY <1>2 DEF getMCPDegradedCondition
<1>6. getTunedConditions(api.tuned, api.nodes) = {}
  <2>1. ~TunedFails(Healthy)
    BY DEF TunedFails, Healthy, ToSet
  <2>2. \A n \in api.nodes : ~TunedFails(api.tuned[n])
    BY <1>2, <2>1
  <2> QED
    BY <2>2 DEF getTunedConditions
<1>7. status = Reported(cache.kubelet, cache.pool, cache.tuned, cache.nodes)
  BY <1>3, <1>4, <1>5, <1>6 DEF Reported
<1>8. StatusTypes
  BY <1>1 DEF Init, StatusTypes
<1>9. ReportsInOrder
  BY <1>2 DEF ReportsInOrder
<1> QED
  BY <1>3, <1>7, <1>8, <1>9 DEF Init, StatusInv, CachesFollow, ReadsHold, StatusStands

\* A report on a node that is not selected does not change what
\* getTunedConditions returns.
LEMMA UnselectedUnread ==
    ASSUME NEW t, NEW u, NEW nodes, \A n \in nodes : t[n] = u[n]
    PROVE  getTunedConditions(t, nodes) = getTunedConditions(u, nodes)
BY DEF getTunedConditions

\* A delivery brings a cache up to date and, where it could change what is to
\* be reported, calls Reconcile.
LEMMA DeliverInv ==
    ASSUME StatusInv, NEW s \in Sources, Deliver(s)
    PROVE  StatusInv'
<1> USE DEF StatusInv
<1>0. /\ s \in events /\ events' = events \ {s}
      /\ UNCHANGED <<api, status, inst, profileMCP, pc, relabelled, clock, changes>>
      /\ cStatus' = IF s = "profile" THEN status ELSE cStatus
      /\ queued' = (queued \/ (Announces(s) /\ (s \in Nodes => s \in cache.nodes)))
  BY DEF Deliver
<1>1. api \in Reports /\ cache \in Reports
  BY DEF StatusTypes
<1>2. queued' \in BOOLEAN
  BY <1>0, Zenon DEF StatusTypes
<1>3. ReportsInOrder'
  BY <1>0 DEF ReportsInOrder
<1>4. CASE s \in Nodes
  <2>1. s \notin {"kubelet", "pool", "nodes", "profile"}
    BY <1>4, StatusAssumption
  <2>2. cache' = [cache EXCEPT !.tuned[s] = api.tuned[s]]
    BY <1>4, <2>1 DEF Deliver
  <2>3. /\ cache' \in Reports
        /\ cache'.kubelet = cache.kubelet /\ cache'.pool = cache.pool /\ cache'.nodes = cache.nodes
        /\ cache'.tuned = [cache.tuned EXCEPT ![s] = api.tuned[s]]
    BY <1>1, <1>4, <2>2 DEF Reports
  <2>4. StatusTypes'
    BY <1>0, <1>2, <2>3 DEF StatusTypes
  <2>5. CachesFollow'
    <3>1. \A n \in Nodes : n \notin events' => cache'.tuned[n] = api'.tuned[n]
      BY <1>0, <1>1, <1>4, <2>3 DEF CachesFollow, Reports
    <3> QED
      BY <1>0, <2>1, <2>3, <3>1 DEF CachesFollow
  <2>6. ReadsHold'
    BY <1>0, <2>1, <2>3 DEF ReadsHold
  <2>7. StatusStands'
    <3> SUFFICES ASSUME pc' = "idle", ~queued', ~relabelled', "profile" \notin events'
                 PROVE  status' = Reported(cache'.kubelet, cache'.pool, cache'.tuned, cache'.nodes)
      BY DEF StatusStands
    <3>1. ~queued /\ s \notin cache.nodes
      BY <1>0, <2>1 DEF Announces
    <3>2. status = Reported(cache.kubelet, cache.pool, cache.tuned, cache.nodes)
      BY <1>0, <2>1, <3>1 DEF StatusStands
    <3>3. \A n \in cache.nodes : cache'.tuned[n] = cache.tuned[n]
      BY <1>1, <2>3, <3>1 DEF Reports
    <3>4. getTunedConditions(cache'.tuned, cache.nodes) = getTunedConditions(cache.tuned, cache.nodes)
      BY <3>3, UnselectedUnread
    <3> QED
      BY <1>0, <2>3, <3>2, <3>4 DEF Reported
  <2> QED
    BY <1>3, <2>4, <2>5, <2>6, <2>7
<1>5. CASE s = "profile"
  <2>1. cache' = cache /\ "profile" \notin Nodes
    BY <1>5, StatusAssumption DEF Deliver
  <2>2. queued'
    BY <1>0, <1>5, <2>1 DEF Announces
  <2>3. StatusTypes'
    BY <1>0, <1>2, <2>1 DEF StatusTypes
  <2>4. CachesFollow'
    BY <1>0, <1>5, <2>1 DEF CachesFollow
  <2> QED
    BY <1>3, <2>2, <2>3, <2>4 DEF ReadsHold, StatusStands
<1>6. CASE s \in {"kubelet", "pool"}
  <2>1. s \notin Nodes /\ s # "profile" /\ s # "nodes"
    BY <1>6, StatusAssumption
  <2>2. cache' = [cache EXCEPT ![s] = api[s]]
    BY <1>6, <2>1 DEF Deliver
  <2>3. queued'
    BY <1>0, <2>1 DEF Announces
  <2>4. /\ cache' \in Reports
        /\ cache'.tuned = cache.tuned /\ cache'.nodes = cache.nodes
        /\ cache'.kubelet = IF s = "kubelet" THEN api.kubelet ELSE cache.kubelet
        /\ cache'.pool = IF s = "pool" THEN api.pool ELSE cache.pool
    BY <1>1, <1>6, <2>2 DEF Reports
  <2>5. StatusTypes'
    BY <1>0, <1>2, <2>4 DEF StatusTypes
  <2>6. CachesFollow'
    BY <1>0, <1>6, <2>1, <2>4 DEF CachesFollow
  <2> QED
    BY <1>3, <2>3, <2>5, <2>6 DEF ReadsHold, StatusStands
<1>7. CASE s = "nodes"
  <2>1. "nodes" \notin Nodes
    BY StatusAssumption
  <2>2. cache' = [cache EXCEPT !["nodes"] = api["nodes"]]
    BY <1>7, <2>1 DEF Deliver
  <2>3. queued' = queued
    BY <1>0, <1>7, Zenon DEF Announces, StatusTypes
  <2>4. /\ cache' \in Reports /\ cache'.tuned = cache.tuned /\ cache'.kubelet = cache.kubelet
        /\ cache'.pool = cache.pool /\ cache'.nodes = api.nodes
    BY <1>1, <2>2 DEF Reports
  <2>5. StatusTypes'
    BY <1>0, <1>2, <2>4 DEF StatusTypes
  <2>6. CachesFollow'
    BY <1>0, <1>7, <2>1, <2>4 DEF CachesFollow
  <2>7. ReadsHold'
    BY <1>0, <1>7, <2>3, <2>4 DEF ReadsHold
  <2>8. StatusStands'
    BY <1>0, <1>7, <2>3, <2>4 DEF StatusStands, CachesFollow
  <2> QED
    BY <1>3, <2>5, <2>6, <2>7, <2>8
<1> QED
  BY <1>4, <1>5, <1>6, <1>7 DEF Sources

\* Reconcile and updateStatus: the status stands after the latter unless the
\* key is queued again.
LEMMA ReconcileInv ==
    ASSUME StatusInv, Reconcile \/ updateStatus \/ Resync
    PROVE  StatusInv'
<1> USE DEF StatusInv
<1>1. CASE Reconcile
  BY <1>1 DEF Reconcile, StatusTypes, CachesFollow, ReportsInOrder, ReadsHold, StatusStands
<1>2. CASE updateStatus
  <2>1. /\ pc = "conditions" /\ pc' = "idle"
        /\ relabelled' = (relabelled /\ cache.nodes # api.nodes)
        /\ UNCHANGED <<api, cache, cStatus, inst, profileMCP, clock, changes>>
    BY <1>2 DEF updateStatus
  <2>2. getConditions = Reported(cache.kubelet, profileMCP, cache.tuned, cache.nodes)
    BY DEF getConditions, Reported
  <2>3. relabelled' \in BOOLEAN /\ (~relabelled' => cache'.nodes = api'.nodes)
    BY <2>1, Zenon DEF CachesFollow
  <2>4. ReportsInOrder' /\ ReadsHold'
    BY <2>1 DEF ReportsInOrder, ReadsHold
  <2>5. CASE inst = getConditions /\ UNCHANGED <<status, events, queued>>
    <3>1. StatusTypes'
      BY <2>1, <2>3, <2>5 DEF StatusTypes
    <3>2. CachesFollow'
      BY <2>1, <2>3, <2>5 DEF CachesFollow
    <3>3. StatusStands'
      BY <2>1, <2>2, <2>5 DEF StatusStands, ReadsHold
    <3> QED
      BY <2>4, <3>1, <3>2, <3>3
  <2>6. CASE events' = events \union {"profile"} /\ UNCHANGED queued
    <3>1. StatusTypes'
      BY <2>1, <2>3, <2>6 DEF StatusTypes, Sources
    <3>2. CachesFollow'
      BY <2>1, <2>3, <2>6 DEF CachesFollow
    <3> QED
      BY <2>4, <2>6, <3>1, <3>2 DEF StatusStands
  <2>7. CASE queued' = TRUE /\ UNCHANGED <<status, events>>
    <3>1. StatusTypes'
      BY <2>1, <2>3, <2>7 DEF StatusTypes
    <3>2. CachesFollow'
      BY <2>1, <2>3, <2>7 DEF CachesFollow
    <3> QED
      BY <2>4, <2>7, <3>1, <3>2 DEF StatusStands
  <2> QED
    BY <1>2, <2>5, <2>6, <2>7 DEF updateStatus, Modified
<1>3. CASE Resync
  BY <1>3 DEF Resync, StatusTypes, CachesFollow, ReportsInOrder, ReadsHold, StatusStands
<1> QED
  BY <1>1, <1>2, <1>3

\* The others write to the API server only, and each of their changes puts an
\* event under way.
LEMMA OthersInv ==
    ASSUME StatusInv,
           ReportKubelet \/ ReportPool \/ Tick \/ \E n \in Nodes : ReportTuned(n) \/ Relabel(n)
    PROVE  StatusInv'
<1> USE DEF StatusInv
<1>0. api \in Reports /\ "kubelet" \notin Nodes /\ "pool" \notin Nodes /\ "nodes" \notin Nodes
      /\ "profile" \notin Nodes
  BY StatusAssumption DEF StatusTypes
<1>1. ASSUME NEW source \in Sources \ {"profile"}, Change(source)
      PROVE  /\ events' = events \union {source} /\ events' \subseteq Sources
             /\ UNCHANGED <<cache, status, cStatus, inst, profileMCP, queued, pc, clock>>
             /\ ReadsHold'
  BY <1>1 DEF Change, ReadsHold, StatusTypes
<1>2. CASE ReportKubelet
  <2>1. PICK t \in KubeletTypes :
           api' = [api EXCEPT !.kubelet = Append(@, [type |-> t, time |-> clock])]
    BY <1>2 DEF ReportKubelet
  <2> DEFINE c == [type |-> t, time |-> clock]
  <2>2. c \in KubeletCondition /\ api.kubelet \in Seq(KubeletCondition)
    BY <1>0 DEF KubeletCondition, Reports, StatusTypes
  <2> DEFINE longer == Append(api.kubelet, c)
  <2>10. api' = [api EXCEPT !.kubelet = longer]
    BY <2>1
  <2> HIDE DEF c
  <2>11. longer \in Seq(KubeletCondition)
    BY <2>2
  <2>3. /\ api' \in Reports /\ api'.kubelet = longer
        /\ api'.pool = api.pool /\ api'.tuned = api.tuned /\ api'.nodes = api.nodes
    <3> HIDE DEF longer
    <3> QED
      BY <1>0, <2>10, <2>11 DEF Reports
  <2>4. Change("kubelet") /\ UNCHANGED relabelled
    BY <1>2 DEF ReportKubelet
  <2>5. /\ events' = events \union {"kubelet"} /\ events' \subseteq Sources
        /\ UNCHANGED <<cache, status, cStatus, inst, profileMCP, queued, pc, clock>>
        /\ ReadsHold'
    BY <1>1, <2>4 DEF Sources
  <2>6. ReportsInOrder'
    <3>1. c.time = clock /\ clock \in Nat
      BY DEF c, StatusTypes
    <3>2. ASSUME NEW i \in DOMAIN api'.kubelet, NEW j \in DOMAIN api'.kubelet
          PROVE  /\ api'.kubelet[j].time <= clock
                 /\ i <= j => api'.kubelet[i].time <= api'.kubelet[j].time
      <4>1. i \in 1..Len(api.kubelet) + 1 /\ j \in 1..Len(api.kubelet) + 1
            /\ DOMAIN api.kubelet = 1..Len(api.kubelet)
        BY <2>2, <2>3, <3>2
      <4>2. \A k \in 1..Len(api.kubelet) : api'.kubelet[k] = api.kubelet[k]
        BY <2>2, <2>3
      <4>3. api'.kubelet[Len(api.kubelet) + 1] = c
        BY <2>2, <2>3
      <4>4. CASE j = Len(api.kubelet) + 1
        <5>1. \A k \in DOMAIN api.kubelet : api.kubelet[k].time <= clock
          BY DEF ReportsInOrder
        <5> QED
          BY <2>2, <3>1, <4>1, <4>2, <4>3, <4>4, <5>1
      <4>5. CASE j \in 1..Len(api.kubelet)
        BY <2>2, <4>1, <4>2, <4>5 DEF ReportsInOrder
      <4> QED
        BY <2>2, <4>1, <4>4, <4>5
    <3> QED
      BY <2>5, <3>2 DEF ReportsInOrder
  <2>7. StatusTypes'
    BY <2>3, <2>4, <2>5 DEF StatusTypes
  <2>8. CachesFollow'
    BY <1>0, <2>3, <2>4, <2>5 DEF CachesFollow
  <2>9. StatusStands'
    BY <2>4, <2>5 DEF StatusStands
  <2> QED
    BY <2>5, <2>6, <2>7, <2>8, <2>9
<1>3. CASE ReportPool
  <2>1. PICK r \in PoolReports : api' = [api EXCEPT !.pool = r]
    BY <1>3 DEF ReportPool
  <2>2. /\ api' \in Reports /\ api'.kubelet = api.kubelet
        /\ api'.tuned = api.tuned /\ api'.nodes = api.nodes
    BY <1>0, <2>1, StatusAssumption DEF Reports
  <2>3. Change("pool") /\ UNCHANGED relabelled
    BY <1>3 DEF ReportPool
  <2>4. /\ events' = events \union {"pool"} /\ events' \subseteq Sources
        /\ UNCHANGED <<cache, status, cStatus, inst, profileMCP, queued, pc, clock>>
        /\ ReadsHold'
    BY <1>1, <2>3 DEF Sources
  <2>5. StatusTypes'
    BY <2>2, <2>3, <2>4 DEF StatusTypes
  <2>6. CachesFollow'
    BY <1>0, <2>2, <2>3, <2>4 DEF CachesFollow
  <2>7. ReportsInOrder' /\ StatusStands'
    BY <2>2, <2>3, <2>4 DEF ReportsInOrder, StatusStands
  <2> QED
    BY <2>4, <2>5, <2>6, <2>7
<1>4. ASSUME NEW n \in Nodes, ReportTuned(n)
      PROVE  StatusInv'
  <2>1. PICK r \in TunedReports : api' = [api EXCEPT !.tuned[n] = r]
    BY <1>4 DEF ReportTuned
  <2>2. /\ api' \in Reports /\ api'.kubelet = api.kubelet /\ api'.pool = api.pool
        /\ api'.nodes = api.nodes /\ api'.tuned = [api.tuned EXCEPT ![n] = r]
    BY <1>0, <2>1, StatusAssumption DEF Reports
  <2>3. Change(n) /\ UNCHANGED relabelled
    BY <1>4 DEF ReportTuned
  <2>4. /\ events' = events \union {n} /\ events' \subseteq Sources
        /\ UNCHANGED <<cache, status, cStatus, inst, profileMCP, queued, pc, clock>>
        /\ ReadsHold'
    BY <1>0, <1>1, <2>3 DEF Sources
  <2>5. StatusTypes'
    BY <2>2, <2>3, <2>4 DEF StatusTypes
  <2>6. CachesFollow'
    <3>1. \A m \in Nodes : m \notin events' => cache'.tuned[m] = api'.tuned[m]
      BY <1>0, <2>2, <2>4 DEF CachesFollow, Reports
    <3> QED
      BY <1>0, <2>2, <2>3, <2>4, <3>1 DEF CachesFollow
  <2>7. ReportsInOrder' /\ StatusStands'
    BY <1>0, <2>2, <2>3, <2>4 DEF ReportsInOrder, StatusStands
  <2> QED
    BY <2>4, <2>5, <2>6, <2>7
<1>5. ASSUME NEW n \in Nodes, Relabel(n)
      PROVE  StatusInv'
  <2>1. /\ api' = [api EXCEPT !.nodes = (@ \ {n}) \union ({n} \ @)] /\ relabelled' = TRUE
        /\ Change("nodes")
    BY <1>5 DEF Relabel
  <2>2. /\ api' \in Reports /\ api'.kubelet = api.kubelet /\ api'.pool = api.pool
        /\ api'.tuned = api.tuned
    BY <1>0, <1>5, <2>1 DEF Reports
  <2>3. /\ events' = events \union {"nodes"} /\ events' \subseteq Sources
        /\ UNCHANGED <<cache, status, cStatus, inst, profileMCP, queued, pc, clock>>
        /\ ReadsHold'
    BY <1>1, <2>1 DEF Sources
  <2>4. StatusTypes'
    BY <2>1, <2>2, <2>3 DEF StatusTypes
  <2>5. CachesFollow'
    BY <1>0, <2>1, <2>2, <2>3 DEF CachesFollow
  <2>6. ReportsInOrder' /\ StatusStands'
    BY <2>1, <2>2, <2>3 DEF ReportsInOrder, StatusStands
  <2> QED
    BY <2>3, <2>4, <2>5, <2>6
<1>6. CASE Tick
  <2>1. /\ clock' = clock + 1 /\ clock \in Nat
        /\ UNCHANGED <<api, cache, status, cStatus, inst, profileMCP, events, queued, pc, relabelled>>
    BY <1>6 DEF Tick, StatusTypes
  <2>2. ReportsInOrder'
    <3>1. \A j \in DOMAIN api.kubelet : api.kubelet[j].time \in Nat
      <4>1. \A j \in DOMAIN api.kubelet : api.kubelet[j] \in KubeletCondition
        BY <1>0 DEF Reports
      <4> QED
        BY <4>1 DEF KubeletCondition
    <3> QED
      BY <2>1, <3>1 DEF ReportsInOrder
  <2>3. StatusTypes'
    BY <2>1 DEF StatusTypes
  <2> QED
    BY <2>1, <2>2, <2>3 DEF CachesFollow, ReadsHold, StatusStands
<1> QED
  BY <1>2, <1>3, <1>4, <1>5, <1>6

\* No report gets lost on the way from the watches to the status: when nothing
\* is under way, and the nodes were listed since the last of them was labelled,
\* Degraded is reported for what is wrong, for nothing else and in words that
\* are still current.  For any set of nodes and reports and any number of
\* changes.
THEOREM SettledTrue == Spec => []SettledStatusTrue
<1>1. Init => StatusInv
  BY StatusInit
<1>2. StatusInv /\ [Next]_vars => StatusInv'
  <2> SUFFICES ASSUME StatusInv, [Next]_vars PROVE StatusInv'
    OBVIOUS
  <2>1. CASE Reconcile \/ updateStatus \/ Resync
    BY <2>1, ReconcileInv
  <2>2. CASE \E s \in Sources : Deliver(s)
    BY <2>2, DeliverInv
  <2>3. CASE ReportKubelet \/ ReportPool \/ Tick \/ \E n \in Nodes : ReportTuned(n) \/ Relabel(n)
    BY <2>3, OthersInv
  <2>4. CASE UNCHANGED vars
    BY <2>4 DEF vars, StatusInv, StatusTypes, CachesFollow, ReportsInOrder, ReadsHold, StatusStands
  <2> QED
    BY <2>1, <2>2, <2>3, <2>4 DEF Next
<1>3. StatusInv => SettledStatusTrue
  <2> SUFFICES ASSUME StatusInv, pc = "idle", ~queued, events = {}, ~relabelled
               PROVE  StatusTrue
    BY DEF SettledStatusTrue
  <2>1. /\ cache.kubelet = api.kubelet /\ cache.pool = api.pool /\ cache.nodes = api.nodes
        /\ \A n \in Nodes : cache.tuned[n] = api.tuned[n]
    BY DEF StatusInv, CachesFollow
  <2>2. cache.nodes \subseteq Nodes
    BY DEF StatusInv, StatusTypes, Reports
  <2>3. getTunedConditions(cache.tuned, cache.nodes) = getTunedConditions(api.tuned, cache.nodes)
    BY <2>1, <2>2, UnselectedUnread
  <2>4. status = Reported(cache.kubelet, cache.pool, cache.tuned, cache.nodes)
    BY DEF StatusInv, StatusStands
  <2>5. status = Reported(api.kubelet, api.pool, api.tuned, api.nodes)
    BY <2>1, <2>3, <2>4 DEF Reported
  <2> QED
    BY <2>5, ReportedIsTrue DEF StatusInv
<1> QED
  BY <1>1, <1>2, <1>3, PTL DEF Spec
=============================================================================
