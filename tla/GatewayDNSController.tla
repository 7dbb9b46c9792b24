------------------------ MODULE GatewayDNSController ------------------------
(***************************************************************************)
(* The xcc-dns-controller (pkg/controllers/gatewaydns): it reconciles the  *)
(* GatewayDNS objects of a management cluster by writing, on every         *)
(* workload cluster of the namespace, one EndpointSlice per cluster whose  *)
(* gateway the GatewayDNS selects.  GatewayDNSs and clusters of different  *)
(* namespaces never meet in the code, so one namespace is modelled.        *)
(*                                                                         *)
(* A Reconcile is a sequence of steps with the world changing in between:  *)
(* collect the gateways, list the clusters, then per cluster list its      *)
(* slices, and create, update and delete them one call at a time.          *)
(*                                                                         *)
(* The management cluster is read through informers only; gatewayDNS,      *)
(* labels and services are what those informers hold.  Slices on workload  *)
(* clusters are read through a cache too, but the controller also writes   *)
(* them, so the cache (seen) and the API server (remote) are both kept.    *)
(* The slice named for cluster c is the one under key c.                   *)
(***************************************************************************)
EXTENDS Naturals, FiniteSets

CONSTANTS
    GatewayDNSs,        \* names of GatewayDNS objects
    Clusters,           \* names of Cluster objects
    ClusterLabels,      \* label sets a cluster can carry
    Specs,              \* GatewayDNS |-> specs it is given: selector and service
    InvalidSelector,    \* a selector LabelSelectorAsSelector refuses
    ServiceNames,       \* services a spec can name in the form namespace/name
    Addresses,          \* external addresses of a load balancer
    RefusedAddresses,   \* those the API server refuses in a slice: the empty address
                        \* of an ingress that has a host name and no IP
    DomainSuffixes,     \* values of DOMAIN_SUFFIX across deployments
    Absent,             \* the object does not exist
    InitialWorlds,      \* what exists when the controller is first deployed
    MaxChanges,         \* bound on changes of objects by their users
    MaxFaults,          \* bound on outages, failed reads and lost answers
    MaxCrashes          \* bound on crashes of the controller

VARIABLES
    gatewayDNS,         \* GatewayDNS |-> spec or Absent
    labels,             \* cluster |-> its labels or Absent
    services,           \* cluster |-> service |-> address, NoAddress or Absent
    reachable,          \* clusters whose API server answers
    connected,          \* clusters the process has a client with a filled cache for
    namespaces,         \* clusters that have the controller's namespace
    remote,             \* cluster |-> cluster |-> slice or Absent, on its API server
    seen,               \* the same, in the controller's cache
    stale,              \* pairs whose cached slice is of an older version
    suffix,             \* DOMAIN_SUFFIX of the running controller
    running,
    queue,              \* workqueue, with the requests delayed after an error
    rec,                \* the running Reconcile
    changes, faults, crashes

worldVars == <<gatewayDNS, labels, services, namespaces>>
sliceVars == <<remote, seen, stale>>
budget == <<changes, faults, crashes>>
linkVars == <<reachable, connected>>
vars == <<worldVars, linkVars, sliceVars, suffix, running, queue, rec, budget>>

NoAddress == "no external IP"      \* or not of type LoadBalancer
NotWanted == "not wanted"          \* no gateway to publish
Unreachable == "unreachable"       \* the gateway could not be looked up
NoHostname == "no hostname"
NoRef == "no ref"
Foreign == "addresses of somebody else"
None == "none"

ServiceStates == Addresses \cup {NoAddress, Absent}
Slices == [ref : GatewayDNSs \cup {NoRef},
           hostname : DomainSuffixes \cup {NoHostname},
           type : {"IPv4", "IPv6"},
           addresses : Addresses \cup {Foreign}]
ForeignSlices == [ref : {NoRef}, hostname : {NoHostname}, type : {"IPv4", "IPv6"},
                  addresses : {Foreign}]
NoSlices == [c \in Clusters |-> Absent]
Existing(f) == {x \in DOMAIN f : f[x] # Absent}

(* No Reconcile is running. *)
Idle == [g |-> None, gateways |-> [c \in Clusters |-> NotWanted], listed |-> FALSE,
         targets |-> {}, target |-> None, missing |-> {}, existing |-> None,
         changed |-> {}, undesired |-> {}, behind |-> {}, failed |-> FALSE]

ASSUME BoundsAssumption ==
    /\ MaxChanges \in Nat /\ MaxFaults \in Nat /\ MaxCrashes \in Nat
    /\ IsFiniteSet(GatewayDNSs) /\ IsFiniteSet(Clusters)
    /\ RefusedAddresses \subseteq Addresses

ASSUME WorldsAssumption ==
    \A w \in InitialWorlds :
        /\ DOMAIN w.gatewayDNS = GatewayDNSs
        /\ \A g \in GatewayDNSs : w.gatewayDNS[g] \in Specs[g] \cup {Absent}
        /\ w.labels \in [Clusters -> ClusterLabels \cup {Absent}]
        /\ w.services \in [Clusters -> [ServiceNames -> ServiceStates]]
        /\ w.namespaces \subseteq Existing(w.labels)

(* The stand-ins for "there is none" are nobody's name or address. *)
ASSUME StandInsAssumption ==
    /\ None \notin GatewayDNSs \cup Clusters
    /\ NotWanted \notin Addresses /\ Unreachable \notin Addresses
    /\ Absent \notin ClusterLabels /\ Absent \notin Slices

-----------------------------------------------------------------------------
(* The pure parts of Reconcile. *)

(* A selector matches a cluster that exists; an invalid one matches none. *)
Matches(spec, l) == l # Absent /\ spec.selector # InvalidSelector /\ l \in spec.selector

(* ClusterToGatewayDNS: the GatewayDNSs that match a cluster's labels. *)
ClusterToGatewayDNS(l) == {g \in Existing(gatewayDNS) : Matches(gatewayDNS[g], l)}

(* getLoadBalancerServiceForCluster on a cluster that answers; a service   *)
(* string not of the form namespace/name names no service.                 *)
ServiceGateway(c, service) ==
    IF service \in ServiceNames /\ services[c][service] \in Addresses
    THEN services[c][service]
    ELSE NotWanted

(* The outcomes of GetGatewaysForClusters for cluster c: an unreachable    *)
(* cluster fails, or its client still answers from its cache.              *)
GatewayOutcomes(g, c) ==
    IF gatewayDNS[g] = Absent \/ ~Matches(gatewayDNS[g], labels[c])
    THEN {NotWanted}
    ELSE {Unreachable : x \in {c} \ reachable}
           \cup {ServiceGateway(c, gatewayDNS[g].service) : x \in {c} \cap connected}

ToEndpointSlice(g, address) ==
    [ref |-> g, hostname |-> suffix, type |-> "IPv4", addresses |-> address]

compareEndpointSlices(a, b) ==
    a.hostname = b.hostname /\ a.type = b.type /\ a.addresses = b.addresses

Merge(source, dest) ==
    [dest EXCEPT !.hostname = source.hostname, !.ref = source.ref, !.type = source.type,
                 !.addresses = source.addresses]

(* Mutant: every slice with a hostname counts as one of g. *)
OwnSlicesOfAnyone(g, t) == {c \in Existing(seen[t]) : seen[t][c].hostname # NoHostname}
(* diffCluster: the slices of g in the cached list of cluster t. *)
OwnSlices(g, t) ==
    {c \in Existing(seen[t]) : seen[t][c].hostname # NoHostname /\ seen[t][c].ref = g}
(* Mutant: a slice is made of a gateway that could not be looked up. *)
MissingEvenIfUnreachable(g, t, gateways) ==
    {c \in Clusters \ OwnSlices(g, t) : gateways[c] # NotWanted}
Missing(g, t, gateways) == {c \in Clusters \ OwnSlices(g, t) : gateways[c] \in Addresses}
(* Mutant: the addresses are not compared. *)
ChangedHostname(g, t, gateways) ==
    {c \in OwnSlices(g, t) : gateways[c] \in Addresses /\ seen[t][c].hostname # suffix}
Changed(g, t, gateways) ==
    {c \in OwnSlices(g, t) : gateways[c] \in Addresses
                             /\ ~compareEndpointSlices(ToEndpointSlice(g, gateways[c]), seen[t][c])}
(* Mutant: a gateway that could not be looked up counts as gone. *)
UndesiredIfUnreachable(g, t, gateways) ==
    {c \in OwnSlices(g, t) : gateways[c] \notin Addresses}
Undesired(g, t, gateways) == {c \in OwnSlices(g, t) : gateways[c] = NotWanted}

-----------------------------------------------------------------------------
Start(d) ==
    /\ running' = TRUE
    /\ suffix' = d
    /\ queue' = Existing(gatewayDNS)
    /\ connected' = reachable
    /\ seen' = remote /\ stale' = {}

Init ==
    /\ \E w \in InitialWorlds :
          /\ gatewayDNS = w.gatewayDNS /\ labels = w.labels
          /\ services = w.services /\ namespaces = w.namespaces
    /\ reachable = Existing(labels) /\ connected = reachable
    /\ remote = [t \in Clusters |-> NoSlices] /\ seen = remote /\ stale = {}
    /\ suffix \in DomainSuffixes
    /\ running = TRUE
    /\ queue = Existing(gatewayDNS)
    /\ rec = Idle
    /\ changes = 0 /\ faults = 0 /\ crashes = 0

(* An event of an object's informer queues requests while the controller   *)
(* runs.                                                                   *)
Enqueue(gs) == queue' = IF running THEN queue \cup gs ELSE queue

Change == changes < MaxChanges /\ changes' = changes + 1 /\ UNCHANGED <<faults, crashes>>
Fault  == faults < MaxFaults /\ faults' = faults + 1 /\ UNCHANGED <<changes, crashes>>

-----------------------------------------------------------------------------
(* The world around the controller. *)

(* A GatewayDNS is created, changed or deleted. *)
SetGatewayDNS(g, obj) ==
    /\ Change /\ gatewayDNS[g] # obj
    /\ gatewayDNS' = [gatewayDNS EXCEPT ![g] = obj]
    /\ Enqueue({g})
    /\ UNCHANGED <<labels, services, namespaces, linkVars, sliceVars, suffix, running, rec>>

(* A cluster is created or its labels change: the map function runs for    *)
(* the old and for the new object.                                         *)
SetCluster(c, l) ==
    /\ Change /\ labels[c] # l
    /\ labels' = [labels EXCEPT ![c] = l]
    /\ reachable' = IF labels[c] = Absent THEN reachable \cup {c} ELSE reachable
    /\ connected' = IF labels[c] = Absent THEN connected \cup {c} ELSE connected
    /\ Enqueue(ClusterToGatewayDNS(labels[c]) \cup ClusterToGatewayDNS(l))
    /\ UNCHANGED <<gatewayDNS, services, namespaces, sliceVars, suffix, running, rec>>

(* A cluster is deleted, with all that was on it. *)
DeleteCluster(c) ==
    /\ Change /\ labels[c] # Absent
    /\ labels' = [labels EXCEPT ![c] = Absent]
    /\ services' = [services EXCEPT ![c] = [s \in ServiceNames |-> Absent]]
    /\ namespaces' = namespaces \ {c}
    /\ reachable' = reachable \ {c} /\ connected' = connected \ {c}
    /\ remote' = [remote EXCEPT ![c] = NoSlices]
    /\ seen' = [seen EXCEPT ![c] = NoSlices]
    /\ stale' = stale \ ({c} \X Clusters)
    /\ Enqueue(ClusterToGatewayDNS(labels[c]))
    /\ UNCHANGED <<gatewayDNS, suffix, running, rec>>

(* A gateway service changes, which only its informer notices. *)
SetService(c, s, state) ==
    /\ Change /\ c \in reachable /\ services[c][s] # state
    /\ services' = [services EXCEPT ![c][s] = state]
    /\ UNCHANGED <<gatewayDNS, labels, namespaces, linkVars, sliceVars, suffix, running,
                   queue, rec>>

(* The controller's namespace is created on a cluster. *)
CreateNamespace(c) ==
    /\ Change /\ c \in reachable /\ c \notin namespaces
    /\ namespaces' = namespaces \cup {c}
    /\ UNCHANGED <<gatewayDNS, labels, services, linkVars, sliceVars, suffix, running,
                   queue, rec>>

(* Somebody deletes a slice on a cluster, or replaces it by one of theirs. *)
EditSlice(t, c, obj) ==
    /\ Change /\ t \in namespaces /\ remote[t][c] # obj
    /\ remote' = [remote EXCEPT ![t][c] = obj]
    /\ stale' = stale \cup {<<t, c>>}
    /\ rec' = IF rec.target = t THEN [rec EXCEPT !.behind = @ \cup {c}] ELSE rec
    /\ UNCHANGED <<worldVars, linkVars, seen, suffix, running, queue>>

(* A cluster stops answering, or answers again; a client that is then made *)
(* anew lists the slices before it serves any.                             *)
Outage(c) ==
    /\ Fault /\ c \in reachable
    /\ reachable' = reachable \ {c}
    /\ UNCHANGED <<worldVars, connected, sliceVars, suffix, running, queue, rec>>

Recover(c) ==
    /\ labels[c] # Absent /\ c \notin reachable
    /\ reachable' = reachable \cup {c} /\ connected' = connected \cup {c}
    /\ IF c \in connected
       THEN UNCHANGED <<seen, stale>>
       ELSE seen' = [seen EXCEPT ![c] = remote[c]] /\ stale' = stale \ ({c} \X Clusters)
    /\ UNCHANGED <<worldVars, remote, suffix, running, queue, rec, budget>>

(* The cache of a cluster's slices catches up. *)
CacheSync(t) ==
    /\ running /\ t \in reachable
    /\ \E c \in Clusters : <<t, c>> \in stale
    /\ seen' = [seen EXCEPT ![t] = remote[t]]
    /\ stale' = stale \ ({t} \X Clusters)
    /\ UNCHANGED <<worldVars, linkVars, remote, suffix, running, queue, rec, budget>>

-----------------------------------------------------------------------------
(* PollGatewayDNS queues all GatewayDNSs every polling interval. *)
PollGatewayDNS ==
    /\ running
    /\ queue' = queue \cup Existing(gatewayDNS)
    /\ UNCHANGED <<worldVars, linkVars, sliceVars, suffix, running, rec, budget>>

-----------------------------------------------------------------------------
(* Reconcile. *)

(* The GatewayDNS is read, its clusters are searched and their gateways    *)
(* collected; a GatewayDNS that is gone wants no gateway.                  *)
ReconcileCollect(g) ==
    /\ rec = Idle /\ g \in queue
    /\ gatewayDNS[g] # Absent => gatewayDNS[g].selector # InvalidSelector
    /\ queue' = queue \ {g}
    /\ \E f \in [Clusters -> Addresses \cup {NotWanted, Unreachable}] :
          /\ \A c \in Clusters : f[c] \in GatewayOutcomes(g, c)
          /\ rec' = [Idle EXCEPT !.g = g, !.gateways = f]
    /\ UNCHANGED <<worldVars, linkVars, sliceVars, suffix, running, budget>>

(* ListMatchingClusters refuses the selector and Reconcile returns the     *)
(* error; the request goes back to the queue.                              *)
ReconcileInvalidSelector(g) ==
    /\ rec = Idle /\ g \in queue
    /\ gatewayDNS[g] # Absent /\ gatewayDNS[g].selector = InvalidSelector
    /\ UNCHANGED vars

(* convergeOnClustersForGatewayDNS lists the clusters of the namespace. *)
ListClusters ==
    /\ rec # Idle /\ ~rec.listed
    /\ rec' = [rec EXCEPT !.listed = TRUE, !.targets = Existing(labels)]
    /\ UNCHANGED <<worldVars, linkVars, sliceVars, suffix, running, queue, budget>>

(* One of the reads of the management cluster failed, of the GatewayDNS, of *)
(* the clusters it selects or of all clusters: Reconcile returns the error *)
(* before it writes anything and its request goes back to the queue.       *)
ReconcileReadFails ==
    /\ rec # Idle /\ ~rec.listed
    /\ Fault
    /\ queue' = queue \cup {rec.g}
    /\ rec' = Idle
    /\ UNCHANGED <<worldVars, linkVars, sliceVars, suffix, running>>

(* ConvergeToClusters takes the next cluster: no client, an error ... *)
ClusterUnreachable(t) ==
    /\ rec.target = None /\ t \in rec.targets
    /\ t \notin reachable
    /\ rec' = [rec EXCEPT !.targets = @ \ {t}, !.failed = TRUE]
    /\ UNCHANGED <<worldVars, linkVars, sliceVars, suffix, running, queue, budget>>

(* ... no namespace, not an error ... *)
ClusterWithoutNamespace(t) ==
    /\ rec.target = None /\ t \in rec.targets
    /\ t \in connected /\ t \notin namespaces
    /\ rec' = [rec EXCEPT !.targets = @ \ {t}]
    /\ UNCHANGED <<worldVars, linkVars, sliceVars, suffix, running, queue, budget>>

(* ... or its cached list of slices is compared with the gateways. *)
DiffCluster(t) ==
    /\ rec.target = None /\ t \in rec.targets
    /\ t \in connected /\ t \in namespaces
    /\ rec' = [rec EXCEPT !.targets = @ \ {t}, !.target = t,
                  !.missing = Missing(rec.g, t, rec.gateways),
                  !.changed = Changed(rec.g, t, rec.gateways),
                  !.undesired = Undesired(rec.g, t, rec.gateways),
                  !.behind = {c \in Clusters : <<t, c>> \in stale}]
    /\ UNCHANGED <<worldVars, linkVars, sliceVars, suffix, running, queue, budget>>

(* convergeCluster returns at the first error, whatever is left to do. *)
Abort == rec' = [rec EXCEPT !.target = None, !.missing = {}, !.existing = None,
                    !.changed = {}, !.undesired = {}, !.behind = {}, !.failed = TRUE]

(* A write of the slice named c on the current cluster.  Its answer may be *)
(* lost although it took effect.                                           *)
WriteSlice(c, obj, next) ==
    /\ remote' = [remote EXCEPT ![rec.target][c] = obj]
    /\ stale' = stale \cup {<<rec.target, c>>}
    /\ \/ rec' = next /\ UNCHANGED budget
       \/ Abort /\ Fault
    /\ UNCHANGED <<worldVars, linkVars, seen, suffix, running, queue>>

(* The API server takes no slice with a refused address and lets nobody    *)
(* change the type of a slice, which merge does to one that is not IPv4.   *)
Accepts(t, c, address) ==
    /\ address \notin RefusedAddresses
    /\ remote[t][c] # Absent => remote[t][c].type = "IPv4"

(* A write that the API server refuses or that does not reach it. *)
WriteFails ==
    /\ Abort
    /\ UNCHANGED <<worldVars, linkVars, sliceVars, suffix, running, queue, budget>>

Converging == rec.target # None
TargetAnswers == rec.target \in reachable

(* First the missing slices, in any order, each by Create ... *)
CreateMissing(c) ==
    /\ Converging /\ rec.existing = None /\ c \in rec.missing
    /\ TargetAnswers /\ remote[rec.target][c] = Absent
    /\ Accepts(rec.target, c, rec.gateways[c])
    /\ WriteSlice(c, ToEndpointSlice(rec.g, rec.gateways[c]),
                  [rec EXCEPT !.missing = @ \ {c}])

(* Mutant: a name that is taken is left to whoever took it. *)
CreateAlreadyExistsIgnored(c) ==
    /\ Converging /\ rec.existing = None /\ c \in rec.missing
    /\ TargetAnswers /\ remote[rec.target][c] # Absent
    /\ rec.gateways[c] \notin RefusedAddresses
    /\ rec' = [rec EXCEPT !.missing = @ \ {c}]
    /\ UNCHANGED <<worldVars, linkVars, sliceVars, suffix, running, queue, budget>>

(* ... which may find that the name is taken, once the slice is valid. *)
CreateAlreadyExists(c) ==
    /\ Converging /\ rec.existing = None /\ c \in rec.missing
    /\ TargetAnswers /\ remote[rec.target][c] # Absent
    /\ rec.gateways[c] \notin RefusedAddresses
    /\ rec' = [rec EXCEPT !.existing = c]
    /\ UNCHANGED <<worldVars, linkVars, sliceVars, suffix, running, queue, budget>>

(* Then the slice is got from the cache, merged and updated. *)
UpdateExisting(c) ==
    /\ Converging /\ rec.existing = c
    /\ TargetAnswers /\ remote[rec.target][c] # Absent
    /\ seen[rec.target][c] # Absent /\ <<rec.target, c>> \notin stale
    /\ Accepts(rec.target, c, rec.gateways[c])
    /\ WriteSlice(c, Merge(ToEndpointSlice(rec.g, rec.gateways[c]), seen[rec.target][c]),
                  [rec EXCEPT !.missing = @ \ {c}, !.existing = None])

UpdateChanged(c) ==
    /\ Converging /\ rec.missing = {} /\ c \in rec.changed
    /\ TargetAnswers /\ remote[rec.target][c] # Absent
    /\ c \notin rec.behind
    /\ Accepts(rec.target, c, rec.gateways[c])
    /\ WriteSlice(c, Merge(ToEndpointSlice(rec.g, rec.gateways[c]), remote[rec.target][c]),
                  [rec EXCEPT !.changed = @ \ {c}])

(* Delete names the slice and has no precondition. *)
DeleteUndesired(c) ==
    /\ Converging /\ rec.missing = {} /\ rec.changed = {} /\ c \in rec.undesired
    /\ TargetAnswers /\ remote[rec.target][c] # Absent
    /\ WriteSlice(c, Absent, [rec EXCEPT !.undesired = @ \ {c}])

(* The call that is next fails: the cluster does not answer, the slice is  *)
(* refused, the copy got from the cache is missing or out of date, or the  *)
(* slice is gone.                                                          *)
CallFails(c) ==
    /\ Converging
    /\ \/ ~TargetAnswers /\ c \in rec.missing \cup rec.changed \cup rec.undesired
       \/ /\ rec.existing = c
          /\ \/ seen[rec.target][c] = Absent
             \/ <<rec.target, c>> \in stale
             \/ ~Accepts(rec.target, c, rec.gateways[c])
       \/ /\ rec.existing = None /\ c \in rec.missing
          /\ rec.gateways[c] \in RefusedAddresses
       \/ /\ rec.missing = {} /\ c \in rec.changed
          /\ \/ c \in rec.behind \/ remote[rec.target][c] = Absent
             \/ ~Accepts(rec.target, c, rec.gateways[c])
       \/ /\ rec.missing = {} /\ rec.changed = {} /\ c \in rec.undesired
          /\ remote[rec.target][c] = Absent
    /\ WriteFails

ClusterConverged ==
    /\ Converging /\ rec.missing \cup rec.changed \cup rec.undesired = {}
    /\ rec' = [rec EXCEPT !.target = None, !.behind = {}]
    /\ UNCHANGED <<worldVars, linkVars, sliceVars, suffix, running, queue, budget>>

(* All clusters were tried; any error makes Reconcile return one, and its  *)
(* request goes back to the queue.                                         *)
ReconcileEnd ==
    /\ rec.listed /\ rec.targets = {} /\ rec.target = None
    /\ queue' = IF rec.failed THEN queue \cup {rec.g} ELSE queue
    /\ rec' = Idle
    /\ UNCHANGED <<worldVars, linkVars, sliceVars, suffix, running, budget>>

-----------------------------------------------------------------------------
(* The process. *)

Crash ==
    /\ running /\ crashes < MaxCrashes
    /\ crashes' = crashes + 1
    /\ running' = FALSE
    /\ queue' = {} /\ rec' = Idle
    /\ UNCHANGED <<worldVars, linkVars, sliceVars, suffix, changes, faults>>

(* A new process, possibly of a new deployment, lists everything anew. *)
Restart(d) ==
    /\ ~running
    /\ Start(d)
    /\ UNCHANGED <<worldVars, reachable, remote, rec, budget>>

World ==
    \/ \E g \in GatewayDNSs : \E obj \in Specs[g] \cup {Absent} : SetGatewayDNS(g, obj)
    \/ \E c \in Clusters :
          \/ \E l \in ClusterLabels : SetCluster(c, l)
          \/ DeleteCluster(c)
          \/ \E s \in ServiceNames, state \in ServiceStates : SetService(c, s, state)
          \/ CreateNamespace(c)
          \/ \E d \in Clusters, obj \in {Absent} \cup ForeignSlices : EditSlice(c, d, obj)
          \/ Outage(c) \/ Recover(c) \/ CacheSync(c)
    \/ \E d \in DomainSuffixes : Restart(d)

ReconcileStep ==
    \/ ListClusters \/ ClusterConverged \/ ReconcileEnd
    \/ \E c \in Clusters :
          \/ ClusterUnreachable(c) \/ ClusterWithoutNamespace(c) \/ DiffCluster(c)
          \/ CreateMissing(c) \/ CreateAlreadyExists(c) \/ UpdateExisting(c)
          \/ UpdateChanged(c) \/ DeleteUndesired(c) \/ CallFails(c)

Controller ==
    \/ PollGatewayDNS
    \/ \E g \in GatewayDNSs : ReconcileCollect(g) \/ ReconcileInvalidSelector(g)
    \/ ReconcileReadFails
    \/ ReconcileStep

Next == World \/ Controller \/ Crash

Spec == Init /\ [][Next]_vars

(* The cache of a cluster that answers catches up, the process is          *)
(* restarted, timers fire, the workqueue serves every request, and a       *)
(* Reconcile that began goes on.  An outage may last for ever.             *)
Fairness ==
    /\ \A c \in Clusters : WF_vars(CacheSync(c))
    /\ WF_vars(\E d \in DomainSuffixes : Restart(d))
    /\ WF_vars(PollGatewayDNS)
    /\ \A g \in GatewayDNSs : SF_vars(ReconcileCollect(g))
    /\ WF_vars(ReconcileStep)

FairSpec == Spec /\ Fairness

-----------------------------------------------------------------------------
(* The state has its types; in particular no slice is ever built from a    *)
(* gateway whose cluster could not be reached, which has no Service and    *)
(* would make ToEndpointSlice dereference nil.                             *)
ControllerTypeOK ==
    /\ DOMAIN gatewayDNS = GatewayDNSs
    /\ \A g \in GatewayDNSs : gatewayDNS[g] \in Specs[g] \cup {Absent}
    /\ labels \in [Clusters -> ClusterLabels \cup {Absent}]
    /\ services \in [Clusters -> [ServiceNames -> ServiceStates]]
    /\ reachable \subseteq connected
    /\ connected \subseteq Existing(labels) /\ namespaces \subseteq Existing(labels)
    /\ remote \in [Clusters -> [Clusters -> Slices \cup {Absent}]]
    /\ seen \in [Clusters -> [Clusters -> Slices \cup {Absent}]]
    /\ stale \subseteq Clusters \X Clusters
    /\ suffix \in DomainSuffixes /\ running \in BOOLEAN
    /\ queue \subseteq GatewayDNSs
    /\ rec.g \in GatewayDNSs \cup {None} /\ rec.target \in Clusters \cup {None}
    /\ rec.gateways \in [Clusters -> Addresses \cup {NotWanted, Unreachable}]
    /\ rec.targets \cup rec.behind \subseteq Clusters
    /\ rec.missing \cup rec.changed \cup rec.undesired \subseteq Clusters
    /\ rec.existing \in rec.missing \cup {None}
    /\ rec.listed \in BOOLEAN /\ rec.failed \in BOOLEAN
    /\ changes \in 0..MaxChanges /\ faults \in 0..MaxFaults /\ crashes \in 0..MaxCrashes

(* While no object is changed by anyone else, a published slice is never   *)
(* withdrawn: not while its gateway's cluster cannot be reached, not on a  *)
(* lost answer, a stale cache or a restart, and not by another GatewayDNS  *)
(* that selects the same cluster.                                          *)
PublishedStaysPublished ==
    [][changes' = 0 => \A t, c \in Clusters :
                          remote[t][c] # Absent => remote'[t][c] # Absent]_vars

(* What g wants published for c. *)
Gateway(g, c) ==
    IF Matches(gatewayDNS[g], labels[c])
    THEN ServiceGateway(c, gatewayDNS[g].service) ELSE NotWanted

(* If several GatewayDNSs want a slice for c, which has one name, it is    *)
(* that of one of them.                                                    *)
ConvergedAt(g, t, c) ==
    IF Gateway(g, c) = NotWanted
    THEN remote[t][c] # Absent => remote[t][c].ref # g
    ELSE \E h \in Existing(gatewayDNS) :
            /\ Gateway(h, c) # NotWanted
            /\ remote[t][c] = ToEndpointSlice(h, Gateway(h, c))

(* Some slice that g wants on t is one that t's API server refuses. *)
Blocked(g, t) ==
    \E c \in Clusters : Gateway(g, c) # NotWanted /\ ~Accepts(t, c, Gateway(g, c))

(* Reconciling converges: once the world stands still, every reachable     *)
(* cluster with the namespace has exactly the slices that each GatewayDNS  *)
(* wants for reachable gateway clusters, with the current address and      *)
(* suffix, and none for clusters that were deleted or are no longer        *)
(* selected, however long other clusters stay unreachable, although        *)
(* GatewayDNSs may take a slice from each other at every poll and although *)
(* nothing watches services, namespaces or slices.  Only where the API     *)
(* server refuses one of the slices that a GatewayDNS wants may its others *)
(* stay behind, on that cluster.                                           *)
Converges ==
    <>[](\A g \in Existing(gatewayDNS), t \in reachable \cap namespaces, c \in Clusters :
            (/\ gatewayDNS[g].selector # InvalidSelector /\ ~Blocked(g, t)
             /\ c \in reachable \/ ~Matches(gatewayDNS[g], labels[c]))
               => ConvergedAt(g, t, c))

(* A published slice whose gateway has another address is updated on each  *)
(* reachable cluster, whatever the gateways of other clusters are.         *)
ChangedSlicesUpdated ==
    <>[](\A g \in Existing(gatewayDNS), t \in reachable \cap namespaces, c \in reachable :
            (/\ gatewayDNS[g].selector # InvalidSelector
             /\ Gateway(g, c) \in Addresses \ RefusedAddresses
             /\ remote[t][c] # Absent /\ remote[t][c].ref = g)
               => ConvergedAt(g, t, c))

(* A slice of somebody else's that has the name of a wanted one is updated *)
(* to it, whatever it was: merge overwrites its annotations, address type  *)
(* and endpoints.                                                          *)
ConflictingSlicesUpdated ==
    <>[](\A g \in Existing(gatewayDNS), t \in reachable \cap namespaces, c \in reachable :
            (/\ gatewayDNS[g].selector # InvalidSelector
             /\ Gateway(g, c) \in Addresses \ RefusedAddresses
             /\ remote[t][c] # Absent /\ remote[t][c].ref = NoRef)
               => ConvergedAt(g, t, c))

(* The slices of a GatewayDNS that is deleted are deleted from every       *)
(* reachable cluster.                                                      *)
DeletedGatewayDNSCleanedUp ==
    <>[](\A g \in GatewayDNSs \ Existing(gatewayDNS), t \in reachable, c \in Clusters :
            remote[t][c] # Absent => remote[t][c].ref # g)
=============================================================================
