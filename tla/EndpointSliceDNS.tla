-------------------------- MODULE EndpointSliceDNS --------------------------
(***************************************************************************)
(* The dns-server's EndpointSlice controller                               *)
(* (pkg/controllers/endpointslicedns/controller.go, started by setup.go of *)
(* the crosscluster plugin) between the API server it watches and the      *)
(* records cache it fills.                                                 *)
(*                                                                         *)
(*   API server --watch--> informer store --notification--> workqueue      *)
(*       --Reconcile: Get from the store, then write the records cache     *)
(*                                                                         *)
(* The controller-runtime parts (watch, store, notifications, workqueue    *)
(* with one worker, back-off) are external and modelled from how the       *)
(* controller uses them: the store is written before its notification is   *)
(* handled, a key is queued at most once, and Get reads the store.         *)
(***************************************************************************)
EXTENDS DNSCache

CONSTANTS
    Slices,             \* contents of EndpointSlices: hostname, addressType, addresses
    NoHostname,         \* the dns hostname annotation is not set
    Absent,             \* the object does not exist
    IPString,           \* IPString[a] is net.ParseIP(a).String()
    MaxChanges,         \* bound on writes to the API server
    MaxCrashes,         \* bound on crashes from outside
    MaxRelists          \* bound on broken watches

VARIABLES
    slices,             \* API server: key |-> slice or Absent
    watch,              \* key |-> changes sent and not yet received
    informer,           \* the informer's store: key |-> slice or Absent
    notifications,      \* key |-> number of store changes not yet handled
    queue,              \* the workqueue
    backoff,            \* keys waiting to be queued again after an error
    fetched,            \* what the running Reconcile got, or Idle
    running,            \* the process is up
    changes, crashes, relists

apiVars == <<slices, changes>>
informerVars == <<watch, informer, notifications, relists>>
queueVars == <<queue, backoff, fetched>>
vars == <<cacheVars, apiVars, informerVars, queueVars, running, crashes>>

Objects == Slices \cup {Absent}
Idle == [key |-> "none", slice |-> "none"]

(* The addresses Reconcile takes over: of an IPv4 slice those that parse,  *)
(* in Go's notation; of an FQDN slice all, as written.                     *)
SliceAddresses(s) ==
    IF s.addressType = "IPv4"
    THEN LET parsed == SelectSeq(s.addresses, LAMBDA a : a \in IPs)
         IN  [i \in DOMAIN parsed |-> IPString[parsed[i]]]
    ELSE s.addresses

(* Reconcile goes on to the cache: annotation set, address type handled. *)
Handled(s) == s.hostname # NoHostname /\ s.addressType \in {"IPv4", "FQDN"}

ASSUME SlicesAssumption ==
    /\ Absent \notin Slices /\ "none" \notin ResourceKeys
    /\ \A s \in Slices : Handled(s) => s.hostname \in Names /\ SliceAddresses(s) \in AddressLists
    /\ MaxChanges \in Nat /\ MaxCrashes \in Nat /\ MaxRelists \in Nat

EntryFor(k, s) == [ResourceKey |-> k, FQDN |-> s.hostname, Addresses |-> SliceAddresses(s)]

Init ==
    /\ slices \in [ResourceKeys -> Objects]
    /\ watch = [k \in ResourceKeys |-> <<>>]
    /\ informer = [k \in ResourceKeys |-> Absent]
    /\ notifications = [k \in ResourceKeys |-> 0]
    /\ queue = {} /\ backoff = {} /\ fetched = Idle
    /\ CacheInit
    /\ running = FALSE
    /\ changes = 0 /\ crashes = 0 /\ relists = 0

-----------------------------------------------------------------------------
(* The API server and the informer. *)

(* Somebody creates, changes or deletes an EndpointSlice; the API server   *)
(* keeps the address type of a slice for its life.                         *)
ApiWrite(k, obj) ==
    /\ changes < MaxChanges
    /\ obj # slices[k]
    /\ obj # Absent /\ slices[k] # Absent => obj.addressType = slices[k].addressType
    /\ slices' = [slices EXCEPT ![k] = obj]
    /\ watch' = IF running THEN [watch EXCEPT ![k] = Append(@, obj)] ELSE watch
    /\ changes' = changes + 1
    /\ UNCHANGED <<cacheVars, informer, notifications, relists, queueVars, running, crashes>>

(* The informer receives the next change of k and writes its store. *)
InformerDeliver(k) ==
    /\ watch[k] # <<>>
    /\ watch' = [watch EXCEPT ![k] = Tail(@)]
    /\ informer' = [informer EXCEPT ![k] = Head(watch[k])]
    /\ notifications' = [notifications EXCEPT ![k] = @ + 1]
    /\ UNCHANGED <<cacheVars, apiVars, relists, queueVars, running, crashes>>

(* The watch breaks; the informer lists again and sees only the outcome of *)
(* the changes it missed.                                                  *)
InformerRelist ==
    /\ running /\ relists < MaxRelists
    /\ \E k \in ResourceKeys : watch[k] # <<>>
    /\ watch' = [k \in ResourceKeys |-> <<>>]
    /\ informer' = slices
    /\ notifications' = [k \in ResourceKeys |->
                            notifications[k] + IF informer[k] # slices[k] THEN 1 ELSE 0]
    /\ relists' = relists + 1
    /\ UNCHANGED <<cacheVars, apiVars, queueVars, running, crashes>>

(* The event handler of For(&EndpointSlice{}) queues the object's key. *)
Notify(k) ==
    /\ notifications[k] > 0
    /\ notifications' = [notifications EXCEPT ![k] = @ - 1]
    /\ queue' = queue \cup {k}
    /\ UNCHANGED <<cacheVars, apiVars, watch, informer, relists, backoff, fetched, running, crashes>>

-----------------------------------------------------------------------------
(* Reconcile. *)

(* Mutant: NotFound is ignored and the empty slice is gone on with. *)
ReconcileGetIgnoresNotFound(k) ==
    /\ fetched = Idle /\ k \in queue
    /\ queue' = queue \ {k}
    /\ fetched' = [key |-> k,
                   slice |-> IF informer[k] # Absent THEN informer[k]
                             ELSE [hostname |-> NoHostname, addressType |-> "",
                                   addresses |-> <<>>]]
    /\ UNCHANGED <<cacheVars, apiVars, informerVars, backoff, running, crashes>>

(* The worker takes k from the queue and Reconcile gets the slice. *)
ReconcileGet(k) ==
    /\ fetched = Idle /\ k \in queue
    /\ queue' = queue \ {k}
    /\ fetched' = [key |-> k, slice |-> informer[k]]
    /\ UNCHANGED <<cacheVars, apiVars, informerVars, backoff, running, crashes>>

(* Mutant: the error is logged and dropped. *)
ReconcileGetErrorDropped(k) ==
    /\ fetched = Idle /\ k \in queue
    /\ queue' = queue \ {k}
    /\ UNCHANGED <<cacheVars, apiVars, informerVars, backoff, fetched, running, crashes>>

(* Get fails otherwise than with NotFound: Reconcile returns the error and *)
(* the key is queued again after a delay.                                  *)
ReconcileGetError(k) ==
    /\ fetched = Idle /\ k \in queue
    /\ queue' = queue \ {k}
    /\ backoff' = backoff \cup {k}
    /\ UNCHANGED <<cacheVars, apiVars, informerVars, fetched, running, crashes>>

BackoffExpires(k) ==
    /\ k \in backoff
    /\ backoff' = backoff \ {k}
    /\ queue' = queue \cup {k}
    /\ UNCHANGED <<cacheVars, apiVars, informerVars, fetched, running, crashes>>

(* The process is gone, with everything it had in memory. *)
ProcessEnds ==
    /\ running' = FALSE
    /\ watch' = [k \in ResourceKeys |-> <<>>]
    /\ informer' = [k \in ResourceKeys |-> Absent]
    /\ notifications' = [k \in ResourceKeys |-> 0]
    /\ queue' = {} /\ backoff' = {} /\ fetched' = Idle
    /\ entries' = [n \in {} |-> <<>>]
    /\ resourceKeyToFQDN' = [k \in {} |-> <<>>]
    /\ UNCHANGED <<apiVars, relists>>

(* Mutant: the record is looked up for the log line only. *)
ReconcileDeleteLogsOnly ==
    /\ fetched # Idle /\ fetched.slice = Absent
    /\ LookupByResourceKey(fetched.key) # NoEntry
    /\ fetched' = Idle
    /\ UNCHANGED <<cacheVars, apiVars, informerVars, queue, backoff, running, crashes>>

(* The slice was not found: its record is looked up, deleted, and the name *)
(* of the record that was found is logged.                                 *)
ReconcileDelete ==
    /\ fetched # Idle /\ fetched.slice = Absent
    /\ LookupByResourceKey(fetched.key) # NoEntry
    /\ DeleteByResourceKey(fetched.key)
    /\ fetched' = Idle
    /\ UNCHANGED <<apiVars, informerVars, queue, backoff, running, crashes>>

(* No record was found: entry.FQDN dereferences nil and the panic, which   *)
(* controller-runtime does not recover, ends the process.                  *)
ReconcilePanic ==
    /\ fetched # Idle /\ fetched.slice = Absent
    /\ LookupByResourceKey(fetched.key) = NoEntry
    /\ ProcessEnds
    /\ UNCHANGED crashes

(* No hostname annotation, or an address type that is not handled: return. *)
ReconcileSkip ==
    /\ fetched # Idle /\ fetched.slice # Absent
    /\ ~Handled(fetched.slice)
    /\ fetched' = Idle
    /\ UNCHANGED <<cacheVars, apiVars, informerVars, queue, backoff, running, crashes>>

(* The record is written; whether it is valid only decides a log line. *)
ReconcileUpsert ==
    /\ fetched # Idle /\ fetched.slice # Absent
    /\ Handled(fetched.slice)
    /\ Upsert(EntryFor(fetched.key, fetched.slice))
    /\ fetched' = Idle
    /\ UNCHANGED <<apiVars, informerVars, queue, backoff, running, crashes>>

-----------------------------------------------------------------------------
(* The process. *)

(* Mutant: slices that exist at the start are not queued. *)
StartWithoutList ==
    /\ ~running
    /\ running' = TRUE
    /\ informer' = slices
    /\ UNCHANGED <<cacheVars, apiVars, watch, notifications, relists, queueVars, crashes>>

(* setupController: an empty cache, and a manager whose informer lists the *)
(* slices before the worker starts.                                        *)
Start ==
    /\ ~running
    /\ running' = TRUE
    /\ informer' = slices
    /\ notifications' = [k \in ResourceKeys |-> IF slices[k] = Absent THEN 0 ELSE 1]
    /\ UNCHANGED <<cacheVars, apiVars, watch, relists, queueVars, crashes>>

Crash ==
    /\ running /\ crashes < MaxCrashes
    /\ crashes' = crashes + 1
    /\ ProcessEnds

Reconcile ==
    \/ \E k \in ResourceKeys :
          ReconcileGet(k) \/ ReconcileGetError(k) \/ BackoffExpires(k)
    \/ ReconcileDelete \/ ReconcilePanic \/ ReconcileSkip \/ ReconcileUpsert

Next ==
    \/ \E k \in ResourceKeys, obj \in Objects : ApiWrite(k, obj)
    \/ \E k \in ResourceKeys : InformerDeliver(k) \/ Notify(k)
    \/ InformerRelist
    \/ Reconcile
    \/ Start \/ Crash

Spec == Init /\ [][Next]_vars

(* The kubelet restarts the container, the informer and the workqueue      *)
(* deliver, and Get does not fail for a key forever.  Nothing makes        *)
(* anybody write slices, break watches or crash the process.               *)
Fairness ==
    /\ WF_vars(Start)
    /\ WF_vars(ReconcileDelete \/ ReconcilePanic \/ ReconcileSkip \/ ReconcileUpsert)
    /\ \A k \in ResourceKeys :
          /\ WF_vars(InformerDeliver(k)) /\ WF_vars(Notify(k))
          /\ WF_vars(BackoffExpires(k)) /\ SF_vars(ReconcileGet(k))

FairSpec == Spec /\ Fairness

-----------------------------------------------------------------------------
(* Properties. *)

(* Every variable has its type. *)
PipelineTypeOK ==
    /\ CacheTypeOK
    /\ slices \in [ResourceKeys -> Objects] /\ informer \in [ResourceKeys -> Objects]
    /\ watch \in [ResourceKeys -> Seq(Objects)]
    /\ notifications \in [ResourceKeys -> Nat]
    /\ queue \subseteq ResourceKeys /\ backoff \subseteq ResourceKeys
    /\ fetched \in [key : ResourceKeys, slice : Objects] \cup {Idle}
    /\ running \in BOOLEAN
    /\ changes \in 0..MaxChanges /\ crashes \in 0..MaxCrashes /\ relists \in 0..MaxRelists

(* The record of a slice, as the cache should hold it. *)
RecordFor(s) == [name |-> CanonicalName(s.hostname),
                 addresses |-> StoredAddresses(SliceAddresses(s))]
Serves(k, s) == k \in DOMAIN resourceKeyToFQDN /\ recordsMap[k] = RecordFor(s)

(* The cache agrees with object obj of key k; of a slice that Reconcile    *)
(* skips it may hold anything.                                             *)
Agrees(k, obj) ==
    /\ obj = Absent => k \notin DOMAIN resourceKeyToFQDN
    /\ obj # Absent => (Handled(obj) => Serves(k, obj))

(* Nothing about k is on its way through the informer or the queue. *)
Settled(k) ==
    /\ running /\ watch[k] = <<>> /\ notifications[k] = 0
    /\ k \notin queue \cup backoff /\ fetched.key # k

(* No update is lost on its way from the API server to the cache, however  *)
(* changes, deliveries, reconciles, errors, broken watches and restarts    *)
(* interleave: once nothing about a slice is pending, the cache holds what *)
(* the API server says of it now.                                          *)
SettledIsCurrent == \A k \in ResourceKeys : Settled(k) => Agrees(k, slices[k])

(* A slice that is there to stay is served in the end, even though         *)
(* deleting slices can bring the process down on the way.                  *)
EventuallyServed ==
    \A k \in ResourceKeys :
        <>[](slices[k] # Absent => (Handled(slices[k]) => Serves(k, slices[k])))

(* A slice that is gone for good is no longer served in the end. *)
EventuallyWithdrawn ==
    \A k \in ResourceKeys : <>[](slices[k] = Absent => k \notin DOMAIN resourceKeyToFQDN)

(* cache_test.go:270, of deleting by resource key: "does nothing if the    *)
(* entry does not exist".  Reconcile never finds a slice gone without a    *)
(* record whose name it can log.                                           *)
NoNilDereference ==
    fetched # Idle /\ fetched.slice = Absent => LookupByResourceKey(fetched.key) # NoEntry

(* controller_test.go:367: "the EndpointSlice does not have a domain name  *)
(* annotation set", "does not allow lookups on any domain".                *)
UnannotatedNotServed ==
    \A k \in ResourceKeys :
        Settled(k) /\ slices[k] # Absent /\ slices[k].hostname = NoHostname
            => k \notin DOMAIN resourceKeyToFQDN
=============================================================================
