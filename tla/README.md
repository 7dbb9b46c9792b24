# Verification of cross-cluster-connectivity

TLA+ models of the two control loops of the repository, of the DNS plugin they
feed and of the Job that installs it, checked with TLC on small instances. The
safety properties are also proved with TLAPS, for every value of the constants.
Paths below are relative to the repository.

## The system

Workload clusters of one management-cluster namespace resolve each other's
gateways by name.

| component | state | operations | talks to |
|---|---|---|---|
| **xcc-dns-controller**, `pkg/controllers/gatewaydns` (controller, cluster searcher, gateway collector, EndpointSlice reconciler) | none of its own: workqueue, informer caches of the management and of every workload cluster | `Reconcile`, `PollGatewayDNS`, `ClusterToGatewayDNS` | reads GatewayDNSs and Clusters (informers), Services and EndpointSlices (cached clients); writes EndpointSlices on every workload cluster |
| **EndpointSlice controller** of the dns-server, `pkg/controllers/endpointslicedns/controller.go` | workqueue, informer store | `Reconcile` | watches EndpointSlices, writes the records cache |
| **records cache**, `pkg/controllers/endpointslicedns/cache.go` | `entries` (name to list of entries) and `resourceKeyToFQDN` (slice to name), one RW lock | `Upsert`, `Delete`, `DeleteByResourceKey`, `Lookup`, `LookupByResourceKey`, `IsValid` | shared by the controller and the DNS handlers |
| **crosscluster CoreDNS plugin**, `pkg/coredns/plugins/crosscluster` | the cache, zones | `setupController`, `ServeDNS`, `Services` | starts the EndpointSlice controller, answers queries from the cache |
| **dns-config-patcher**, `pkg/dnsconfig`, `cmd/dns-config-patcher` | the cluster's Corefile ConfigMap | `GetDNSServiceClusterIP`, `AppendStubDomainBlock` | one-shot Job |
| API types, generated code, fakes, command mains, manifests | - | - | - |

    GatewayDNS, Cluster --informers--> xcc-dns-controller --Create/Update/Delete-->
      EndpointSlices of each workload cluster --watch--> informer of its dns-server
      --workqueue--> Reconcile --> records cache <-- Lookup -- ServeDNS <-- pods

What is hard about it:

* **Two maps for one table.** The cache keeps the entries by name and an index
  by slice, and three methods update both. A slice may change its hostname, and
  slices may share one.
* **Wildcards.** `Lookup` climbs from the name to `*.` names.
* **Interleaving.** Between `Get` and the write of the cache, and between every
  two calls of `ConvergeToClusters`, the world moves on. Lists come from caches
  that do not show the controller's own last writes.
* **Failure.** Clusters become unreachable, answers get lost, processes crash;
  everything but the API servers' objects is in memory.
* **Reading without the lock.** `Lookup` returns the very slice that the map
  holds; the plugin iterates over it while the controller updates it in place.
* **A shared text file.** The Job rewrites its section of a Corefile that users
  and other Jobs write too, found by a greedy pattern; it races a deadline for
  the IP it has to write.
* **No watch** on services, namespaces or remote slices: only the poll notices.

What makes it correct: the cache's maps agree and act as a table of records; no
change of a slice is lost on its way into the cache; the slices on every
reachable cluster converge to what the GatewayDNSs want; nothing is withdrawn
because of a fault; an answer is what was published, read as of one moment; the
Job adds its section once and leaves the rest of the Corefile to its users.

## Modules

| module | models | state and actions |
|---|---|---|
| `DNSRecords` | what the cache promises | a table `records`, one record per slice; `Publish`, `Withdraw`, `WithdrawName` |
| `DNSCache` | `cache.go` | the two maps; one action per method that takes the write lock, one operator per method that takes the read lock. Names are sequences of labels, so that case folding and the wildcard climb are what the code does. `ImplementsRecords` maps the maps to `DNSRecords` |
| `DNSCacheMemory` | `cache.go` and the loop of `Services` | extends `DNSCache` with the arrays behind the lists (`heap`, `header`) under Go's rules for `append` and re-slicing, and one query: `QueryLookup` under the lock, `QueryRead` per element without it |
| `CrossClusterPlugin` | `crosscluster.go`, `handler.go`, the zones of `setup.go` | operators on the state of `DNSCache`: `Zones`, `Services`, `ServeDNS`; CoreDNS's record builders, of which `ARecords` follows up to eight aliases by asking `Services` again, a recursion on the number of aliases left |
| `EndpointSliceDNS` | `controller.go` of the dns-server, `setup.go` | extends `DNSCache` with the API server, the watch, the informer store, notifications, workqueue and back-off. A Reconcile is `ReconcileGet` or `ReconcileGetError`, followed by one of `ReconcileDelete`, `ReconcilePanic` (line 41 with a nil entry), `ReconcileSkip` and `ReconcileUpsert` |
| `GatewayDNSController` | `pkg/controllers/gatewaydns` | the world (GatewayDNSs, clusters, services, namespaces, slices at the API server and in the controller's cache) and a Reconcile as `ReconcileCollect`, `ListClusters` (or `ReconcileReadFails`), then per cluster `DiffCluster` and one step per client call, except that the Get and the Update of a slice whose name is taken are one (`UpdateExisting`; a change between the two makes a conflict, `CallFails`) |
| `DNSConfigPatcher` | `pkg/dnsconfig`, `cmd/dns-config-patcher` | the ConfigMap with its resource version, the Service's IP and one pod per Job: the polling loop (`GetClusterIP`, `NoClusterIP`, `PollAgain`, `TimedOut`), then `GetConfigMap` and `UpdateConfigMap` with their failures, and the Job's retries |
| `DNSCacheProofs`, `DNSLookupProofs`, `DNSCacheMemoryProofs`, `CrossClusterPluginProofs` | - | theorems about the cache's writes, its reads, its arrays and the answers |
| `EndpointSliceDNSProofs`, `GatewayDNSProofs`, `DNSConfigPatcherProofs` | - | theorems about the two controllers and the Job |
| `SequenceFacts` | - | lemmas that several proofs need: `Min`, `Max`, `RemoveAt`, `InsertAt`, `FlattenSeq` |
| `MC...` | - | instances for TLC |

Definitions named "Mutant" in a comment are plausible bugs; the model uses none
of them. Replacing the definition that follows by one of them makes TLC report
the property `PROJECT.json` names, which shows the property depends on the code.

Abstractions worth knowing:

* Controller-runtime, client-go, the API servers and cluster-api's
  `ClusterCacheTracker` are modelled from how the code uses them: a key is
  queued at most once and handled by one worker; a cached read may be old; an
  Update of an object that is not the latest version fails with a conflict, a
  Create of an existing name with AlreadyExists, a Delete of a missing one with
  NotFound.
* In `GatewayDNSController` a slice is its owner annotation, the domain suffix
  in its hostname, its address type and its address; the slice for gateway cluster *c* is under
  key *c*, as `endpointSliceName` makes it. A request delayed after an error is
  in `queue`, since a queued request may wait as long as it likes. One poll adds
  all GatewayDNSs at once: their order does not matter to a set. The cache of a
  cluster catches up with the API server in one step, `CacheSync`; `stale` says
  which slices it shows in an older version.
* API servers validate EndpointSlices: they refuse the empty address that
  `ToEndpointSlice` takes from an ingress with a host name and no IP
  (`RefusedAddresses`), and a change of a slice's address type, which `merge`
  attempts on a slice that somebody else created as IPv6.
* In `DNSCacheMemory` a query whose element is written between `Lookup` and the
  read of it has a data race (`raced`); what it reads is undefined and it is
  followed no further. An array nothing refers to is reused.
* A Corefile is a sequence of server blocks and marker lines. The pattern is the
  code's: from the first begin marker that has something before it to the last
  end marker. An empty Corefile is one empty line, which `TrimSpace` and the
  format string make of it. Users add and remove blocks of their own anywhere
  around the section, but the files that Jobs find have at most one section,
  complete, with nothing of the users' inside it and not as the first line
  (`WellFormed`). This is an assumption that matters: a section at the very start
  of the file is not preceded by white space, so the pattern misses it and a
  second section is appended; and between two sections the greedy pattern strips
  users' blocks too.
* The management cluster's objects and the services of workload clusters are
  only read; they appear as their informers hold them.

## Runs

| run | result | what it shows |
|---|---|---|
| `cache_operations` | holds | the maps stay consistent and refine `DNSRecords`, operation by operation; an answer of `Lookup` is exactly the records of the closest covering name, `IsValid` decides RFC 1034's rule; `ServeDNS` answers an A question with exactly the addresses that aliases lead to, cycles of aliases included, and never leaves its zones |
| `cache_query_race` | holds | `MemoryAgrees`: the updates in place do what updates of lists would; `AnswerIsSnapshot`: only a write that replaces, moves or deletes by key an entry of the name being read can disturb a query |
| `pipeline` | holds | `SettledIsCurrent`: when nothing about a slice is pending, the cache agrees with the API server; slices that stay are served, slices that are gone are withdrawn, in the end |
| `dns_config_patcher` | holds | never two sections, no block of a user lost or brought back; `SuccessIsOwnSection`: a Job reports success only when the file has its own section with the IP it got; `CompleteIsForwarded`: from then on there is the section of some Job that wrote it, this one or another (a later Job replaces the section of an earlier one); every Job ends |
| `gatewaydns_converges` | holds | `Converges`: after the last change every reachable cluster gets exactly the wanted slices, without those of clusters that were deleted or are no longer selected, unless its API server refuses one of them; an unreachable cluster does not hold up the others. `PublishedStaysPublished`: until somebody changes an object, an outage, a failed read, a lost answer, a stale cache or a restart never withdraws a slice |
| `gatewaydns_handover` | holds | the same with two GatewayDNSs, when a cluster moves from one to the other, and when both select it: then its slice is what one of them wants |
| `cache_wildcard_hidden` | **violated** | an empty list left by `DeleteByResourceKey` hides the wildcard (`cache.go:102`) |
| `pipeline_nil_entry` | **violated** | nil dereference on deletion of a slice without a record (`controller.go:41`) |
| `pipeline_unannotated` | **violated** | a record survives the removal of its annotation (`controller.go:49`) |
| `gatewaydns_orphans` | **violated** | slices of a deleted GatewayDNS stay behind (`endpoint_slice_reconciler.go:132`) |
| `gatewaydns_conflict` | **violated** | a slice of somebody else's that has a wanted name and is not IPv4 is never updated, since API servers refuse the change of type that `merge` makes (`endpoint_slice_reconciler.go:192`) |
| `gatewaydns_refused` | **violated** | one gateway with a host name and no IP keeps the others' changed addresses from every cluster (`cluster_gateway.go:33`) |

A violated property states what a test of the repository says; `PROJECT.json`
quotes it under "findings". Deletion of a GatewayDNS also leaves orphans when
the controller is down or crashes before the cleanup: a new process queues only
the GatewayDNSs that exist. The run without crashes shows that this is not
needed.

Two behaviours of the controller are in the model and no run asserts their
absence: two GatewayDNSs that select one cluster take its slice from each other
at every poll, since the slice is named for the cluster only
(`cluster_gateway.go:59`); and a Reconcile with a stale list may delete a slice
that another GatewayDNS has just taken over, since Delete has no precondition
(`endpoint_slice_reconciler.go:109`). `gatewaydns_handover` shows that the first
neither withdraws the slice nor leaves it with anything but what one of the two
wants, and that a later poll repairs the second.

What `cache_query_race` leaves open is a real race: a slice that is updated,
moved or deleted while a query for its name is between `Lookup` and the end of
the loop. The property says that this is the only way to disturb a query.

Bounds. The cache has as many states as its inputs allow: three keys let a name
be shared while its middle entry moves or goes, and let a list run empty while
a wildcard is published. The names include two nested wildcards, names under
them, and one in two spellings; the address lists are one of IPs, an alias and
the empty list, and shared names mix them.
For the plugin the names hold a cycle of two aliases and an alias out of the
zone, with two nested zones. The arrays of `cache_query_race` hold up to three
entries, so that lists grow out of an array, shrink in it and grow again while
a query reads it; six writes suffice for that, and beyond them only names and
arrays repeat.
The patcher has two Jobs (a changed `DOMAIN_SUFFIX`), a Service that gets an IP
and loses it to another one, one retry (the manifest
allows ten; each retry begins anew), one edit of a user and one fault, on
Corefiles with and without a section, with blocks before and after it, on an
empty one and on a ConfigMap without data.
The pipeline has two slices, three writes, one crash and one broken watch: a
slice is created, changed and deleted while the other shares its name. The
controller has two clusters (each is gateway and target) and one or two
GatewayDNSs; two changes allow a cluster and then its namespace to appear, or a
change to follow another while a Reconcile is under way; a cluster is gateway and
target at once, so one outage is that of either. The services take on two
addresses and, with one GatewayDNS, a host name; foreign slices have both address
types. Several faults at once, with GatewayDNSs that compete, are left to the
proof of `PublishedStays`. Only the bounds `Max...`
limit the models; every action's guard otherwise comes from the code.

Deadlock is checked for the cache and the controller, where a write or a poll is
always possible. The pipeline and the Jobs really stop when there is nothing
left to do, and `cache_query_race` when its writes are used up.

Fairness. Pipeline: the process is restarted (kubelet), watch and notifications
are delivered, back-off timers fire, and a Reconcile under way ends (weak); a
queued key is got in the end even if Get fails now and then (strong: client-go
retries until it succeeds). Controller: restart, poll, cache synchronisation of
a reachable cluster and the steps of a running Reconcile (weak); each queued
GatewayDNS is taken in the end (strong: the queue is first in, first out).
Job: its pod goes on, is restarted, and time passes (weak); `select` picks at
random when both the deadline and the timer are due, so it does not pass over
the deadline for ever (strong). Nothing is assumed of users, crashes, or the end of outages.

## Proofs

Every invariant of a passing run is a theorem of its specification, and so are
the refinement, `OperationsImplementRecords`, `UserBlocksKept`,
`SuccessIsOwnSection` and `PublishedStaysPublished`. What is left to TLC is at the end.

| theorem | states | inductive invariant |
|---|---|---|
| `CacheTypeCorrect`, `CacheIndexConsistent` | `CacheTypeOK`, `IndexConsistent` | `CacheInv` |
| `CacheOperationsCorrect`, `CacheRefinesRecords` | `OperationsImplementRecords`, `ImplementsRecords` | `CacheInv` |
| `LookupCorrect`, `IsValidCorrect` | `LookupAnswersClosest`, `IsValidMeetsRFC1034` | `CacheInv` |
| `AnswersStayInZones`, `AnswersAreWhatAliasesLeadTo` | `AnswersWithinZones`, `AnswersFollowAliases` | `CacheInv` |
| `MemoryCorrect`, `UndisturbedAnswers` | `MemoryAgrees`, `AnswerIsSnapshot` | `MemoryInv` |
| `PipelineTypeCorrect`, `NoLostUpdate` | `PipelineTypeOK`, `SettledIsCurrent` | `PipelineInv` |
| `ControllerTypeCorrect` | `ControllerTypeOK` | `TypeInv` |
| `PublishedStays` | `PublishedStaysPublished` | `TypeInv`, `UndisturbedInv` |
| `PatcherTypeCorrect`, `NeverTwoSections`, `SuccessIsForwarded`, `SuccessMeansOwnSection`, `UserBlocksAreKept` | `PatcherTypeOK`, `OneSection`, `CompleteIsForwarded`, `SuccessIsOwnSection`, `UserBlocksKept` | `PatcherInv` |

**The cache.** `CacheInv == CacheTypeOK /\ IndexConsistent`. The parts of
`IndexConsistent` need each other: that a removed key is really gone from a list
rests on `KeysUnique` (the code removes the first match and stops), and that the
index finds the list rests on `EntriesIndexed`. The lemmas say what `RemoveKey`
and `PutEntry` do to the entries of a list and to its keys. With `CacheInv` each
write is the `Publish`, `Withdraw` or `WithdrawName` it should be. For the reads,
`CoversIsRound` shows that the names that cover a question are exactly those that
the rounds of `Lookup` try, longest first; the first round that finds a list is
then the closest name with records.

**The arrays.** `MemoryAgrees` needs that no two names share an array and that a
slice is never longer than its array (`Represents`). `AnswerIsSnapshot` needs
more: as long as nothing disturbed the query, the part of its array still to be
read is what `Lookup` found, and only the name it asked for can still write to
that array, behind what the query reads (`Spared`). That `append` always finds a
free array is a pigeonhole argument: there are two more than names.

**The answers.** `ARecords` is a function of the number of aliases left; that it
exists (`AnswersExist`) and what it returns are shown by least counterexample.
For `AnswersFollowAliases`, every call that plugin.A makes is one for a name that
aliases lead to, whatever the limit. Conversely, an alias that is skipped because
it is a previous record was followed before, so that the calls reach every name
(`ReachedIsCalled`); previous records are different aliases of the zone, so that
with no more than eight of these the limit is never met (`CallsAreAnswered`).
Beyond eight, addresses may be missing, and the property does not say otherwise.

**The pipeline.** `SettledIsCurrent` is not inductive; `PipelineInv` adds that the
last change on the watch, or else the store, is what the API server has
(`StreamCurrent`), that a key whose store the cache does not agree with is
notified, queued, delayed or being reconciled with the store's value
(`ReconcileDue`), that a process that is down has nothing in memory
(`DownIsEmpty`), and `CacheInv`, which the refinement of the cache's writes needs.

**The controller.** `ControllerTypeOK` says that slices have addresses; `TypeInv` adds why:
what a Reconcile is going to create or update is for gateways that it looked up,
and a Reconcile that runs has a GatewayDNS. `PublishedStaysPublished` needs, while
nothing has changed, that every slice on a cluster or in a cache is wanted by the
GatewayDNS it refers to, that a Reconcile found exactly what its GatewayDNS wants
unless it could not look, and that it has nothing to delete (`UndisturbedInv`).

**The Job.** `OneSection` is not inductive: a Job that holds an old copy could
bring back an old section. `PatcherInv` adds that a copy with the current version
is the current file, so that only an Update of the current file succeeds, and
that the file is `WellFormed`; `PatchedShape` says what the greedy pattern, the
trimming and the appended section make of such a file. `CompleteHasSection` adds
that after a success the section is one whose Job wrote it and has either
reported success with that IP or failed once. `SameUserBlocks` compares
the users' blocks by an order-preserving bijection of their places.

Assumptions. `NamesAssumption`: lower-casing is idempotent and leaves `*` alone,
as in ASCII. `AddressesAssumption`: the same of addresses. `PluginAssumption`:
names are sequences of labels; questions and addresses are finitely many, as
names of at most 255 octets are. `ArraysAssumption`: finitely many names, and two
arrays more than names, one for the query and one to grow into; Go has as many as
memory allows. `SlicesAssumption`: the records that slices give are over the
names and addresses in use. `BoundsAssumption`, `PatcherBounds`: bounds are
natural numbers. `WorldsAssumption`: the objects a deployment starts with have
their types. `StandInsAssumption`, `ItemsAssumption`: the values that stand for
"none", for markers and for empty lines are nobody's name, address or block.
`CorefilesAssumption`: see above. TLC evaluates all of them on the runs' values.

TLAPS has no usable induction theorem for recursive functions. Where one is needed
(`FlattenSeq`, `ARecords`) the proofs take the least number for which a claim
fails (`LeastNatural`), and the models use recursive functions, no recursive
operators.

Only model-checked: liveness (`EventuallyServed`, `EventuallyWithdrawn`,
`Converges` and `JobsEnd`), since TLAPS 1.4.5 has no
proof rules for fairness. The runs that report a violation are about properties
that do not hold.

## Not modelled

* A question for the apex of a zone, which CoreDNS rewrites to other names, and
  zone transfers, reverse lookups and `Records`, which the plugin refuses.
* CoreDNS's other plugins and its reload of a Corefile, which ends one instance
  of the plugin and starts another with an empty cache (`Start`).
* The mains' exits on missing environment variables and malformed flags: they
  end the process before it has any state. The dns-server's main only lists
  plugins.
* What a query with a data race reads.
* API types, generated copies, fakes and manifests have no behaviour of the
  program. `IsPopulated` and `SetPopulated` are never called.
* Leader election: one controller process is modelled, as the manifests deploy.
* A joint state space of the controller and the dns-server. The two meet only in
  the EndpointSlices of a cluster: what `GatewayDNSController` writes to
  `remote` is what `EndpointSliceDNS` receives as `ApiWrite`, of arbitrary
  contents at arbitrary times. `Converges` says that the slices settle and
  `EventuallyServed` that settled slices are served; together they give that a
  gateway's name is served with its address.

## Plan

1. *Done*: `DNSRecords`, `DNSCache`, `EndpointSliceDNS` and their proofs;
   `GatewayDNSController`.
2. *Done*: `CrossClusterPlugin`, `DNSCacheMemory`, `DNSConfigPatcher`; refused
   addresses and address types in `GatewayDNSController`.
3. *Done*: proofs of the other invariants and action properties; the aliases of
   `CrossClusterPlugin` as a recursive function, so that they can be proved about.
4. Next: the safety half of the liveness properties. For the pipeline, that a
   slice which is not served has an enabled step that brings it closer; for the
   controller, that a Reconcile that ends without failure leaves each reachable
   cluster with the slices wanted when it listed them.
