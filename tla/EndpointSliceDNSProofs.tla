----------------------- MODULE EndpointSliceDNSProofs -----------------------
(* Proof that the dns-server loses no update: for any slices, keys and     *)
(* bounds, once nothing about a slice is pending the cache holds what the  *)
(* API server says of it.                                                  *)
EXTENDS EndpointSliceDNS, DNSCacheProofs

(* The store, followed by what the watch still carries, ends at the API    *)
(* server's state.                                                         *)
StreamCurrent ==
    running => \A k \in ResourceKeys :
        /\ watch[k] = <<>> => informer[k] = slices[k]
        /\ watch[k] # <<>> => watch[k][Len(watch[k])] = slices[k]

(* The queue will see k again. *)
Due(k) == notifications[k] > 0 \/ k \in queue \cup backoff

(* Where no reconcile of k is due or running, the cache agrees with the    *)
(* store; a running reconcile that got something older is followed by      *)
(* another.                                                                *)
ReconcileDue ==
    running => \A k \in ResourceKeys :
        /\ ~Due(k) /\ fetched.key # k => Agrees(k, informer[k])
        /\ fetched.key = k /\ fetched.slice # informer[k] => Due(k)

(* A process that is down has nothing in memory. *)
DownIsEmpty ==
    ~running => /\ watch = [k \in ResourceKeys |-> <<>>]
                /\ queue = {} /\ backoff = {} /\ fetched = Idle
                /\ notifications = [k \in ResourceKeys |-> 0]
                /\ resourceKeyToFQDN = [k \in {} |-> <<>>]

PipelineInv == PipelineTypeOK /\ CacheInv /\ StreamCurrent /\ ReconcileDue /\ DownIsEmpty

-----------------------------------------------------------------------------
(* What Reconcile upserts is a legal entry. *)
LEMMA EntryForType ==
    ASSUME NEW k \in ResourceKeys, NEW s \in Slices, Handled(s)
    PROVE  EntryFor(k, s) \in Upserts
  BY SlicesAssumption DEF EntryFor, Upserts

(* Agreement on k depends on nothing but k's record. *)
LEMMA AgreesFrame ==
    ASSUME NEW k, NEW obj,
           k \in DOMAIN resourceKeyToFQDN' <=> k \in DOMAIN resourceKeyToFQDN,
           k \in DOMAIN resourceKeyToFQDN => recordsMap'[k] = recordsMap[k],
           Agrees(k, obj)
    PROVE  Agrees(k, obj)'
  BY DEF Agrees, Serves, RecordFor

(* A step that leaves the cache alone leaves what it agrees with. *)
LEMMA AgreesUnchanged ==
    ASSUME NEW k, NEW obj, UNCHANGED cacheVars, Agrees(k, obj)
    PROVE  Agrees(k, obj)'
  BY AgreesFrame DEF cacheVars, recordsMap, LookupByResourceKey, EntriesOf

(* The abstract table has a record for each indexed key ... *)
LEMMA RecordsDomain == DOMAIN recordsMap = DOMAIN resourceKeyToFQDN
  BY DEF recordsMap

(* ... in the next state too. *)
LEMMA RecordsDomainNext == DOMAIN recordsMap' = DOMAIN resourceKeyToFQDN'
  BY DEF recordsMap

(* Upserting the entry of a slice makes the cache agree with the slice and *)
(* changes no other agreement.                                             *)
LEMMA UpsertAgrees ==
    ASSUME CacheInv, NEW k \in ResourceKeys, NEW s \in Slices, Handled(s),
           Upsert(EntryFor(k, s))
    PROVE  /\ Agrees(k, s)'
           /\ \A j \in ResourceKeys \ {k}, obj \in Objects : Agrees(j, obj) => Agrees(j, obj)'
  <1> DEFINE e == EntryFor(k, s)
  <1>1. e \in Upserts /\ e.ResourceKey = k
    BY EntryForType DEF EntryFor
  <1>2. RecordFor(s) = [name |-> CanonicalName(e.FQDN), addresses |-> StoredAddresses(e.Addresses)]
    BY DEF RecordFor, EntryFor
  <1>3. Abstract!Publish(k, RecordFor(s))
    BY <1>1, <1>2, UpsertPublishes
  <1>4. recordsMap' = [x \in DOMAIN recordsMap \cup {k} |->
                          IF x = k THEN RecordFor(s) ELSE recordsMap[x]]
    BY <1>3 DEF Abstract!Publish
  <1>5. k \in DOMAIN resourceKeyToFQDN' /\ recordsMap'[k] = RecordFor(s)
    BY <1>4, RecordsDomainNext
  <1>6. Agrees(k, s)'
    BY <1>5, SlicesAssumption DEF Agrees, Serves, RecordFor
  <1>7. ASSUME NEW j \in ResourceKeys \ {k}, NEW obj \in Objects, Agrees(j, obj)
        PROVE  Agrees(j, obj)'
    <2>1. /\ j \in DOMAIN resourceKeyToFQDN' <=> j \in DOMAIN resourceKeyToFQDN
          /\ j \in DOMAIN resourceKeyToFQDN => recordsMap'[j] = recordsMap[j]
      BY <1>4, RecordsDomain, RecordsDomainNext
    <2> QED
      BY <1>7, <2>1, AgreesFrame
  <1> QED
    BY <1>6, <1>7

(* Deleting by key makes the cache agree that the slice is gone and        *)
(* changes no other agreement.                                             *)
LEMMA DeleteAgrees ==
    ASSUME CacheInv, NEW k \in ResourceKeys, DeleteByResourceKey(k)
    PROVE  /\ Agrees(k, Absent)'
           /\ \A j \in ResourceKeys \ {k}, obj \in Objects : Agrees(j, obj) => Agrees(j, obj)'
  <1>1. recordsMap' = [x \in DOMAIN recordsMap \ {k} |-> recordsMap[x]]
    BY DeleteByResourceKeyWithdraws DEF Abstract!Withdraw
  <1>2. Agrees(k, Absent)'
    BY <1>1, RecordsDomainNext DEF Agrees
  <1>3. ASSUME NEW j \in ResourceKeys \ {k}, NEW obj \in Objects, Agrees(j, obj)
        PROVE  Agrees(j, obj)'
    <2>1. /\ j \in DOMAIN resourceKeyToFQDN' <=> j \in DOMAIN resourceKeyToFQDN
          /\ j \in DOMAIN resourceKeyToFQDN => recordsMap'[j] = recordsMap[j]
      BY <1>1, RecordsDomain, RecordsDomainNext
    <2> QED
      BY <1>3, <2>1, AgreesFrame
  <1> QED
    BY <1>2, <1>3

-----------------------------------------------------------------------------
(* The inductive invariant holds before the process is started. *)
LEMMA PipelineInit == Init => PipelineInv
  <1> SUFFICES ASSUME Init PROVE PipelineInv
    OBVIOUS
  <1>1. CacheInv
    BY CacheInitInv DEF Init
  <1>2. PipelineTypeOK
    <2>1. /\ <<>> \in Seq(Objects) /\ Absent \in Objects
          /\ 0 \in 0..MaxChanges /\ 0 \in 0..MaxCrashes /\ 0 \in 0..MaxRelists
      BY SlicesAssumption DEF Objects
    <2>2. /\ watch \in [ResourceKeys -> Seq(Objects)]
          /\ notifications \in [ResourceKeys -> Nat]
          /\ informer \in [ResourceKeys -> Objects]
      BY <2>1 DEF Init
    <2> QED
      BY <1>1, <2>1, <2>2 DEF Init, PipelineTypeOK, CacheInv
  <1>3. StreamCurrent /\ ReconcileDue /\ DownIsEmpty
    BY DEF Init, StreamCurrent, ReconcileDue, DownIsEmpty, CacheInit
  <1> QED
    BY <1>1, <1>2, <1>3 DEF PipelineInv

(* The process going down empties its memory. *)
LEMMA ProcessEndsPreserves ==
    ASSUME PipelineInv, ProcessEnds, crashes' \in 0..MaxCrashes
    PROVE  PipelineInv'
  <1>1. CacheInv'
    BY DEF ProcessEnds, CacheInv, CacheTypeOK, IndexConsistent, EntriesIndexed,
           IndexedPresent, KeysUnique
  <1>2. PipelineTypeOK'
    <2>1. <<>> \in Seq(Objects) /\ Absent \in Objects
      BY DEF Objects
    <2>2. /\ watch' \in [ResourceKeys -> Seq(Objects)]
          /\ notifications' \in [ResourceKeys -> Nat]
          /\ informer' \in [ResourceKeys -> Objects]
      BY <2>1 DEF ProcessEnds
    <2> QED
      BY <1>1, <2>2 DEF PipelineInv, PipelineTypeOK, ProcessEnds, CacheInv, apiVars
  <1>3. StreamCurrent' /\ ReconcileDue' /\ DownIsEmpty'
    BY DEF ProcessEnds, StreamCurrent, ReconcileDue, DownIsEmpty
  <1> QED
    BY <1>1, <1>2, <1>3 DEF PipelineInv

(* A write to the API server is on the watch before anybody can ask. *)
LEMMA ApiWritePreserves ==
    ASSUME PipelineInv, NEW k \in ResourceKeys, NEW obj \in Objects, ApiWrite(k, obj)
    PROVE  PipelineInv'
  <1> USE DEF ApiWrite
  <1>1. CacheInv'
    BY CacheStutterPreserves DEF PipelineInv
  <1>2. watch' \in [ResourceKeys -> Seq(Objects)]
    BY DEF PipelineInv, PipelineTypeOK
  <1>3. PipelineTypeOK'
    BY <1>1, <1>2, SlicesAssumption DEF PipelineInv, PipelineTypeOK, CacheInv, queueVars
  <1>4. StreamCurrent'
    <2>1. ASSUME running, NEW j \in ResourceKeys
          PROVE  /\ watch'[j] = <<>> => informer[j] = slices'[j]
                 /\ watch'[j] # <<>> => watch'[j][Len(watch'[j])] = slices'[j]
      <3>1. CASE j = k
        <4>1. watch'[k] = Append(watch[k], obj) /\ slices'[k] = obj /\ watch[k] \in Seq(Objects)
          BY <2>1 DEF PipelineInv, PipelineTypeOK
        <4> QED
          BY <3>1, <4>1
      <3>2. CASE j # k
        BY <3>2, <2>1 DEF PipelineInv, PipelineTypeOK, StreamCurrent
      <3> QED
        BY <3>1, <3>2
    <2> QED
      BY <2>1 DEF StreamCurrent
  <1>5. ReconcileDue'
    BY AgreesUnchanged DEF PipelineInv, PipelineTypeOK, ReconcileDue, Due, queueVars
  <1>6. DownIsEmpty'
    BY DEF PipelineInv, DownIsEmpty, queueVars, cacheVars
  <1> QED
    BY <1>1, <1>3, <1>4, <1>5, <1>6 DEF PipelineInv

(* Taking the head off a sequence leaves its last element last. *)
LEMMA LastOfTail ==
    ASSUME NEW S, NEW s \in Seq(S), s # <<>>
    PROVE  /\ Tail(s) = <<>> => Head(s) = s[Len(s)]
           /\ Tail(s) # <<>> => Tail(s)[Len(Tail(s))] = s[Len(s)]
  <1> DEFINE t == Tail(s)
  <1>1. /\ t \in Seq(S) /\ Len(t) = Len(s) - 1 /\ Len(s) \in Nat
        /\ \A i \in 1..Len(t) : t[i] = s[i + 1]
        /\ Head(s) = s[1]
    BY HeadTailProperties
  <1> HIDE DEF t
  <1>2. CASE t = <<>>
    <2>1. Len(t) = 0
      BY <1>2
    <2> QED
      BY <1>1, <1>2, <2>1 DEF t
  <1>3. CASE t # <<>>
    <2>1. Len(t) \in 1..Len(t)
      BY <1>1, <1>3
    <2> QED
      BY <1>1, <1>3, <2>1 DEF t
  <1> QED
    BY <1>2, <1>3

(* The informer moves the last change from the watch into its store and    *)
(* leaves a notification.                                                  *)
LEMMA InformerDeliverPreserves ==
    ASSUME PipelineInv, NEW k \in ResourceKeys, InformerDeliver(k)
    PROVE  PipelineInv'
  <1> USE DEF InformerDeliver
  <1>0. running
    BY DEF PipelineInv, DownIsEmpty
  <1>1. CacheInv'
    BY CacheStutterPreserves DEF PipelineInv
  <1>2. watch[k] \in Seq(Objects) /\ watch[k] # <<>>
    BY DEF PipelineInv, PipelineTypeOK
  <1>3. Head(watch[k]) \in Objects /\ Tail(watch[k]) \in Seq(Objects)
    BY <1>2
  <1>4. PipelineTypeOK'
    BY <1>1, <1>3 DEF PipelineInv, PipelineTypeOK, CacheInv, queueVars, apiVars
  <1>5. StreamCurrent'
    <2>1. ASSUME NEW j \in ResourceKeys
          PROVE  /\ watch'[j] = <<>> => informer'[j] = slices[j]
                 /\ watch'[j] # <<>> => watch'[j][Len(watch'[j])] = slices[j]
      <3>1. CASE j = k
        <4>1. watch'[k] = Tail(watch[k]) /\ informer'[k] = Head(watch[k])
          BY DEF PipelineInv, PipelineTypeOK
        <4>2. watch[k][Len(watch[k])] = slices[k]
          BY <1>0, <1>2 DEF PipelineInv, StreamCurrent
        <4> QED
          BY <3>1, <4>1, <4>2, <1>2, LastOfTail
      <3>2. CASE j # k
        BY <3>2, <1>0 DEF PipelineInv, PipelineTypeOK, StreamCurrent
      <3> QED
        BY <3>1, <3>2
    <2> QED
      BY <2>1 DEF StreamCurrent, apiVars
  <1>6. ReconcileDue'
    <2>1. Due(k)'
      BY DEF PipelineInv, PipelineTypeOK, Due
    <2>2. ASSUME NEW j \in ResourceKeys, j # k
          PROVE  informer'[j] = informer[j] /\ (Due(j)' <=> Due(j))
      BY <2>2 DEF PipelineInv, PipelineTypeOK, Due, queueVars
    <2> QED
      BY <2>1, <2>2, <1>0, AgreesUnchanged DEF PipelineInv, ReconcileDue, queueVars
  <1>7. DownIsEmpty'
    BY <1>0 DEF DownIsEmpty
  <1> QED
    BY <1>1, <1>4, <1>5, <1>6, <1>7 DEF PipelineInv

(* A relist leaves a notification for every key whose store changes. *)
LEMMA InformerRelistPreserves ==
    ASSUME PipelineInv, InformerRelist
    PROVE  PipelineInv'
  <1> USE DEF InformerRelist
  <1>1. CacheInv'
    BY CacheStutterPreserves DEF PipelineInv
  <1>2. PipelineTypeOK'
    BY <1>1, SlicesAssumption DEF PipelineInv, PipelineTypeOK, CacheInv, queueVars, apiVars
  <1>3. StreamCurrent'
    BY DEF StreamCurrent, apiVars
  <1>4. ReconcileDue'
    <2>1. ASSUME NEW j \in ResourceKeys, informer[j] # slices[j]
          PROVE  Due(j)'
      BY <2>1 DEF PipelineInv, PipelineTypeOK, Due
    <2>2. ASSUME NEW j \in ResourceKeys, informer[j] = slices[j]
          PROVE  informer'[j] = informer[j] /\ (Due(j)' <=> Due(j))
      BY <2>2 DEF PipelineInv, PipelineTypeOK, Due, queueVars
    <2> QED
      BY <2>1, <2>2, AgreesUnchanged DEF PipelineInv, ReconcileDue, queueVars
  <1>5. DownIsEmpty'
    BY DEF DownIsEmpty
  <1> QED
    BY <1>1, <1>2, <1>3, <1>4, <1>5 DEF PipelineInv

(* A notification that is handled leaves its key in the queue. *)
LEMMA NotifyPreserves ==
    ASSUME PipelineInv, NEW k \in ResourceKeys, Notify(k)
    PROVE  PipelineInv'
  <1> USE DEF Notify
  <1>0. running
    BY DEF PipelineInv, DownIsEmpty
  <1>1. CacheInv'
    BY CacheStutterPreserves DEF PipelineInv
  <1>2. PipelineTypeOK'
    BY <1>1 DEF PipelineInv, PipelineTypeOK, CacheInv, apiVars
  <1>3. StreamCurrent' /\ DownIsEmpty'
    BY <1>0 DEF PipelineInv, StreamCurrent, DownIsEmpty, apiVars
  <1>4. ReconcileDue'
    <2>1. ASSUME NEW j \in ResourceKeys PROVE Due(j)' <=> Due(j)
      BY DEF PipelineInv, PipelineTypeOK, Due
    <2> QED
      BY <2>1, <1>0, AgreesUnchanged DEF PipelineInv, ReconcileDue
  <1> QED
    BY <1>1, <1>2, <1>3, <1>4 DEF PipelineInv

(* Get reads the store after its key has left the queue, so a later change *)
(* queues the key again.                                                   *)
LEMMA ReconcileGetPreserves ==
    ASSUME PipelineInv, NEW k \in ResourceKeys, ReconcileGet(k)
    PROVE  PipelineInv'
  <1> USE DEF ReconcileGet
  <1>0. running
    BY DEF PipelineInv, DownIsEmpty
  <1>1. CacheInv'
    BY CacheStutterPreserves DEF PipelineInv
  <1>2. PipelineTypeOK'
    BY <1>1 DEF PipelineInv, PipelineTypeOK, CacheInv, apiVars, informerVars
  <1>3. StreamCurrent' /\ DownIsEmpty'
    BY <1>0 DEF PipelineInv, StreamCurrent, DownIsEmpty, apiVars, informerVars
  <1>4. ReconcileDue'
    <2>1. fetched'.key = k /\ fetched'.slice = informer'[k] /\ fetched.key \notin ResourceKeys
      BY SlicesAssumption DEF Idle, informerVars
    <2>2. ASSUME NEW j \in ResourceKeys, j # k PROVE Due(j)' <=> Due(j)
      BY <2>2 DEF Due, informerVars
    <2> QED
      BY <2>1, <2>2, <1>0, AgreesUnchanged DEF PipelineInv, ReconcileDue, informerVars
  <1> QED
    BY <1>1, <1>2, <1>3, <1>4 DEF PipelineInv

(* A key whose Get fails waits in the back-off. *)
LEMMA ReconcileGetErrorPreserves ==
    ASSUME PipelineInv, NEW k \in ResourceKeys, ReconcileGetError(k) \/ BackoffExpires(k)
    PROVE  PipelineInv'
  <1> USE DEF ReconcileGetError, BackoffExpires
  <1>0. running
    BY DEF PipelineInv, DownIsEmpty
  <1>1. CacheInv'
    BY CacheStutterPreserves DEF PipelineInv
  <1>2. PipelineTypeOK'
    BY <1>1 DEF PipelineInv, PipelineTypeOK, CacheInv, apiVars, informerVars
  <1>3. StreamCurrent' /\ DownIsEmpty'
    BY <1>0 DEF PipelineInv, StreamCurrent, DownIsEmpty, apiVars, informerVars
  <1>4. ReconcileDue'
    <2>1. ASSUME NEW j \in ResourceKeys PROVE Due(j)' <=> Due(j)
      BY DEF Due, informerVars
    <2> QED
      BY <2>1, <1>0, AgreesUnchanged DEF PipelineInv, ReconcileDue, informerVars
  <1> QED
    BY <1>1, <1>2, <1>3, <1>4 DEF PipelineInv

(* The end of a reconcile of k that leaves the cache agreeing with what    *)
(* the reconcile got.                                                      *)
LEMMA ReconcileEnds ==
    ASSUME PipelineInv, CacheInv', NEW k \in ResourceKeys, NEW got \in Objects,
           fetched = [key |-> k, slice |-> got], fetched' = Idle, fetched # Idle,
           UNCHANGED <<apiVars, informerVars, queue, backoff, running, crashes>>,
           Agrees(k, got)',
           \A j \in ResourceKeys \ {k}, obj \in Objects : Agrees(j, obj) => Agrees(j, obj)'
    PROVE  PipelineInv'
  <1>0. running
    BY DEF PipelineInv, DownIsEmpty
  <1>1. PipelineTypeOK'
    BY DEF PipelineInv, PipelineTypeOK, CacheInv, apiVars, informerVars
  <1>2. StreamCurrent' /\ DownIsEmpty'
    BY <1>0 DEF PipelineInv, StreamCurrent, DownIsEmpty, apiVars, informerVars
  <1>3. ReconcileDue'
    <2>1. fetched'.key \notin ResourceKeys /\ UNCHANGED informer
      BY SlicesAssumption DEF Idle, informerVars
    <2>2. ASSUME NEW j \in ResourceKeys PROVE Due(j)' <=> Due(j)
      BY DEF Due, informerVars
    <2>3. ASSUME NEW j \in ResourceKeys, ~Due(j), NEW obj \in Objects, obj = informer[j]
          PROVE  Agrees(j, obj)'
      <3>1. CASE j = k
        BY <2>3, <3>1, <1>0 DEF PipelineInv, ReconcileDue
      <3>2. CASE j # k
        BY <2>3, <3>2, <1>0 DEF PipelineInv, ReconcileDue
      <3> QED
        BY <3>1, <3>2
    <2>4. ASSUME NEW j \in ResourceKeys PROVE informer[j] \in Objects
      BY DEF PipelineInv, PipelineTypeOK
    <2> QED
      BY <2>1, <2>2, <2>3, <2>4 DEF ReconcileDue, Agrees, Serves
  <1> QED
    BY <1>1, <1>2, <1>3 DEF PipelineInv

(* What a running reconcile got. *)
LEMMA FetchedForm ==
    ASSUME PipelineInv, fetched # Idle
    PROVE  /\ fetched.key \in ResourceKeys /\ fetched.slice \in Objects
           /\ fetched = [key |-> fetched.key, slice |-> fetched.slice]
  BY DEF PipelineInv, PipelineTypeOK

(* The record of a slice that is gone is withdrawn, and no other. *)
LEMMA ReconcileDeletePreserves ==
    ASSUME PipelineInv, ReconcileDelete
    PROVE  PipelineInv'
  <1>1. PICK k \in ResourceKeys : fetched = [key |-> k, slice |-> Absent] /\ k = fetched.key
    BY FetchedForm DEF ReconcileDelete
  <1>2. DeleteByResourceKey(k) /\ CacheInv
    BY <1>1 DEF ReconcileDelete, PipelineInv
  <1>3. CacheInv'
    BY <1>2, DeleteByResourceKeyPreserves
  <1>4. /\ Agrees(k, Absent)'
        /\ \A j \in ResourceKeys \ {k}, obj \in Objects : Agrees(j, obj) => Agrees(j, obj)'
    BY <1>2, DeleteAgrees
  <1> QED
    BY <1>1, <1>3, <1>4, ReconcileEnds DEF ReconcileDelete, Objects

(* Of a slice that is skipped the cache may hold anything. *)
LEMMA ReconcileSkipPreserves ==
    ASSUME PipelineInv, ReconcileSkip
    PROVE  PipelineInv'
  <1>1. PICK k \in ResourceKeys, got \in Objects :
            fetched = [key |-> k, slice |-> got] /\ got = fetched.slice
    BY FetchedForm DEF ReconcileSkip
  <1>2. CacheInv'
    BY CacheStutterPreserves DEF ReconcileSkip, PipelineInv
  <1>3. Agrees(k, got)'
    BY <1>1 DEF ReconcileSkip, Agrees
  <1>4. \A j \in ResourceKeys \ {k}, obj \in Objects : Agrees(j, obj) => Agrees(j, obj)'
    BY AgreesUnchanged DEF ReconcileSkip
  <1> QED
    BY <1>1, <1>2, <1>3, <1>4, ReconcileEnds DEF ReconcileSkip

(* The record of a slice is published as it was got, and no other changes. *)
LEMMA ReconcileUpsertPreserves ==
    ASSUME PipelineInv, ReconcileUpsert
    PROVE  PipelineInv'
  <1>1. PICK k \in ResourceKeys, got \in Objects :
            fetched = [key |-> k, slice |-> got] /\ k = fetched.key /\ got = fetched.slice
    BY FetchedForm DEF ReconcileUpsert
  <1>2. got \in Slices /\ Handled(got) /\ Upsert(EntryFor(k, got)) /\ CacheInv
    BY <1>1 DEF ReconcileUpsert, PipelineInv, Objects
  <1>3. CacheInv'
    BY <1>2, EntryForType, UpsertPreserves
  <1>4. /\ Agrees(k, got)'
        /\ \A j \in ResourceKeys \ {k}, obj \in Objects : Agrees(j, obj) => Agrees(j, obj)'
    BY <1>2, UpsertAgrees
  <1> QED
    BY <1>1, <1>3, <1>4, ReconcileEnds DEF ReconcileUpsert

(* The list at the start leaves a notification for every slice there is. *)
LEMMA StartPreserves ==
    ASSUME PipelineInv, Start
    PROVE  PipelineInv'
  <1> USE DEF Start
  <1>1. CacheInv'
    BY CacheStutterPreserves DEF PipelineInv
  <1>2. PipelineTypeOK'
    BY <1>1 DEF PipelineInv, PipelineTypeOK, CacheInv, apiVars, queueVars
  <1>3. StreamCurrent' /\ DownIsEmpty'
    BY DEF PipelineInv, StreamCurrent, DownIsEmpty, apiVars
  <1>4. ReconcileDue'
    <2>1. fetched'.key \notin ResourceKeys
      BY SlicesAssumption DEF Idle, PipelineInv, DownIsEmpty, queueVars
    <2>2. ASSUME NEW j \in ResourceKeys, slices[j] # Absent PROVE Due(j)'
      BY <2>2 DEF Due
    <2>3. ASSUME NEW j \in ResourceKeys, slices[j] = Absent PROVE Agrees(j, informer[j])'
      BY <2>3 DEF Agrees, PipelineInv, DownIsEmpty, cacheVars
    <2> QED
      BY <2>1, <2>2, <2>3 DEF ReconcileDue
  <1> QED
    BY <1>1, <1>2, <1>3, <1>4 DEF PipelineInv

(* Stuttering preserves the inductive invariant. *)
LEMMA PipelineStutter == PipelineInv /\ UNCHANGED vars => PipelineInv'
  <1> SUFFICES ASSUME PipelineInv, UNCHANGED vars PROVE PipelineInv'
    OBVIOUS
  <1>1. CacheInv'
    BY CacheStutterPreserves DEF PipelineInv, vars
  <1>2. PipelineTypeOK'
    BY <1>1 DEF PipelineInv, CacheInv, PipelineTypeOK, vars, apiVars, informerVars, queueVars
  <1>3. StreamCurrent' /\ DownIsEmpty'
    BY DEF PipelineInv, StreamCurrent, DownIsEmpty, vars, cacheVars, apiVars, informerVars, queueVars
  <1>4. ReconcileDue'
    BY AgreesUnchanged DEF PipelineInv, ReconcileDue, Due, vars, informerVars, queueVars
  <1> QED
    BY <1>1, <1>2, <1>3, <1>4 DEF PipelineInv

(* Every step preserves the inductive invariant. *)
LEMMA PipelineNext == PipelineInv /\ [Next]_vars => PipelineInv'
  <1> SUFFICES ASSUME PipelineInv, [Next]_vars PROVE PipelineInv'
    OBVIOUS
  <1>1. ASSUME NEW k \in ResourceKeys, NEW obj \in Objects, ApiWrite(k, obj) PROVE PipelineInv'
    BY <1>1, ApiWritePreserves
  <1>2. ASSUME NEW k \in ResourceKeys, InformerDeliver(k) PROVE PipelineInv'
    BY <1>2, InformerDeliverPreserves
  <1>3. ASSUME NEW k \in ResourceKeys, Notify(k) PROVE PipelineInv'
    BY <1>3, NotifyPreserves
  <1>4. CASE InformerRelist
    BY <1>4, InformerRelistPreserves
  <1>5. ASSUME NEW k \in ResourceKeys, ReconcileGet(k) PROVE PipelineInv'
    BY <1>5, ReconcileGetPreserves
  <1>6. ASSUME NEW k \in ResourceKeys, ReconcileGetError(k) \/ BackoffExpires(k)
        PROVE  PipelineInv'
    BY <1>6, ReconcileGetErrorPreserves
  <1>7. CASE ReconcileDelete
    BY <1>7, ReconcileDeletePreserves
  <1>8. CASE ReconcilePanic
    <2>1. crashes' \in 0..MaxCrashes /\ ProcessEnds
      BY <1>8 DEF ReconcilePanic, PipelineInv, PipelineTypeOK
    <2> QED
      BY <2>1, ProcessEndsPreserves
  <1>9. CASE ReconcileSkip
    BY <1>9, ReconcileSkipPreserves
  <1>10. CASE ReconcileUpsert
    BY <1>10, ReconcileUpsertPreserves
  <1>11. CASE Start
    BY <1>11, StartPreserves
  <1>12. CASE Crash
    <2>1. crashes' \in 0..MaxCrashes /\ ProcessEnds
      BY <1>12, SlicesAssumption DEF Crash, PipelineInv, PipelineTypeOK
    <2> QED
      BY <2>1, ProcessEndsPreserves
  <1>13. CASE UNCHANGED vars
    BY <1>13, PipelineStutter
  <1> QED
    BY <1>1, <1>2, <1>3, <1>4, <1>5, <1>6, <1>7, <1>8, <1>9, <1>10, <1>11, <1>12, <1>13
       DEF Next, Reconcile

(* The dns-server's state is well typed in every execution. *)
THEOREM PipelineTypeCorrect == Spec => []PipelineTypeOK
  <1>1. PipelineInv => PipelineTypeOK
    BY DEF PipelineInv
  <1> QED
    BY <1>1, PipelineInit, PipelineNext, PTL DEF Spec

(* No update of an EndpointSlice is lost between the API server and the    *)
(* records cache: whenever nothing about a slice is pending, the cache     *)
(* holds what the API server says of it.                                   *)
THEOREM NoLostUpdate == Spec => []SettledIsCurrent
  <1>1. PipelineInv => SettledIsCurrent
    BY DEF PipelineInv, SettledIsCurrent, Settled, StreamCurrent, ReconcileDue, Due, PipelineTypeOK
  <1> QED
    BY <1>1, PipelineInit, PipelineNext, PTL DEF Spec
=============================================================================
