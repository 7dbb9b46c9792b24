-------------------------- MODULE GatewayDNSProofs --------------------------
(* Proofs about the xcc-dns-controller, for any GatewayDNSs, clusters,     *)
(* services and bounds: no slice is built from a gateway that could not be *)
(* looked up, and no slice is withdrawn while nobody changes an object.    *)
EXTENDS GatewayDNSController, TLAPS

(* A Reconcile and what it still has to do. *)
Reconciles ==
    [g : GatewayDNSs \cup {None},
     gateways : [Clusters -> Addresses \cup {NotWanted, Unreachable}],
     listed : BOOLEAN, targets : SUBSET Clusters, target : Clusters \cup {None},
     missing : SUBSET Clusters, existing : Clusters \cup {None},
     changed : SUBSET Clusters, undesired : SUBSET Clusters, behind : SUBSET Clusters,
     failed : BOOLEAN]

WorldOK ==
    /\ DOMAIN gatewayDNS = GatewayDNSs
    /\ \A g \in GatewayDNSs : gatewayDNS[g] \in Specs[g] \cup {Absent}
    /\ labels \in [Clusters -> ClusterLabels \cup {Absent}]
    /\ services \in [Clusters -> [ServiceNames -> ServiceStates]]
    /\ reachable \subseteq connected
    /\ connected \subseteq Existing(labels) /\ namespaces \subseteq Existing(labels)

SlicesOK ==
    /\ remote \in [Clusters -> [Clusters -> Slices \cup {Absent}]]
    /\ seen \in [Clusters -> [Clusters -> Slices \cup {Absent}]]
    /\ stale \subseteq Clusters \X Clusters

ProcessOK ==
    /\ suffix \in DomainSuffixes /\ running \in BOOLEAN
    /\ queue \subseteq GatewayDNSs

BudgetOK ==
    changes \in 0..MaxChanges /\ faults \in 0..MaxFaults /\ crashes \in 0..MaxCrashes

(* A Reconcile r that runs is one of a GatewayDNS, the gateway of each     *)
(* slice it is going to write was looked up, and between two clusters it   *)
(* has nothing left to create.                                             *)
ReconcileOK(r) ==
    /\ r \in Reconciles
    /\ r = Idle \/ r.g \in GatewayDNSs
    /\ r.existing \in r.missing \cup {None}
    /\ r.target = None => r.missing = {}
    /\ \A c \in r.missing \cup r.changed : r.gateways[c] \in Addresses

TypeInv == WorldOK /\ SlicesOK /\ ProcessOK /\ BudgetOK /\ ReconcileOK(rec)

(* g selects c and c's gateway has an address. *)
Wanted(g, c) ==
    /\ gatewayDNS[g] # Absent /\ Matches(gatewayDNS[g], labels[c])
    /\ ServiceGateway(c, gatewayDNS[g].service) \in Addresses

(* Every slice, on a cluster or in the cache, is one that the GatewayDNS   *)
(* it refers to wants.                                                     *)
SlicesWanted(slices) ==
    \A t, c \in Clusters :
        slices[t][c] # Absent => /\ slices[t][c].ref \in GatewayDNSs
                                 /\ Wanted(slices[t][c].ref, c)

(* A Reconcile found what its GatewayDNS wants, unless it could not look,  *)
(* and is not going to delete anything.                                    *)
CollectedWanted(r) ==
    /\ \A c \in Clusters :
          r # Idle => /\ r.gateways[c] = NotWanted => ~Wanted(r.g, c)
                      /\ r.gateways[c] \in Addresses => Wanted(r.g, c)
    /\ r.undesired = {}

(* What holds until somebody changes an object. *)
UndisturbedInv ==
    changes = 0 => SlicesWanted(remote) /\ SlicesWanted(seen) /\ CollectedWanted(rec)

-----------------------------------------------------------------------------
(* Type correctness. *)

(* No Reconcile is one that is well formed. *)
LEMMA IdleOK == ReconcileOK(Idle)
  BY DEF ReconcileOK, Reconciles, Idle

(* The controller starts in a state that has its types. *)
LEMMA InitTypeInv == Init => TypeInv
  <1> SUFFICES ASSUME Init PROVE TypeInv
    OBVIOUS
  <1>1. WorldOK
    BY WorldsAssumption DEF Init, WorldOK, Existing
  <1>2. SlicesOK
    BY DEF Init, SlicesOK, NoSlices
  <1>3. ProcessOK
    BY <1>1 DEF Init, ProcessOK, WorldOK, Existing
  <1>4. BudgetOK
    BY BoundsAssumption DEF Init, BudgetOK
  <1>5. ReconcileOK(rec)
    BY IdleOK DEF Init
  <1> QED
    BY <1>1, <1>2, <1>3, <1>4, <1>5 DEF TypeInv

(* A user's change, an outage or a lost answer spends its budget. *)
LEMMA BudgetPreserved ==
    ASSUME BudgetOK, Change \/ Fault \/ UNCHANGED budget
    PROVE  BudgetOK'
  BY BoundsAssumption DEF BudgetOK, Change, Fault, budget

(* What informers queue is the name of a GatewayDNS. *)
LEMMA EnqueuePreserves ==
    ASSUME ProcessOK, NEW gs \in SUBSET GatewayDNSs, Enqueue(gs), UNCHANGED <<suffix, running>>
    PROVE  ProcessOK'
  BY DEF ProcessOK, Enqueue

(* ClusterToGatewayDNS returns GatewayDNSs. *)
LEMMA ClusterToGatewayDNSType ==
    ASSUME WorldOK, NEW l
    PROVE  ClusterToGatewayDNS(l) \in SUBSET GatewayDNSs
  BY DEF WorldOK, ClusterToGatewayDNS, Existing

(* The objects of the world and the links to the clusters. *)
worldAndLinks == <<worldVars, linkVars>>
process == <<suffix, running, queue>>

(* A step that leaves the world's objects alone keeps their types ... *)
LEMMA WorldUnchanged == WorldOK /\ UNCHANGED worldAndLinks => WorldOK'
  BY DEF WorldOK, worldAndLinks, worldVars, linkVars, Existing

(* ... the same for the slices at the API servers and in the caches, *)
LEMMA SlicesUnchanged == SlicesOK /\ UNCHANGED sliceVars => SlicesOK'
  BY DEF SlicesOK, sliceVars

(* ... for the flag, the process and its queue, *)
LEMMA ProcessUnchanged == ProcessOK /\ UNCHANGED process => ProcessOK'
  BY DEF ProcessOK, process

(* ... and for the Reconcile under way. *)
LEMMA ReconcileUnchanged == ReconcileOK(rec) /\ UNCHANGED rec => ReconcileOK(rec')
  OBVIOUS

(* What users, clusters and the network do keeps every type: an event that *)
(* is queued names a GatewayDNS, and a cache shows slices.                 *)
LEMMA WorldTypes ==
    ASSUME TypeInv, World
    PROVE  TypeInv'
  <1> USE DEF TypeInv
  <1>1. ASSUME NEW g \in GatewayDNSs, NEW obj \in Specs[g] \cup {Absent}, SetGatewayDNS(g, obj)
        PROVE  TypeInv'
    <2>1. WorldOK'
      BY <1>1 DEF SetGatewayDNS, WorldOK, linkVars, Existing
    <2>2. ProcessOK'
      BY <1>1, EnqueuePreserves DEF SetGatewayDNS
    <2> QED
      BY <1>1, <2>1, <2>2, SlicesUnchanged, BudgetPreserved DEF SetGatewayDNS
  <1>2. ASSUME NEW c \in Clusters, NEW l \in ClusterLabels, SetCluster(c, l)
        PROVE  TypeInv'
    <2>1. WorldOK'
      BY <1>2, StandInsAssumption DEF SetCluster, WorldOK, Existing
    <2>2. ProcessOK'
      BY <1>2, EnqueuePreserves, ClusterToGatewayDNSType DEF SetCluster
    <2> QED
      BY <1>2, <2>1, <2>2, SlicesUnchanged, BudgetPreserved DEF SetCluster
  <1>3. ASSUME NEW c \in Clusters, DeleteCluster(c)
        PROVE  TypeInv'
    <2>1. WorldOK'
      BY <1>3 DEF DeleteCluster, WorldOK, Existing, ServiceStates
    <2>2. ProcessOK'
      BY <1>3, EnqueuePreserves, ClusterToGatewayDNSType DEF DeleteCluster
    <2>3. SlicesOK'
      BY <1>3 DEF DeleteCluster, SlicesOK, NoSlices
    <2> QED
      BY <1>3, <2>1, <2>2, <2>3, BudgetPreserved DEF DeleteCluster
  <1>4. ASSUME NEW c \in Clusters, NEW s \in ServiceNames, NEW state \in ServiceStates,
               SetService(c, s, state)
        PROVE  TypeInv'
    <2>1. WorldOK'
      BY <1>4 DEF SetService, WorldOK, linkVars, Existing
    <2> QED
      BY <1>4, <2>1, SlicesUnchanged, ProcessUnchanged, BudgetPreserved DEF SetService, process
  <1>5. ASSUME NEW c \in Clusters, CreateNamespace(c)
        PROVE  TypeInv'
    <2>1. WorldOK'
      BY <1>5 DEF CreateNamespace, WorldOK, linkVars, Existing
    <2> QED
      BY <1>5, <2>1, SlicesUnchanged, ProcessUnchanged, BudgetPreserved
      DEF CreateNamespace, process
  <1>6. ASSUME NEW t \in Clusters, NEW c \in Clusters, NEW obj \in {Absent} \cup ForeignSlices,
               EditSlice(t, c, obj)
        PROVE  TypeInv'
    <2>1. obj \in Slices \cup {Absent}
      BY DEF ForeignSlices, Slices
    <2>2. SlicesOK'
      BY <1>6, <2>1 DEF EditSlice, SlicesOK
    <2>3. ReconcileOK(rec')
      <3>1. CASE rec.target # t
        BY <1>6, <3>1 DEF EditSlice
      <3>2. CASE rec.target = t
        <4>1. rec.g \in GatewayDNSs
          BY <3>2, StandInsAssumption DEF ReconcileOK, Idle
        <4> QED
          BY <1>6, <3>2, <4>1 DEF EditSlice, ReconcileOK, Reconciles
      <3> QED
        BY <3>1, <3>2
    <2> QED
      BY <1>6, <2>2, <2>3, WorldUnchanged, ProcessUnchanged, BudgetPreserved
      DEF EditSlice, process, worldAndLinks
  <1>7. ASSUME NEW c \in Clusters, Outage(c)
        PROVE  TypeInv'
    <2>1. WorldOK'
      BY <1>7 DEF Outage, WorldOK, worldVars, Existing
    <2> QED
      BY <1>7, <2>1, SlicesUnchanged, ProcessUnchanged, BudgetPreserved DEF Outage, process
  <1>8. ASSUME NEW c \in Clusters, Recover(c)
        PROVE  TypeInv'
    <2>1. WorldOK'
      BY <1>8 DEF Recover, WorldOK, worldVars, Existing
    <2>2. SlicesOK'
      BY <1>8 DEF Recover, SlicesOK
    <2> QED
      BY <1>8, <2>1, <2>2, ProcessUnchanged, BudgetPreserved DEF Recover, process
  <1>9. ASSUME NEW t \in Clusters, CacheSync(t)
        PROVE  TypeInv'
    <2>1. SlicesOK'
      BY <1>9 DEF CacheSync, SlicesOK
    <2> QED
      BY <1>9, <2>1, WorldUnchanged, ProcessUnchanged, BudgetPreserved
      DEF CacheSync, process, worldAndLinks
  <1>10. ASSUME NEW d \in DomainSuffixes, Restart(d)
         PROVE  TypeInv'
    <2>1. WorldOK'
      BY <1>10 DEF Restart, Start, WorldOK, worldVars, Existing
    <2>2. SlicesOK'
      BY <1>10 DEF Restart, Start, SlicesOK
    <2>3. ProcessOK'
      BY <1>10 DEF Restart, Start, ProcessOK, WorldOK, Existing
    <2> QED
      BY <1>10, <2>1, <2>2, <2>3, BudgetPreserved DEF Restart
  <1> QED
    BY <1>1, <1>2, <1>3, <1>4, <1>5, <1>6, <1>7, <1>8, <1>9, <1>10 DEF World

(* A Reconcile with clusters to go is one of a GatewayDNS. *)
LEMMA RunningHasGatewayDNS ==
    ASSUME ReconcileOK(rec), rec.target # None \/ rec.targets # {}
    PROVE  rec.g \in GatewayDNSs
  BY DEF ReconcileOK, Idle

(* After an error nothing is left to do on the cluster. *)
LEMMA AbortOK ==
    ASSUME ReconcileOK(rec), rec.g \in GatewayDNSs, Abort
    PROVE  ReconcileOK(rec')
  BY DEF ReconcileOK, Reconciles, Abort

(* A step of Reconcile that writes no slice. *)
LEMMA ReconcileStepTypes ==
    ASSUME TypeInv, ReconcileOK(rec'),
           UNCHANGED <<worldVars, linkVars, sliceVars, suffix, running, queue, budget>>
    PROVE  TypeInv'
  BY WorldUnchanged, SlicesUnchanged, ProcessUnchanged, BudgetPreserved
  DEF TypeInv, worldAndLinks, process

(* A write of a slice, with its answer or without. *)
LEMMA WriteSliceTypes ==
    ASSUME TypeInv, NEW c \in Clusters, NEW obj \in Slices \cup {Absent}, NEW next,
           rec.target # None, ReconcileOK(next), WriteSlice(c, obj, next)
    PROVE  TypeInv'
  <1>1. rec.target \in Clusters /\ rec.g \in GatewayDNSs
    BY RunningHasGatewayDNS DEF TypeInv, ReconcileOK, Reconciles
  <1>2. SlicesOK'
    BY <1>1 DEF TypeInv, WriteSlice, SlicesOK
  <1>3. ReconcileOK(rec')
    BY <1>1, AbortOK DEF TypeInv, WriteSlice
  <1> QED
    BY <1>2, <1>3, WorldUnchanged, ProcessUnchanged, BudgetPreserved
    DEF TypeInv, WriteSlice, worldAndLinks, process

(* A slice made of an address is one, ... *)
LEMMA ToEndpointSliceType ==
    ASSUME ProcessOK, NEW g \in GatewayDNSs, NEW address \in Addresses
    PROVE  ToEndpointSlice(g, address) \in Slices
  BY DEF ProcessOK, ToEndpointSlice, Slices

(* ... and merging it into another one replaces all that is modelled. *)
LEMMA MergeReplaces ==
    ASSUME NEW source \in Slices, NEW dest \in Slices
    PROVE  Merge(source, dest) = source
  BY DEF Merge, Slices

(* Every step of ConvergeToClusters keeps every type: what it creates and  *)
(* updates is a slice that ToEndpointSlice builds from a gateway's address. *)
LEMMA ReconcileTypes ==
    ASSUME TypeInv, ReconcileStep
    PROVE  TypeInv'
  <1> USE DEF TypeInv
  <1>1. ASSUME ListClusters PROVE TypeInv'
    <2>1. ReconcileOK(rec')
      BY <1>1 DEF ListClusters, WorldOK, Existing, ReconcileOK, Reconciles
    <2> QED
      BY <1>1, <2>1, ReconcileStepTypes DEF ListClusters
  <1>2. ASSUME ClusterConverged PROVE TypeInv'
    <2>1. ReconcileOK(rec')
      BY <1>2, RunningHasGatewayDNS DEF ClusterConverged, Converging, ReconcileOK, Reconciles
    <2> QED
      BY <1>2, <2>1, ReconcileStepTypes DEF ClusterConverged
  <1>3. ASSUME ReconcileEnd PROVE TypeInv'
    <2>1. rec.g \in GatewayDNSs
      BY <1>3 DEF ReconcileEnd, ReconcileOK, Idle
    <2>2. ProcessOK'
      BY <1>3, <2>1 DEF ReconcileEnd, ProcessOK
    <2> QED
      BY <1>3, <2>2, IdleOK, WorldUnchanged, SlicesUnchanged, BudgetPreserved
      DEF ReconcileEnd, worldAndLinks
  <1>4. ASSUME NEW t \in Clusters, ClusterUnreachable(t) PROVE TypeInv'
    <2>1. ReconcileOK(rec')
      BY <1>4, RunningHasGatewayDNS DEF ClusterUnreachable, ReconcileOK, Reconciles
    <2> QED
      BY <1>4, <2>1, ReconcileStepTypes DEF ClusterUnreachable
  <1>5. ASSUME NEW t \in Clusters, ClusterWithoutNamespace(t) PROVE TypeInv'
    <2>1. ReconcileOK(rec')
      BY <1>5, RunningHasGatewayDNS DEF ClusterWithoutNamespace, ReconcileOK, Reconciles
    <2> QED
      BY <1>5, <2>1, ReconcileStepTypes DEF ClusterWithoutNamespace
  <1>6. ASSUME NEW t \in Clusters, DiffCluster(t) PROVE TypeInv'
    <2>1. /\ OwnSlices(rec.g, t) \subseteq Clusters
          /\ Missing(rec.g, t, rec.gateways) \subseteq Clusters
          /\ \A c \in Missing(rec.g, t, rec.gateways) : rec.gateways[c] \in Addresses
      BY DEF SlicesOK, Existing, OwnSlices, Missing
    <2>2. /\ Changed(rec.g, t, rec.gateways) \subseteq Clusters
          /\ \A c \in Changed(rec.g, t, rec.gateways) : rec.gateways[c] \in Addresses
          /\ Undesired(rec.g, t, rec.gateways) \subseteq Clusters
      BY <2>1 DEF Changed, Undesired
    <2>3. rec.existing = None
      BY <1>6 DEF DiffCluster, ReconcileOK
    <2>4. rec.g \in GatewayDNSs /\ rec \in Reconciles
      BY <1>6, RunningHasGatewayDNS DEF DiffCluster, ReconcileOK
    <2>5. rec' \in Reconciles
      BY <1>6, <2>1, <2>2, <2>4 DEF DiffCluster, Reconciles
    <2>6. /\ rec'.g = rec.g /\ rec'.target = t /\ rec'.gateways = rec.gateways
          /\ rec'.existing = None
          /\ rec'.missing = Missing(rec.g, t, rec.gateways)
          /\ rec'.changed = Changed(rec.g, t, rec.gateways)
      BY <1>6, <2>3, <2>4 DEF DiffCluster, Reconciles
    <2>7. ReconcileOK(rec')
      BY <2>1, <2>2, <2>4, <2>5, <2>6, StandInsAssumption DEF ReconcileOK
    <2> QED
      BY <1>6, <2>7, ReconcileStepTypes DEF DiffCluster
  <1>7. ASSUME NEW c \in Clusters, CreateMissing(c) PROVE TypeInv'
    <2>1. rec.g \in GatewayDNSs /\ rec.gateways[c] \in Addresses
      BY <1>7, RunningHasGatewayDNS DEF CreateMissing, Converging, ReconcileOK
    <2>2. ReconcileOK([rec EXCEPT !.missing = @ \ {c}])
      BY <1>7, <2>1 DEF CreateMissing, ReconcileOK, Reconciles
    <2> QED
      BY <1>7, <2>1, <2>2, ToEndpointSliceType, WriteSliceTypes DEF CreateMissing, Converging
  <1>8. ASSUME NEW c \in Clusters, CreateAlreadyExists(c) PROVE TypeInv'
    <2>1. ReconcileOK(rec')
      BY <1>8, RunningHasGatewayDNS DEF CreateAlreadyExists, Converging, ReconcileOK, Reconciles
    <2> QED
      BY <1>8, <2>1, ReconcileStepTypes DEF CreateAlreadyExists
  <1>9. ASSUME NEW c \in Clusters, UpdateExisting(c) PROVE TypeInv'
    <2>1. c \in rec.missing
      BY <1>9, StandInsAssumption DEF UpdateExisting, ReconcileOK
    <2>2. /\ rec.g \in GatewayDNSs /\ rec.gateways[c] \in Addresses
          /\ rec.target \in Clusters
      BY <1>9, <2>1, RunningHasGatewayDNS DEF UpdateExisting, Converging, ReconcileOK, Reconciles
    <2>3. seen[rec.target][c] \in Slices
      BY <1>9, <2>2 DEF UpdateExisting, SlicesOK
    <2>4. ReconcileOK([rec EXCEPT !.missing = @ \ {c}, !.existing = None])
      BY <2>2 DEF ReconcileOK, Reconciles
    <2>5. Merge(ToEndpointSlice(rec.g, rec.gateways[c]), seen[rec.target][c]) \in Slices
      BY <2>2, <2>3, ToEndpointSliceType, MergeReplaces
    <2> QED
      BY <1>9, <2>4, <2>5, WriteSliceTypes DEF UpdateExisting, Converging
  <1>10. ASSUME NEW c \in Clusters, UpdateChanged(c) PROVE TypeInv'
    <2>1. /\ rec.g \in GatewayDNSs /\ rec.gateways[c] \in Addresses
          /\ rec.target \in Clusters
      BY <1>10, RunningHasGatewayDNS DEF UpdateChanged, Converging, ReconcileOK, Reconciles
    <2>2. remote[rec.target][c] \in Slices
      BY <1>10, <2>1 DEF UpdateChanged, SlicesOK
    <2>3. ReconcileOK([rec EXCEPT !.changed = @ \ {c}])
      BY <2>1 DEF ReconcileOK, Reconciles
    <2>4. Merge(ToEndpointSlice(rec.g, rec.gateways[c]), remote[rec.target][c]) \in Slices
      BY <2>1, <2>2, ToEndpointSliceType, MergeReplaces
    <2> QED
      BY <1>10, <2>3, <2>4, WriteSliceTypes DEF UpdateChanged, Converging
  <1>11. ASSUME NEW c \in Clusters, DeleteUndesired(c) PROVE TypeInv'
    <2>1. ReconcileOK([rec EXCEPT !.undesired = @ \ {c}])
      BY <1>11, RunningHasGatewayDNS DEF DeleteUndesired, Converging, ReconcileOK, Reconciles
    <2> QED
      BY <1>11, <2>1, WriteSliceTypes DEF DeleteUndesired, Converging
  <1>12. ASSUME NEW c \in Clusters, CallFails(c) PROVE TypeInv'
    BY <1>12, RunningHasGatewayDNS, AbortOK, ReconcileStepTypes
    DEF CallFails, Converging, WriteFails
  <1> QED
    BY <1>1, <1>2, <1>3, <1>4, <1>5, <1>6, <1>7, <1>8, <1>9, <1>10, <1>11, <1>12
    DEF ReconcileStep

(* The type invariant is inductive. *)
LEMMA NextTypes == TypeInv /\ [Next]_vars => TypeInv'
  <1> SUFFICES ASSUME TypeInv, [Next]_vars PROVE TypeInv'
    OBVIOUS
  <1> USE DEF TypeInv
  <1>1. CASE World
    BY <1>1, WorldTypes
  <1>2. CASE PollGatewayDNS
    <2>1. ProcessOK'
      BY <1>2 DEF PollGatewayDNS, ProcessOK, WorldOK, Existing
    <2> QED
      BY <1>2, <2>1, WorldUnchanged, SlicesUnchanged, BudgetPreserved
      DEF PollGatewayDNS, worldAndLinks
  <1>3. ASSUME NEW g \in GatewayDNSs, ReconcileCollect(g) PROVE TypeInv'
    <2>1. ReconcileOK(rec')
      BY <1>3 DEF ReconcileCollect, ReconcileOK, Reconciles, Idle
    <2>2. ProcessOK'
      BY <1>3 DEF ReconcileCollect, ProcessOK
    <2> QED
      BY <1>3, <2>1, <2>2, WorldUnchanged, SlicesUnchanged, BudgetPreserved
      DEF ReconcileCollect, worldAndLinks
  <1>4. CASE UNCHANGED vars
    BY <1>4, WorldUnchanged, SlicesUnchanged, ProcessUnchanged, BudgetPreserved
    DEF vars, worldAndLinks, process
  <1>5. CASE ReconcileStep
    BY <1>5, ReconcileTypes
  <1>6. CASE Crash
    <2>1. ProcessOK'
      BY <1>6 DEF Crash, ProcessOK
    <2>2. BudgetOK'
      BY <1>6, BoundsAssumption DEF Crash, BudgetOK
    <2> QED
      BY <1>6, <2>1, <2>2, IdleOK, WorldUnchanged, SlicesUnchanged DEF Crash, worldAndLinks
  <1>7. CASE ReconcileReadFails
    <2>1. rec.g \in GatewayDNSs
      BY <1>7 DEF ReconcileReadFails, ReconcileOK
    <2>2. ProcessOK'
      BY <1>7, <2>1 DEF ReconcileReadFails, ProcessOK
    <2>3. BudgetOK'
      BY <1>7, BudgetPreserved DEF ReconcileReadFails
    <2> QED
      BY <1>7, <2>2, <2>3, IdleOK, WorldUnchanged, SlicesUnchanged
      DEF ReconcileReadFails, worldAndLinks
  <1> QED
    BY <1>1, <1>2, <1>3, <1>4, <1>5, <1>6, <1>7
    DEF Next, Controller, ReconcileInvalidSelector

(* The parts of the invariant make up the type invariant. *)
LEMMA TypeInvImplies == TypeInv => ControllerTypeOK
  BY DEF TypeInv, ControllerTypeOK, WorldOK, SlicesOK, ProcessOK, BudgetOK, ReconcileOK, Reconciles

(* The controller and the clusters keep their types; Reconcile never       *)
(* builds a slice from a gateway whose cluster could not be reached, so    *)
(* ToEndpointSlice never dereferences the Service such a gateway lacks.    *)
THEOREM ControllerTypeCorrect == Spec => []ControllerTypeOK
  <1>1. Spec => []TypeInv
    BY InitTypeInv, NextTypes, PTL DEF Spec
  <1> QED
    BY <1>1, TypeInvImplies, PTL

-----------------------------------------------------------------------------
(* Nothing is withdrawn while nobody changes an object. *)

(* A step that changes no object changes nothing that is wanted. *)
LEMMA WantedUnchanged ==
    ASSUME NEW g, NEW c, UNCHANGED worldVars
    PROVE  Wanted(g, c)' <=> Wanted(g, c)
  BY DEF Wanted, Matches, ServiceGateway, worldVars

(* ReconcileCollect finds a gateway NotWanted only if it is, and an        *)
(* address only if the gateway is wanted.                                  *)
LEMMA CollectFindsWanted ==
    ASSUME NEW g \in GatewayDNSs, NEW c \in Clusters, NEW x \in GatewayOutcomes(g, c)
    PROVE  /\ x = NotWanted => ~Wanted(g, c)
           /\ x \in Addresses => Wanted(g, c)
  BY StandInsAssumption DEF GatewayOutcomes, Wanted, ServiceGateway, NotWanted, Unreachable

(* No slice of a GatewayDNS that wants it is undesired. *)
LEMMA NothingUndesired ==
    ASSUME NEW t \in Clusters, SlicesOK, SlicesWanted(seen), CollectedWanted(rec), rec # Idle
    PROVE  Undesired(rec.g, t, rec.gateways) = {}
  BY DEF Undesired, OwnSlices, Existing, SlicesOK, SlicesWanted, CollectedWanted

(* Writing a wanted slice on the current cluster. *)
LEMMA WriteWanted ==
    ASSUME TypeInv, SlicesWanted(remote), NEW c \in Clusters, NEW obj \in Slices, NEW next,
           rec.target # None, obj.ref \in GatewayDNSs, Wanted(obj.ref, c),
           WriteSlice(c, obj, next)
    PROVE  /\ SlicesWanted(remote)'
           /\ \A t, d \in Clusters : remote[t][d] # Absent => remote'[t][d] # Absent
  <1>1. rec.target \in Clusters
    BY DEF TypeInv, ReconcileOK, Reconciles
  <1>2. \A t, d \in Clusters :
           remote'[t][d] = IF t = rec.target /\ d = c THEN obj ELSE remote[t][d]
    BY <1>1 DEF WriteSlice, TypeInv, SlicesOK
  <1>3. \A g, d : Wanted(g, d)' <=> Wanted(g, d)
    BY WantedUnchanged DEF WriteSlice
  <1> QED
    BY <1>2, <1>3, StandInsAssumption DEF SlicesWanted

(* A Reconcile that goes on, with nothing to delete. *)
LEMMA ReconcileGoesOn ==
    ASSUME UNCHANGED worldVars, CollectedWanted(rec), rec # Idle,
           rec'.g = rec.g, rec'.gateways = rec.gateways, rec'.undesired = {}
    PROVE  CollectedWanted(rec)'
  <1>1. \A c : Wanted(rec.g, c)' <=> Wanted(rec.g, c)
    BY WantedUnchanged
  <1> QED
    BY <1>1 DEF CollectedWanted

(* Nothing is to be done by a Reconcile that does not run. *)
LEMMA IdleWanted ==
    ASSUME rec' = Idle
    PROVE  CollectedWanted(rec)'
  BY DEF CollectedWanted, Idle

(* Slices that did not change are still wanted. *)
LEMMA SlicesStillWanted ==
    ASSUME UNCHANGED worldVars
    PROVE  /\ SlicesWanted(remote) /\ remote' = remote => SlicesWanted(remote)'
           /\ SlicesWanted(seen) /\ seen' = seen => SlicesWanted(seen)'
           /\ SlicesWanted(remote) /\ seen' = remote => SlicesWanted(seen)'
  BY WantedUnchanged DEF SlicesWanted

(* Every change of an object by its users is counted. *)
LEMMA ChangesCounted ==
    ASSUME TypeInv, World, changes' = 0
    PROVE  /\ changes = 0 /\ UNCHANGED <<worldVars, remote>>
           /\ \/ \E c \in Clusters : Outage(c) \/ Recover(c) \/ CacheSync(c)
              \/ \E d \in DomainSuffixes : Restart(d)
  <1>1. ~Change
    BY DEF Change, TypeInv, BudgetOK
  <1>2. \/ \E c \in Clusters : Outage(c) \/ Recover(c) \/ CacheSync(c)
        \/ \E d \in DomainSuffixes : Restart(d)
    BY <1>1 DEF World, SetGatewayDNS, SetCluster, DeleteCluster, SetService, CreateNamespace,
                EditSlice
  <1> QED
    BY <1>2 DEF Outage, Recover, CacheSync, Restart, Fault, budget, sliceVars

(* What a step that nobody's change precedes keeps: slices and gateways    *)
(* are wanted and published slices stay.                                   *)
Kept ==
    /\ SlicesWanted(remote)' /\ SlicesWanted(seen)' /\ CollectedWanted(rec)'
    /\ \A t, c \in Clusters : remote[t][c] # Absent => remote'[t][c] # Absent

(* Outages, restarts and cache synchronisation bring no slice that is not  *)
(* wanted and withdraw none.                                               *)
LEMMA WorldKeeps ==
    ASSUME TypeInv, UndisturbedInv, World, changes' = 0
    PROVE  Kept
  <1>1. /\ changes = 0 /\ UNCHANGED <<worldVars, remote>>
        /\ SlicesWanted(remote) /\ SlicesWanted(seen) /\ CollectedWanted(rec)
    BY ChangesCounted DEF UndisturbedInv
  <1>2. CollectedWanted(rec)'
    <2>1. rec' = rec
      BY ChangesCounted DEF Outage, Recover, CacheSync, Restart
    <2> QED
      BY <1>1, <2>1, WantedUnchanged DEF CollectedWanted
  <1>3. SlicesWanted(seen)'
    <2>1. ASSUME NEW c \in Clusters, Outage(c) PROVE SlicesWanted(seen)'
      BY <1>1, <2>1, SlicesStillWanted DEF Outage, sliceVars
    <2>2. ASSUME NEW c \in Clusters, Recover(c) \/ CacheSync(c) PROVE SlicesWanted(seen)'
      <3>1. seen' = seen \/ seen' = [seen EXCEPT ![c] = remote[c]]
        BY <2>2 DEF Recover, CacheSync
      <3>2. \A t, d \in Clusters : seen'[t][d] \in {seen[t][d], remote[t][d]}
        BY <3>1 DEF TypeInv, SlicesOK
      <3>3. \A g, d : Wanted(g, d)' <=> Wanted(g, d)
        BY <1>1, WantedUnchanged
      <3> QED
        BY <1>1, <3>2, <3>3 DEF SlicesWanted
    <2>3. ASSUME NEW d \in DomainSuffixes, Restart(d) PROVE SlicesWanted(seen)'
      BY <1>1, <2>3, SlicesStillWanted DEF Restart, Start
    <2> QED
      BY <2>1, <2>2, <2>3, ChangesCounted
  <1> QED
    BY <1>1, <1>2, <1>3, SlicesStillWanted DEF Kept

(* Reconcile's steps that write no slice. *)
LEMMA StepWithoutWriteKeeps ==
    ASSUME UndisturbedInv, changes = 0, CollectedWanted(rec)',
           UNCHANGED <<worldVars, sliceVars>>
    PROVE  Kept
  BY SlicesStillWanted DEF UndisturbedInv, Kept, sliceVars

(* A slice that Create or Update writes is wanted by the Reconcile's GatewayDNS. *)
LEMMA WriteKeeps ==
    ASSUME TypeInv, UndisturbedInv, changes = 0, NEW c \in Clusters, NEW obj \in Slices,
           NEW next, rec.target # None, obj.ref = rec.g, rec.gateways[c] \in Addresses,
           next.g = rec.g, next.gateways = rec.gateways, next.undesired = {},
           WriteSlice(c, obj, next)
    PROVE  Kept
  <1>1. /\ SlicesWanted(remote) /\ SlicesWanted(seen) /\ CollectedWanted(rec)
        /\ rec.g \in GatewayDNSs /\ rec # Idle /\ rec \in Reconciles
    BY RunningHasGatewayDNS DEF UndisturbedInv, TypeInv, ReconcileOK, Idle
  <1>2. Wanted(rec.g, c)
    BY <1>1 DEF CollectedWanted
  <1>3. UNCHANGED worldVars /\ UNCHANGED seen
    BY DEF WriteSlice
  <1>4. rec'.g = rec.g /\ rec'.gateways = rec.gateways /\ rec'.undesired = {}
    BY <1>1 DEF WriteSlice, Abort, Reconciles
  <1> QED
    BY <1>1, <1>2, <1>3, <1>4, WriteWanted, ReconcileGoesOn, SlicesStillWanted DEF Kept

(* A Reconcile withdraws nothing while nothing changes: the slices it finds *)
(* undesired would be of a gateway it did not collect, and it collects every *)
(* wanted one or gives up.                                                 *)
LEMMA ReconcileKeeps ==
    ASSUME TypeInv, UndisturbedInv, ReconcileStep, changes' = 0
    PROVE  Kept
  <1>1. changes = 0 /\ UNCHANGED worldVars
    BY DEF ReconcileStep, ListClusters, ClusterConverged, ReconcileEnd, ClusterUnreachable,
           ClusterWithoutNamespace, DiffCluster, CreateMissing, CreateAlreadyExists,
           UpdateExisting, UpdateChanged, DeleteUndesired, CallFails, WriteFails, WriteSlice,
           Fault, budget
  <1>2. /\ SlicesWanted(remote) /\ SlicesWanted(seen) /\ CollectedWanted(rec)
        /\ rec \in Reconciles /\ rec.undesired = {}
        /\ SlicesOK /\ ProcessOK /\ ReconcileOK(rec)
    BY <1>1 DEF UndisturbedInv, CollectedWanted, TypeInv, ReconcileOK
  <1>3. CASE ListClusters
    <2>1. CollectedWanted(rec)'
      BY <1>1, <1>2, <1>3, ReconcileGoesOn DEF ListClusters, Reconciles
    <2> QED
      BY <1>1, <1>3, <2>1, StepWithoutWriteKeeps DEF ListClusters
  <1>4. CASE ClusterConverged
    <2>1. CollectedWanted(rec)'
      BY <1>1, <1>2, <1>4, ReconcileGoesOn DEF ClusterConverged, Converging, Reconciles, Idle
    <2> QED
      BY <1>1, <1>4, <2>1, StepWithoutWriteKeeps DEF ClusterConverged
  <1>5. CASE ReconcileEnd
    BY <1>1, <1>5, IdleWanted, StepWithoutWriteKeeps DEF ReconcileEnd
  <1>6. ASSUME NEW t \in Clusters, ClusterUnreachable(t) \/ ClusterWithoutNamespace(t)
        PROVE  Kept
    <2>1. rec # Idle
      BY <1>6 DEF ClusterUnreachable, ClusterWithoutNamespace, Idle
    <2>2. rec'.g = rec.g /\ rec'.gateways = rec.gateways /\ rec'.undesired = {}
      BY <1>2, <1>6 DEF ClusterUnreachable, ClusterWithoutNamespace, Reconciles
    <2>3. CollectedWanted(rec)'
      BY <1>1, <1>2, <2>1, <2>2, ReconcileGoesOn
    <2> QED
      BY <1>1, <1>6, <2>3, StepWithoutWriteKeeps DEF ClusterUnreachable, ClusterWithoutNamespace
  <1>7. ASSUME NEW t \in Clusters, DiffCluster(t) PROVE Kept
    <2>1. rec # Idle
      BY <1>7 DEF DiffCluster, Idle
    <2>2. Undesired(rec.g, t, rec.gateways) = {}
      BY <1>2, <2>1, NothingUndesired
    <2>3. CollectedWanted(rec)'
      BY <1>1, <1>2, <1>7, <2>1, <2>2, ReconcileGoesOn DEF DiffCluster, Reconciles
    <2> QED
      BY <1>1, <1>7, <2>3, StepWithoutWriteKeeps DEF DiffCluster
  <1>8. ASSUME NEW c \in Clusters, CreateMissing(c) PROVE Kept
    <2>1. rec.g \in GatewayDNSs /\ rec.gateways[c] \in Addresses
      BY <1>2, <1>8, RunningHasGatewayDNS DEF CreateMissing, Converging, ReconcileOK
    <2>2. /\ ToEndpointSlice(rec.g, rec.gateways[c]) \in Slices
          /\ ToEndpointSlice(rec.g, rec.gateways[c]).ref = rec.g
      BY <1>2, <2>1, ToEndpointSliceType DEF ToEndpointSlice
    <2> DEFINE next == [rec EXCEPT !.missing = @ \ {c}]
    <2>3. next.g = rec.g /\ next.gateways = rec.gateways /\ next.undesired = {}
      BY <1>2 DEF Reconciles
    <2>4. rec.target # None
      BY <1>8 DEF CreateMissing, Converging
    <2>5. WriteSlice(c, ToEndpointSlice(rec.g, rec.gateways[c]), next)
      BY <1>8 DEF CreateMissing
    <2> HIDE DEF next
    <2> QED
      BY <1>1, <2>1, <2>2, <2>3, <2>4, <2>5, WriteKeeps
  <1>9. ASSUME NEW c \in Clusters, CreateAlreadyExists(c) PROVE Kept
    <2>1. CollectedWanted(rec)'
      BY <1>1, <1>2, <1>9, ReconcileGoesOn DEF CreateAlreadyExists, Converging, Reconciles, Idle
    <2> QED
      BY <1>1, <1>9, <2>1, StepWithoutWriteKeeps DEF CreateAlreadyExists
  <1>10. ASSUME NEW c \in Clusters, UpdateExisting(c) PROVE Kept
    <2>1. rec.target # None /\ rec.existing = c
      BY <1>10 DEF UpdateExisting, Converging
    <2>2. c \in rec.missing
      BY <1>2, <2>1, StandInsAssumption DEF ReconcileOK
    <2>3. /\ rec.g \in GatewayDNSs /\ rec.gateways[c] \in Addresses
          /\ rec.target \in Clusters
      BY <1>2, <2>1, <2>2, RunningHasGatewayDNS DEF ReconcileOK, Reconciles
    <2>4. seen[rec.target][c] \in Slices
      BY <1>2, <1>10, <2>3 DEF UpdateExisting, SlicesOK
    <2> DEFINE obj == Merge(ToEndpointSlice(rec.g, rec.gateways[c]), seen[rec.target][c])
               next == [rec EXCEPT !.missing = @ \ {c}, !.existing = None]
    <2>5. obj \in Slices /\ obj.ref = rec.g
      BY <1>2, <2>3, <2>4, ToEndpointSliceType, MergeReplaces DEF ToEndpointSlice
    <2>6. next.g = rec.g /\ next.gateways = rec.gateways /\ next.undesired = {}
      BY <1>2 DEF Reconciles
    <2>7. WriteSlice(c, obj, next)
      BY <1>10 DEF UpdateExisting
    <2> HIDE DEF obj, next
    <2> QED
      BY <1>1, <2>1, <2>3, <2>5, <2>6, <2>7, WriteKeeps
  <1>11. ASSUME NEW c \in Clusters, UpdateChanged(c) PROVE Kept
    <2>1. rec.target # None /\ c \in rec.changed
      BY <1>11 DEF UpdateChanged, Converging
    <2>2. /\ rec.g \in GatewayDNSs /\ rec.gateways[c] \in Addresses
          /\ rec.target \in Clusters
      BY <1>2, <2>1, RunningHasGatewayDNS DEF ReconcileOK, Reconciles
    <2>3. remote[rec.target][c] \in Slices
      BY <1>2, <1>11, <2>2 DEF UpdateChanged, SlicesOK
    <2> DEFINE obj == Merge(ToEndpointSlice(rec.g, rec.gateways[c]), remote[rec.target][c])
               next == [rec EXCEPT !.changed = @ \ {c}]
    <2>4. obj \in Slices /\ obj.ref = rec.g
      BY <1>2, <2>2, <2>3, ToEndpointSliceType, MergeReplaces DEF ToEndpointSlice
    <2>5. next.g = rec.g /\ next.gateways = rec.gateways /\ next.undesired = {}
      BY <1>2 DEF Reconciles
    <2>6. WriteSlice(c, obj, next)
      BY <1>11 DEF UpdateChanged
    <2> HIDE DEF obj, next
    <2> QED
      BY <1>1, <2>1, <2>2, <2>4, <2>5, <2>6, WriteKeeps
  <1>12. ASSUME NEW c \in Clusters, DeleteUndesired(c) PROVE Kept
    BY <1>2, <1>12 DEF DeleteUndesired
  <1>13. ASSUME NEW c \in Clusters, CallFails(c) PROVE Kept
    <2>1. CollectedWanted(rec)'
      BY <1>1, <1>2, <1>13, ReconcileGoesOn
      DEF CallFails, WriteFails, Abort, Converging, Reconciles, Idle
    <2> QED
      BY <1>1, <1>13, <2>1, StepWithoutWriteKeeps DEF CallFails, WriteFails
  <1> QED
    BY <1>3, <1>4, <1>5, <1>6, <1>7, <1>8, <1>9, <1>10, <1>11, <1>12, <1>13 DEF ReconcileStep

(* Every step of the system keeps the published slices while nothing changes. *)
LEMMA NextKeeps ==
    ASSUME TypeInv, UndisturbedInv, [Next]_vars, changes' = 0
    PROVE  Kept
  <1>1. CASE World
    BY <1>1, WorldKeeps
  <1>2. CASE PollGatewayDNS \/ UNCHANGED vars
    <2>1. /\ changes = 0 /\ UNCHANGED <<worldVars, sliceVars, rec>>
      BY <1>2 DEF PollGatewayDNS, vars, budget
    <2>2. \A g, c : Wanted(g, c)' <=> Wanted(g, c)
      BY <2>1, WantedUnchanged
    <2>3. CollectedWanted(rec)'
      BY <2>1, <2>2 DEF UndisturbedInv, CollectedWanted
    <2> QED
      BY <2>1, <2>3, StepWithoutWriteKeeps
  <1>3. ASSUME NEW g \in GatewayDNSs, ReconcileCollect(g) PROVE Kept
    <2>1. PICK f \in [Clusters -> Addresses \cup {NotWanted, Unreachable}] :
              /\ \A c \in Clusters : f[c] \in GatewayOutcomes(g, c)
              /\ rec' = [Idle EXCEPT !.g = g, !.gateways = f]
      BY <1>3 DEF ReconcileCollect
    <2>2. rec'.g = g /\ rec'.gateways = f /\ rec'.undesired = {}
      BY <2>1 DEF Idle
    <2>3. changes = 0 /\ UNCHANGED <<worldVars, sliceVars>>
      BY <1>3 DEF ReconcileCollect, budget
    <2>4. \A c \in Clusters : /\ f[c] = NotWanted => ~Wanted(g, c)
                              /\ f[c] \in Addresses => Wanted(g, c)
      BY <2>1, CollectFindsWanted
    <2>5. \A c \in Clusters : Wanted(rec.g, c)' <=> Wanted(g, c)
      BY <2>2, <2>3 DEF Wanted, Matches, ServiceGateway, worldVars
    <2>6. CollectedWanted(rec)'
      BY <2>2, <2>4, <2>5 DEF CollectedWanted
    <2> QED
      BY <2>3, <2>6, StepWithoutWriteKeeps
  <1>4. CASE ReconcileStep
    BY <1>4, ReconcileKeeps
  <1>5. CASE Crash
    BY <1>5, IdleWanted, StepWithoutWriteKeeps DEF Crash
  <1>6. CASE ReconcileReadFails
    BY <1>6, IdleWanted, StepWithoutWriteKeeps DEF ReconcileReadFails, Fault
  <1> QED
    BY <1>1, <1>2, <1>3, <1>4, <1>5, <1>6 DEF Next, Controller, ReconcileInvalidSelector

(* While no object is changed by anyone else, no Reconcile withdraws a     *)
(* published slice: neither outages, lost answers, stale caches and        *)
(* restarts nor GatewayDNSs that select the same cluster make one delete   *)
(* what is wanted.                                                         *)
THEOREM PublishedStays == Spec => PublishedStaysPublished
  <1>1. Init => UndisturbedInv
    BY DEF Init, UndisturbedInv, SlicesWanted, CollectedWanted, NoSlices, Idle
  <1>2. TypeInv /\ UndisturbedInv /\ [Next]_vars => UndisturbedInv'
    BY NextKeeps DEF UndisturbedInv, Kept
  <1>3. TypeInv /\ UndisturbedInv /\ [Next]_vars
           => [changes' = 0 => \A t, c \in Clusters :
                                 remote[t][c] # Absent => remote'[t][c] # Absent]_vars
    BY NextKeeps DEF Kept
  <1> QED
    BY <1>1, <1>2, <1>3, InitTypeInv, NextTypes, PTL DEF Spec, PublishedStaysPublished
=============================================================================
