SPECIFICATION FairSpec
CONSTANTS
    GatewayDNSs = {"g1"}
    Clusters = {"c1", "c2"}
    ClusterLabels <- MCGroups
    Specs <- DisjointSpecs
    InvalidSelector = InvalidSelector
    ServiceNames = {"s1"}
    Addresses <- MCIngresses
    RefusedAddresses = {"hostname only"}
    DomainSuffixes = {"d1", "d2"}
    Absent = Absent
    InitialWorlds <- NewWorlds
    MaxChanges = 2
    MaxFaults = 1
    MaxCrashes = 1
INVARIANT ControllerTypeOK
PROPERTIES PublishedStaysPublished Converges
