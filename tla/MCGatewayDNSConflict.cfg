SPECIFICATION FairSpec
CONSTANTS
    GatewayDNSs = {"g1"}
    Clusters = {"c1", "c2"}
    ClusterLabels <- MCGroups
    Specs <- DisjointSpecs
    InvalidSelector = InvalidSelector
    ServiceNames = {"s1"}
    Addresses <- MCAddresses
    RefusedAddresses = {}
    DomainSuffixes = {"d1"}
    Absent = Absent
    InitialWorlds <- NewWorlds
    MaxChanges = 1
    MaxFaults = 0
    MaxCrashes = 0
PROPERTY ConflictingSlicesUpdated
