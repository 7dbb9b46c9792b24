SPECIFICATION FairSpec
CONSTANTS
    GatewayDNSs = {"g1"}
    Clusters = {"c1", "c2"}
    ClusterLabels <- MCGroups
    Specs <- AllSpecs
    InvalidSelector = InvalidSelector
    ServiceNames = {"s1"}
    Addresses <- MCIngresses
    RefusedAddresses = {"hostname only"}
    DomainSuffixes = {"d1"}
    Absent = Absent
    InitialWorlds <- HostnameWorlds
    MaxChanges = 1
    MaxFaults = 0
    MaxCrashes = 0
PROPERTY ChangedSlicesUpdated
