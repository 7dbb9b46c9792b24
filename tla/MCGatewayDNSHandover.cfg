SPECIFICATION FairSpec
CONSTANTS
    GatewayDNSs = {"g1", "g2"}
    Clusters = {"c1", "c2"}
    ClusterLabels <- MCGroups
    Specs <- SharedSpecs
    InvalidSelector = InvalidSelector
    ServiceNames = {"s1"}
    Addresses <- MCAddresses
    RefusedAddresses = {}
    DomainSuffixes = {"d1"}
    Absent = Absent
    InitialWorlds <- SharedWorlds
    MaxChanges = 1
    MaxFaults = 0
    MaxCrashes = 0
PROPERTIES PublishedStaysPublished Converges
