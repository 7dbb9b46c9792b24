SPECIFICATION FairSpec
CONSTANTS
    ResourceKeys = {k1, k2}
    Labels <- MCLabels
    LowerCase <- MCLowerCase
    Wildcard = "*"
    Names <- MCNames
    Addresses <- MCAddresses
    IPs <- MCIPs
    CanonicalAddress <- MCCanonicalAddress
    AddressLists <- MCAddressLists
    Slices <- FewSlices
    NoHostname = NoHostname
    Absent = Absent
    IPString <- MCIPString
    MaxChanges = 3
    MaxCrashes = 1
    MaxRelists = 1
CHECK_DEADLOCK FALSE
INVARIANTS PipelineTypeOK SettledIsCurrent
PROPERTIES EventuallyServed EventuallyWithdrawn
