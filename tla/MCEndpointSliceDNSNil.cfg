SPECIFICATION Spec
CONSTANTS
    ResourceKeys = {k1}
    Labels <- MCLabels
    LowerCase <- MCLowerCase
    Wildcard = "*"
    Names <- MCNames
    Addresses <- MCAddresses
    IPs <- MCIPs
    CanonicalAddress <- MCCanonicalAddress
    AddressLists <- MCAddressLists
    Slices <- MCSlices
    NoHostname = NoHostname
    Absent = Absent
    IPString <- MCIPString
    MaxChanges = 2
    MaxCrashes = 0
    MaxRelists = 0
CHECK_DEADLOCK FALSE
INVARIANT NoNilDereference
