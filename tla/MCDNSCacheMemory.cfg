SPECIFICATION MemorySpec
CONSTANTS
    ResourceKeys = {k1, k2, k3}
    Labels <- MCLabels
    LowerCase <- MCLowerCase
    Wildcard = "*"
    Names <- MCNames
    Addresses <- MCAddresses
    IPs <- MCAddresses
    CanonicalAddress <- MCCanonicalAddress
    AddressLists <- MCAddressLists
    Arrays = {1, 2, 3, 4}
    MaxWrites = 6
SYMMETRY MCSymmetry
CHECK_DEADLOCK FALSE
INVARIANTS MemoryAgrees AnswerIsSnapshot
