SPECIFICATION CacheSpec
CONSTANTS
    ResourceKeys = {k1, k2, k3}
    Labels <- MCLabels
    LowerCase <- MCLowerCase
    Wildcard = "*"
    Names <- MCNames
    Addresses <- MCAddresses
    IPs <- MCIPs
    CanonicalAddress <- MCCanonicalAddress
    AddressLists <- MCAddressLists
    Arguments <- MCArguments
    ServerBlockKeys <- MCServerBlockKeys
    Questions <- MCQuestions
    TargetOf <- MCTargetOf
SYMMETRY MCSymmetry
INVARIANT WildcardAnswers
