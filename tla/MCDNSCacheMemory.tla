-------------------------- MODULE MCDNSCacheMemory --------------------------
(* Three EndpointSlices under an exact name and a wildcard above it. *)
EXTENDS DNSCacheMemory, TLC

MCLabels == {"a", "b", "*"}
MCLowerCase == [l \in MCLabels |-> l]
MCNames == {<<"a", "b">>, <<"*", "b">>}
MCAddresses == {"ip1", "ip2"}
MCCanonicalAddress == [x \in MCAddresses |-> x]
MCAddressLists == {<<"ip1">>, <<"ip2">>}
MCSymmetry == Permutations(ResourceKeys)
=============================================================================
