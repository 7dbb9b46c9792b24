------------------------- MODULE MCEndpointSliceDNS -------------------------
(* Two EndpointSlices that take any of four contents: an IPv4 slice with   *)
(* an address that does not parse, the same hostname with an alias, one    *)
(* without annotation, and one of a type the controller skips.             *)
EXTENDS EndpointSliceDNS

MCLabels == {"a", "A", "b", "*"}
MCLowerCase == [l \in MCLabels |-> IF l = "A" THEN "a" ELSE l]
MCNames == {<<"A", "b">>, <<"a", "b">>, <<"*", "b">>}
MCAddresses == {"ip1", "IP2", "ip2", "host", "HOST"}
MCIPs == {"ip1", "IP2", "ip2"}
MCCanonicalAddress == [a \in MCAddresses |-> IF a = "HOST" THEN "host" ELSE a]
MCIPString == [a \in MCIPs |-> IF a = "IP2" THEN "ip2" ELSE a]
MCAddressLists == {<<"ip1", "ip2">>, <<"HOST">>}
MCSlices ==
    {[hostname |-> <<"A", "b">>, addressType |-> "IPv4", addresses |-> <<"ip1", "host", "IP2">>],
     [hostname |-> <<"*", "b">>, addressType |-> "FQDN", addresses |-> <<"HOST">>],
     [hostname |-> NoHostname, addressType |-> "IPv4", addresses |-> <<"ip1">>],
     [hostname |-> <<"a", "b">>, addressType |-> "IPv6", addresses |-> <<"ip1">>]}

(* Without the skipped type, which Reconcile leaves as it leaves a slice   *)
(* that has no annotation.                                                 *)
FewSlices == {s \in MCSlices : s.addressType # "IPv6"}
=============================================================================
