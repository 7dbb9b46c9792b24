----------------------- MODULE MCGatewayDNSController -----------------------
(* Two GatewayDNSs and two clusters, each labelled as of group "x" or "y". *)
EXTENDS GatewayDNSController

MCGroups == {"x", "y"}
MCAddresses == {"ip1", "ip2"}
MCIngresses == MCAddresses \cup {"hostname only"}
Select(selector, s) == [selector |-> selector, service |-> s]

(* GatewayDNSs that never select the same cluster.  g1 can also be given a *)
(* service that is not of the form namespace/name and a bad selector.      *)
DisjointSpecs ==
    [g \in GatewayDNSs |->
        IF g = "g1" THEN {Select({"x"}, "s1"), Select({"x"}, "malformed"),
                          Select(InvalidSelector, "s1")}
                    ELSE {Select({"y"}, "s1")}]

(* One cluster of each group, both with a gateway, one GatewayDNS for each *)
(* group; and the start of a deployment.                                   *)
DisjointWorld ==
    [gatewayDNS |-> [g \in GatewayDNSs |-> Select({IF g = "g1" THEN "x" ELSE "y"}, "s1")],
     labels |-> [c \in Clusters |-> IF c = "c1" THEN "x" ELSE "y"],
     services |-> [c \in Clusters |-> [s \in ServiceNames |-> IF c = "c1" THEN "ip1" ELSE "ip2"]],
     namespaces |-> Clusters]
NewWorld ==
    [DisjointWorld EXCEPT !.namespaces = {"c1"},
                          !.labels["c2"] = Absent,
                          !.services["c2"] = [s \in ServiceNames |-> Absent]]
DisjointWorlds == {DisjointWorld}
NewWorlds == {NewWorld}

(* g2 may also select what g1 selects, and does so from the start in the   *)
(* second world, where only c1 has the namespace.                          *)
SharedSpecs ==
    [g \in GatewayDNSs |-> {Select({"x"}, "s1")}
                             \cup IF g = "g2" THEN {Select({"y"}, "s1")} ELSE {}]
SharedWorlds ==
    {DisjointWorld,
     [DisjointWorld EXCEPT !.namespaces = {"c1"},
                           !.gatewayDNS = [g \in GatewayDNSs |-> Select({"x"}, "s1")]]}

(* g1 selects every cluster, of which c2's gateway has no IP. *)
AllSpecs == [g \in GatewayDNSs |-> {Select(MCGroups, "s1")}]
HostnameWorlds ==
    {[DisjointWorld EXCEPT
         !.gatewayDNS = [g \in GatewayDNSs |-> Select(MCGroups, "s1")],
         !.services["c2"] = [s \in ServiceNames |-> "hostname only"]]}
=============================================================================
