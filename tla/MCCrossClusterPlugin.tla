------------------------ MODULE MCCrossClusterPlugin ------------------------
(* A small instance of the cache and the plugin, which serves a zone and a *)
(* zone in it.  An exact name in two spellings and two wildcards above it  *)
(* are published; questions are also asked for a name that only the upper  *)
(* wildcard covers, for one that both do, and for one of no zone.  Aliases *)
(* lead to the exact name, to one of the upper wildcard, and to no zone.   *)
EXTENDS CrossClusterPlugin, TLC

MCLabels == {"a", "A", "b", "c", "d", "*"}
MCLowerCase == [l \in MCLabels |-> IF l = "A" THEN "a" ELSE l]
MCNames == {<<"a", "b", "c">>, <<"A", "b", "c">>, <<"*", "b", "c">>, <<"*", "c">>}
MCQuestions ==
    {<<"a", "b", "c">>, <<"A", "b", "c">>, <<"d", "b", "c">>, <<"d", "c">>, <<"d", "a">>}
MCAddresses == {"ip1", "ip2", "exact", "EXACT", "wild", "outside"}
MCIPs == {"ip1", "ip2"}
MCCanonicalAddress == [x \in MCAddresses |-> IF x = "EXACT" THEN "exact" ELSE x]
MCTargetOf ==
    [x \in MCAddresses \ MCIPs |->
        CASE x = "wild" -> <<"d", "c">> [] x = "outside" -> <<"d">> [] OTHER -> <<"a", "b", "c">>]
MCAddressLists == {<<>>, <<"ip1", "ip2", "ip1">>, <<"EXACT", "outside">>, <<"wild">>}
MCArguments == <<>>
MCServerBlockKeys == << <<"c">>, <<"b", "c">> >>
MCSymmetry == Permutations(ResourceKeys)
=============================================================================
