------------------------- MODULE MCDNSConfigPatcher -------------------------
(* Two Jobs, of two zones, and a Corefile as it is installed, with a       *)
(* section of an earlier Job between two blocks, empty, or missing with    *)
(* all data.                                                               *)
EXTENDS DNSConfigPatcher

MCCorefiles ==
    {<<"u1">>, <<Blank>>, <<"u1", Blank>> \o XCCBlock("d1", "ip1") \o <<Blank, "u2">>, NoData}
=============================================================================
