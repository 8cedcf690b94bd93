---------------------------- MODULE MCConfigLoad ----------------------------
(* The instance of ConfigLoad TLC checks: 8-bit integers, two binary units *)
(* and a decimal one that are to them what the real ones are to 64 bits.   *)
EXTENDS ConfigLoad

MCByteUnits == [b |-> 1, kib |-> 4, mib |-> 16, kb |-> 10]
MCRenderUnits == <<"mib", "kib">>
MCDurations == {-1, 0, 1, 2, 3}
MCCounts == {-1, 0, 1, 8, 12, 33, 200}
=============================================================================
