----------------------------- MODULE MCOutbound -----------------------------
(* The instance of Outbound TLC checks.                                     *)
EXTENDS Outbound

CONSTANTS callA, callB, callC, k1, k2, k3

MCCalls == {callA, callB, callC}
MCConns == {k1, k2, k3}
=============================================================================
