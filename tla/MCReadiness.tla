---------------------------- MODULE MCReadiness ----------------------------
(* The instance of Readiness TLC checks.  Probes share nothing they write: *)
(* one, against all that changes what it reads, is enough.                 *)
EXTENDS Readiness

CONSTANT p1

MCOne == {p1}
=============================================================================
