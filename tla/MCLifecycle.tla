---------------------------- MODULE MCLifecycle ----------------------------
(* The instance of Lifecycle TLC checks: the application and the            *)
(* administrative server, the latter on a host name.                        *)
EXTENDS Lifecycle, TLC

CONSTANTS app, admin, c1, c2

MCServers == {app, admin}
MCNamed   == {admin}
MCConns1  == {c1}
MCConns2  == {c1, c2}
ConnSymmetry == Permutations(MCConns2)
=============================================================================
